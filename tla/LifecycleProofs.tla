--------------------------- MODULE LifecycleProofs ---------------------------
(* Theorems about Lifecycle, for any number and combination of failures and a    *)
(* signal at any moment.                                                         *)
EXTENDS Lifecycle, TLAPS

------------------------------------------------------------------------------
\* Main's way down: where it is once it is done with each.
AfterHttp == {<<"free", "bus">>, Exited}
AfterAgent == {<<"free", "http">>} \cup AfterHttp
AfterCron == {<<"stop", "agent">>, <<"join", "agent">>} \cup AfterAgent
AfterHeartbeat == {<<"stop", "cron">>, <<"join", "cron">>} \cup AfterCron
AfterSocket == {<<"stop", "heartbeat">>, <<"join", "heartbeat">>} \cup AfterHeartbeat
AfterReceiver == {<<"free", "socket">>} \cup AfterSocket
AfterCli == {<<"stop", "receiver">>, <<"join", "receiver">>} \cup AfterReceiver
AfterFeishu == {<<"stop", "cli">>, <<"join", "cli">>} \cup AfterCli
AfterPcm == {<<"stop", "feishu">>, <<"join", "feishu">>} \cup AfterFeishu
AfterVoice == {<<"free", "pcm">>} \cup AfterPcm
AfterButton == {<<"join", "voice">>} \cup AfterVoice
AfterBoot == {<<"stop", "voice">>, <<"stop", "button">>, <<"join", "button">>}
                 \cup AfterButton
Up == {<<"loop", "main">>, <<"join", "bootstrap">>}

Still(t) == thread[t] \in {"none", "joined"}

\* Main is somewhere on that way, and whom it has left behind is still.
PlaceInv ==
    /\ mpc \in Up \cup AfterBoot \cup {Crashed}
    /\ mpc \in AfterBoot => Still("bootstrap")
    /\ mpc \in AfterButton => Still("button")
    /\ mpc \in AfterVoice => Still("voice")
    /\ mpc \in AfterFeishu => Still("feishu")
    /\ mpc \in AfterCli => Still("cli")
    /\ mpc \in AfterReceiver => Still("receiver")
    /\ mpc \in AfterHeartbeat => Still("heartbeat")
    /\ mpc \in AfterCron => Still("cron")
    /\ mpc \in AfterAgent => Still("agent")

\* The bootstrap thread's place, and what is not there before it has come by.
BootInv ==
    /\ bpc \in 1 .. 11
    /\ thread["bootstrap"] = "none" => bpc = 1
    /\ thread["bootstrap"] \in {"ended", "joined"} => bpc = 11
    /\ bpc <= 4 => thread["agent"] = "none"
    /\ bpc <= 5 => thread["receiver"] = "none"
    /\ bpc <= 6 => thread["cli"] = "none"
    /\ bpc <= 7 => thread["feishu"] = "none"
    /\ bpc <= 8 => thread["voice"] = "none" /\ thread["button"] = "none"
    /\ bpc <= 9 => thread["cron"] = "none"
    /\ bpc <= 10 => thread["heartbeat"] = "none"
    /\ bpc > 2 => chans = <<"cli", "feishu", "voice">>

\* Whoever is there will be stopped: a stop function that returns at once had nobody to
\* stop.
StopInv ==
    /\ \A s \in Services : thread[s] # "none" => s \in started
    /\ bpc > 8 => "channels" \in started
    /\ bpc > 8 => flag["voice"] \/ mpc \in {<<"stop", "button">>, <<"join", "button">>, Crashed}
                                \/ mpc \in AfterButton
    /\ Still("feishu") \/ flag["feishu"] \/ mpc \in {<<"join", "feishu">>, Crashed}
    /\ Still("button") \/ flag["button"] \/ mpc \in {<<"join", "button">>, Crashed}
    /\ "audio" \notin started => thread["receiver"] = "none" /\ "socket" \notin up

\* What there is to give back.
GivenInv ==
    /\ up \subseteq Resources
    /\ "bus" \in up <=> mpc # Exited
    /\ bpc > 1 /\ mpc \notin AfterHttp => "http" \in up
    /\ mpc \in AfterHttp => "http" \notin up
    /\ bpc > 3 /\ mpc \notin AfterPcm \cup {Crashed} => "pcm" \in up \/ "detector" \in broken
    /\ Alive("voice") => "pcm" \in up \/ "detector" \in broken
    /\ bpc <= 3 => "pcm" \notin up
    /\ mpc \in AfterPcm => "pcm" \notin up
    /\ Alive("receiver") => "socket" \in up
    /\ mpc \in AfterSocket => "socket" \notin up
    /\ s_connected => "socket" \in up
    /\ child # "none" => "audio" \in started \/ "connect" \in broken
    /\ mpc \in AfterSocket /\ child = "running" => "connect" \in broken
    /\ outbound # NoOne => outbound \in Channels /\ bpc > 2

LifeTypes ==
    /\ thread \in [Threads -> {"none", "alive", "ended", "joined"}]
    /\ flag \in [Workers -> BOOLEAN]

LifeInv == LifeTypes /\ PlaceInv /\ BootInv /\ StopInv /\ GivenInv

LEMMA InitLifeInv == Init => LifeInv
<1> SUFFICES ASSUME Init PROVE LifeInv
  OBVIOUS
<1>1. LifeTypes
  BY DEF Init, LifeTypes, Threads, Workers, Channels, Services
<1>2. PlaceInv
  BY DEF Init, PlaceInv, Up, AfterBoot, AfterButton, AfterVoice, AfterPcm, AfterFeishu,
         AfterCli, AfterReceiver, AfterSocket, AfterHeartbeat, AfterCron, AfterAgent,
         AfterHttp, Exited
<1>3. BootInv /\ StopInv
  BY DEF Init, BootInv, StopInv, Threads, Workers, Channels, Services, Still
<1>4. GivenInv
  BY DEF Init, GivenInv, Alive, Threads, Workers, Channels, Services, Resources, Exited,
         AfterPcm, AfterFeishu, AfterCli, AfterReceiver, AfterSocket, AfterHeartbeat,
         AfterCron, AfterAgent, AfterHttp
<1>5. QED
  BY <1>1, <1>2, <1>3, <1>4 DEF LifeInv

\* While the bootstrap thread lives main has left nobody behind.
LEMMA UpIsBefore ==
    ASSUME NEW m \in Up
    PROVE  m \notin AfterBoot /\ m \notin AfterButton /\ m \notin AfterVoice
           /\ m \notin AfterPcm /\ m \notin AfterFeishu /\ m \notin AfterCli
           /\ m \notin AfterReceiver /\ m \notin AfterSocket /\ m \notin AfterHeartbeat
           /\ m \notin AfterCron /\ m \notin AfterAgent /\ m \notin AfterHttp
           /\ m # Exited /\ m # Crashed
BY DEF Up, AfterBoot, AfterButton, AfterVoice, AfterPcm, AfterFeishu, AfterCli,
       AfterReceiver, AfterSocket, AfterHeartbeat, AfterCron, AfterAgent, AfterHttp,
       Exited, Crashed

\* A program that came down is nowhere on that way.
LEMMA CrashedIsNowhere ==
    /\ Crashed \notin AfterBoot /\ Crashed \notin AfterButton /\ Crashed \notin AfterVoice
    /\ Crashed \notin AfterPcm /\ Crashed \notin AfterFeishu /\ Crashed \notin AfterCli
    /\ Crashed \notin AfterReceiver /\ Crashed \notin AfterSocket
    /\ Crashed \notin AfterHeartbeat /\ Crashed \notin AfterCron
    /\ Crashed \notin AfterAgent /\ Crashed \notin AfterHttp
    /\ Crashed # Exited
BY DEF AfterBoot, AfterButton, AfterVoice, AfterPcm, AfterFeishu, AfterCli,
       AfterReceiver, AfterSocket, AfterHeartbeat, AfterCron, AfterAgent, AfterHttp,
       Exited, Crashed

LEMMA BootPlaces ==
    ASSUME bpc \in 1 .. 11
    PROVE  /\ BootOrder[bpc] = "http" => bpc = 1
           /\ BootOrder[bpc] = "register" => bpc = 2
           /\ BootOrder[bpc] = "initAll" => bpc = 3
           /\ BootOrder[bpc] = "agent" => bpc = 4
           /\ BootOrder[bpc] = "audio" => bpc = 5
           /\ BootOrder[bpc] = "cli" => bpc = 6
           /\ BootOrder[bpc] = "feishu" => bpc = 7
           /\ BootOrder[bpc] = "voice" => bpc = 8
           /\ BootOrder[bpc] = "cron" => bpc = 9
           /\ BootOrder[bpc] = "heartbeat" => bpc = 10
           /\ BootOrder[bpc] = "end" => bpc = 11
BY DEF BootOrder

LEMMA BootKeeps == LifeInv /\ Boot => LifeInv'
<1> SUFFICES ASSUME LifeInv, Boot PROVE LifeInv'
  OBVIOUS
<1> USE DEF LifeInv, LifeTypes, Threads, Workers, Channels, Services
<1>1. /\ mpc \in Up /\ Alive("bootstrap") /\ mpc' = mpc /\ broken' = broken
      /\ \E k \in 1 .. 11 : bpc = k
  BY DEF Boot, BootHttp, BootRegister, BootInitAll, BootService, BootAudio, BootCli,
         BootFeishu, BootVoice, BootEnds, At, Advance, mains, PlaceInv, BootInv, Still,
         Alive
<1>2. /\ mpc \notin AfterBoot /\ mpc \notin AfterButton /\ mpc \notin AfterVoice
      /\ mpc \notin AfterPcm /\ mpc \notin AfterFeishu /\ mpc \notin AfterCli
      /\ mpc \notin AfterReceiver /\ mpc \notin AfterSocket /\ mpc \notin AfterHeartbeat
      /\ mpc \notin AfterCron /\ mpc \notin AfterAgent /\ mpc \notin AfterHttp
      /\ mpc # Exited /\ mpc # Crashed
  BY <1>1, UpIsBefore
<1>3. PlaceInv'
  BY <1>1, <1>2 DEF PlaceInv
<1> HIDE DEF LifeInv
<1> USE DEF BootInv, StopInv, GivenInv, Still, Alive, At, Advance, world, audio, mains
<1>4. CASE BootHttp
  BY <1>1, <1>2, <1>3, <1>4, BootPlaces DEF LifeInv, BootHttp, Resources
<1>5. CASE BootRegister
  BY <1>1, <1>2, <1>3, <1>5, BootPlaces DEF LifeInv, BootRegister
<1>6. CASE BootInitAll
  BY <1>1, <1>2, <1>3, <1>6, BootPlaces DEF LifeInv, BootInitAll, Resources
<1>7. CASE \E t \in Services : BootService(t)
  BY <1>1, <1>2, <1>3, <1>7, BootPlaces DEF LifeInv, BootService, Create, Created
<1>8. CASE BootAudio
  <2>1. bpc = 5 /\ bpc' = 6 /\ UNCHANGED <<chans, outbound, shut>>
    BY <1>1, <1>8, BootPlaces DEF BootAudio
  <2>2. /\ flag' \in [Workers -> BOOLEAN]
        /\ \A t \in Workers \ {"receiver"} : flag'[t] = flag[t]
        /\ thread' \in [Threads -> {"none", "alive", "ended", "joined"}]
        /\ \A t \in Threads \ {"receiver"} : thread'[t] = thread[t]
    BY <1>8 DEF LifeInv, BootAudio, Create
  <2>3. /\ started' \in {started, started \cup {"audio"}}
        /\ up' \in {up, up \cup {"socket"}}
        /\ child' # "none" => "audio" \in started' \/ "connect" \in broken
    BY <1>8, <2>1 DEF LifeInv, BootAudio
  <2>4. /\ thread'["receiver"] # "none" \/ up' # up =>
              /\ "audio" \in started'
              /\ "socket" \in up'
        /\ s_connected' => "socket" \in up'
    BY <1>8, <2>1 DEF LifeInv, BootAudio, Create
  <2>5. BootInv' /\ LifeTypes'
    BY <1>1, <2>1, <2>2 DEF LifeInv
  <2>6. StopInv'
    BY <1>1, <1>2, <2>1, <2>2, <2>3, <2>4 DEF LifeInv
  <2>7. GivenInv'
    BY <1>1, <1>2, <2>1, <2>2, <2>3, <2>4 DEF LifeInv, Resources
  <2>8. QED
    BY <1>3, <2>5, <2>6, <2>7 DEF LifeInv
<1>9. CASE BootCli
  BY <1>1, <1>2, <1>3, <1>9, BootPlaces DEF LifeInv, BootCli, Create, Created
<1>10. CASE BootFeishu
  <2>1. /\ bpc = 7 /\ bpc' = 8
        /\ UNCHANGED <<started, chans, up, outbound, child, shut, s_connected>>
    BY <1>1, <1>10, BootPlaces DEF BootFeishu
  <2>2. /\ flag' \in [Workers -> BOOLEAN]
        /\ \A t \in Workers \ {"feishu"} : flag'[t] = flag[t]
        /\ thread' \in [Threads -> {"none", "alive", "ended", "joined"}]
        /\ \A t \in Threads \ {"feishu"} : thread'[t] = thread[t]
    BY <1>10 DEF LifeInv, BootFeishu, Create
  <2>3. thread'["feishu"] = thread["feishu"] \/ flag'["feishu"]
    BY <1>10 DEF LifeInv, BootFeishu, Create
  <2>4. thread["feishu"] = "none"
    BY <2>1 DEF LifeInv
  <2>5. BootInv' /\ LifeTypes'
    BY <1>1, <2>1, <2>2 DEF LifeInv
  <2>6. StopInv'
    BY <1>1, <1>2, <2>1, <2>2, <2>3, <2>4 DEF LifeInv
  <2>7. GivenInv'
    BY <1>1, <1>2, <2>1, <2>2 DEF LifeInv
  <2>8. QED
    BY <1>3, <2>5, <2>6, <2>7 DEF LifeInv
<1>11. CASE BootVoice
  <2>1. bpc = 8 /\ bpc' = 9 /\ UNCHANGED <<chans, up, outbound, child, shut, s_connected>>
    BY <1>1, <1>11, BootPlaces DEF BootVoice
  <2>2. started' = started \cup {"channels"}
    BY <1>11 DEF BootVoice
  <2>3. /\ flag' \in [Workers -> BOOLEAN] /\ flag'["voice"]
        /\ \A t \in Workers \ {"voice", "button"} : flag'[t] = flag[t]
    BY <1>11 DEF LifeInv, BootVoice
  <2>0. thread["button"] = "none"
    BY <2>1 DEF LifeInv
  <2>9. /\ thread' \in [Threads -> {"none", "alive", "ended", "joined"}]
        /\ \A t \in Threads \ {"voice", "button"} : thread'[t] = thread[t]
        /\ thread'["button"] \in {"none", "alive", "joined"}
        /\ thread'["button"] = "alive" =>
               Created("voice") /\ "gpio" \notin broken /\ "button" \notin broken
    BY <1>11, <2>0 DEF LifeInv, BootVoice
  <2>10. Created("voice") /\ "gpio" \notin broken => flag'["button"]
    BY <1>11 DEF LifeInv, BootVoice
  <2>4. /\ thread' \in [Threads -> {"none", "alive", "ended", "joined"}]
        /\ \A t \in Threads \ {"voice", "button"} : thread'[t] = thread[t]
        /\ thread'["button"] \in {"none", "alive", "joined"}
        /\ thread'["button"] = "alive" => flag'["button"]
    BY <2>9, <2>10
  <2>5. BootInv' /\ LifeTypes'
    BY <1>1, <2>1, <2>3, <2>4 DEF LifeInv
  <2>6. StopInv'
    BY <1>1, <1>2, <2>1, <2>2, <2>3, <2>4 DEF LifeInv
  <2>7. GivenInv'
    BY <1>1, <1>2, <2>1, <2>2, <2>4 DEF LifeInv
  <2>8. QED
    BY <1>3, <2>5, <2>6, <2>7 DEF LifeInv
<1>12. CASE BootEnds
  BY <1>1, <1>2, <1>3, <1>12, BootPlaces DEF LifeInv, BootEnds
<1>13. QED
  BY <1>4, <1>5, <1>6, <1>7, <1>8, <1>9, <1>10, <1>11, <1>12 DEF Boot

LEMMA ThreadsKeep ==
    LifeInv /\ (\/ \E t \in Workers : ThreadEnds(t)
                \/ \E c \in Channels : AgentReplies(c)
                \/ Held \/ AudioDies \/ SendFails \/ BufferMissing \/ Signal \/ Dispatch)
       => LifeInv'
<1> USE DEF LifeInv, LifeTypes, Threads, Workers, Channels, Services, BootInv, StopInv,
            PlaceInv, Still, Alive, world, audio, mains
<1>1. ASSUME LifeInv, NEW t \in Workers, ThreadEnds(t) PROVE LifeInv'
  <2>1. LifeTypes' /\ BootInv'
    BY <1>1 DEF ThreadEnds
  <2>2. PlaceInv'
    BY <1>1 DEF ThreadEnds
  <2>3. StopInv'
    BY <1>1 DEF ThreadEnds
  <2>4. GivenInv'
    BY <1>1 DEF ThreadEnds, GivenInv
  <2>5. QED
    BY <2>1, <2>2, <2>3, <2>4
<1>2. ASSUME LifeInv, NEW c \in Channels, AgentReplies(c) PROVE LifeInv'
  BY <1>2 DEF AgentReplies, GivenInv
<1>3. ASSUME LifeInv, Held \/ AudioDies \/ SendFails \/ Signal \/ Dispatch PROVE LifeInv'
  <2>1. /\ s_connected' => s_connected
        /\ child' = child \/ (child # "none" /\ child' = "dead")
        /\ outbound' = outbound \/ outbound' = NoOne
        /\ UNCHANGED <<broken, mpc, bpc, thread, flag, started, chans, up>>
    <3>1. CASE Held
      BY <3>1 DEF Held
    <3>2. CASE AudioDies
      BY <3>2 DEF AudioDies
    <3>3. CASE SendFails
      BY <3>3 DEF SendFails
    <3>4. CASE Signal \/ Dispatch
      BY <3>4 DEF Signal, Dispatch
    <3>5. QED
      BY <1>3, <3>1, <3>2, <3>3, <3>4
  <2>2. QED
    BY <1>3, <2>1 DEF GivenInv
<1>4. ASSUME LifeInv, BufferMissing PROVE LifeInv'
  <2>1. mpc' = Crashed /\ mpc # Exited /\ UNCHANGED <<broken, bpc, world, audio>>
    BY <1>4 DEF BufferMissing
  <2>2. PlaceInv'
    BY <1>4, <2>1, CrashedIsNowhere
  <2>3. StopInv' /\ BootInv' /\ LifeTypes'
    BY <1>4, <2>1
  <2>4. mpc \notin AfterHttp
    BY <1>4 DEF BufferMissing, AfterVoice, AfterPcm, AfterFeishu, AfterCli,
                AfterReceiver, AfterSocket, AfterHeartbeat, AfterCron, AfterAgent
  <2>5. GivenInv'
    BY <1>4, <2>1, <2>4, CrashedIsNowhere DEF GivenInv
  <2>6. QED
    BY <2>2, <2>3, <2>5
<1>5. QED
  BY <1>1, <1>2, <1>3, <1>4

LEMMA StopStep ==
    ASSUME LifeTypes, NEW t \in Workers, Stop(t)
    PROVE  /\ mpc = <<"stop", t>> /\ flag' \in [Workers -> BOOLEAN]
           /\ \A u \in Workers \ {t} : flag'[u] = flag[u]
           /\ UNCHANGED <<broken, s_running, bpc, thread, started, chans, up, outbound, audio>>
           /\ \/ Stopped(t) /\ mpc' = OnStop(t)
              \/ ~Stopped(t) /\ mpc' = OnSkip(t) /\ flag' = flag
BY DEF LifeTypes, Stop

LEMMA ShutdownKeeps == LifeInv /\ Shutdown => LifeInv'
<1> USE DEF LifeInv, LifeTypes, Threads, Workers, Channels, Services, BootInv, StopInv,
            GivenInv, PlaceInv, Still, Alive, world, audio, mains
<1> USE DEF Up, AfterBoot, AfterButton, AfterVoice, AfterPcm, AfterFeishu, AfterCli,
            AfterReceiver, AfterSocket, AfterHeartbeat, AfterCron, AfterAgent, AfterHttp,
            Exited, Crashed
<1>1. ASSUME LifeInv, LeaveLoop PROVE LifeInv'
  BY <1>1 DEF LeaveLoop
<1>2. ASSUME LifeInv, Stop("voice") PROVE LifeInv'
  <2>1. /\ mpc = <<"stop", "voice">> /\ flag' \in [Workers -> BOOLEAN]
        /\ \A u \in Workers \ {"voice"} : flag'[u] = flag[u]
        /\ UNCHANGED <<broken, s_running, bpc, thread, started, chans, up, outbound, audio>>
    BY <1>2, StopStep
  <2>2. CASE Stopped("voice") /\ mpc' = OnStop("voice")
    BY <1>2, <2>1, <2>2 DEF OnStop
  <2>3. CASE ~Stopped("voice") /\ mpc' = OnSkip("voice") /\ flag' = flag
    BY <1>2, <2>1, <2>3 DEF Stopped, OnSkip
  <2>4. QED
    BY <1>2, <2>2, <2>3, StopStep
<1>3. ASSUME LifeInv, Stop("button") PROVE LifeInv'
  <2>1. /\ mpc = <<"stop", "button">> /\ flag' \in [Workers -> BOOLEAN]
        /\ \A u \in Workers \ {"button"} : flag'[u] = flag[u]
        /\ UNCHANGED <<broken, s_running, bpc, thread, started, chans, up, outbound, audio>>
    BY <1>3, StopStep
  <2>2. CASE Stopped("button") /\ mpc' = OnStop("button")
    BY <1>3, <2>1, <2>2 DEF OnStop
  <2>3. CASE ~Stopped("button") /\ mpc' = OnSkip("button") /\ flag' = flag
    BY <1>3, <2>1, <2>3 DEF Stopped, OnSkip
  <2>4. QED
    BY <1>3, <2>2, <2>3, StopStep
<1>4. ASSUME LifeInv, Stop("feishu") PROVE LifeInv'
  <2>1. /\ mpc = <<"stop", "feishu">> /\ flag' \in [Workers -> BOOLEAN]
        /\ \A u \in Workers \ {"feishu"} : flag'[u] = flag[u]
        /\ UNCHANGED <<broken, s_running, bpc, thread, started, chans, up, outbound, audio>>
    BY <1>4, StopStep
  <2>2. CASE Stopped("feishu") /\ mpc' = OnStop("feishu")
    BY <1>4, <2>1, <2>2 DEF OnStop
  <2>3. CASE ~Stopped("feishu") /\ mpc' = OnSkip("feishu") /\ flag' = flag
    BY <1>4, <2>1, <2>3 DEF Stopped, OnSkip
  <2>4. QED
    BY <1>4, <2>2, <2>3, StopStep
<1>5. ASSUME LifeInv, Stop("cli") PROVE LifeInv'
  <2>1. /\ mpc = <<"stop", "cli">> /\ flag' \in [Workers -> BOOLEAN]
        /\ \A u \in Workers \ {"cli"} : flag'[u] = flag[u]
        /\ UNCHANGED <<broken, s_running, bpc, thread, started, chans, up, outbound, audio>>
    BY <1>5, StopStep
  <2>2. CASE Stopped("cli") /\ mpc' = OnStop("cli")
    BY <1>5, <2>1, <2>2 DEF OnStop
  <2>3. CASE ~Stopped("cli") /\ mpc' = OnSkip("cli") /\ flag' = flag
    BY <1>5, <2>1, <2>3 DEF Stopped, OnSkip
  <2>4. QED
    BY <1>5, <2>2, <2>3, StopStep
<1>6. ASSUME LifeInv, NEW t \in Services, Stop(t) PROVE LifeInv'
  <2>1. /\ mpc = <<"stop", t>> /\ flag' \in [Workers -> BOOLEAN]
        /\ \A u \in Workers \ {t} : flag'[u] = flag[u]
        /\ UNCHANGED <<broken, s_running, bpc, thread, started, chans, up, outbound, audio>>
    BY <1>6, StopStep
  <2>2. CASE Stopped(t) /\ mpc' = OnStop(t)
    BY <1>6, <2>1, <2>2 DEF OnStop
  <2>3. CASE ~Stopped(t) /\ mpc' = OnSkip(t) /\ flag' = flag
    BY <1>6, <2>1, <2>3 DEF Stopped, OnSkip
  <2>4. QED
    BY <1>6, <2>2, <2>3, StopStep
<1>7. ASSUME LifeInv, StopAudio PROVE LifeInv'
  <2>1. /\ mpc = <<"stop", "receiver">> /\ flag' \in [Workers -> BOOLEAN]
        /\ \A u \in Workers \ {"receiver"} : flag'[u] = flag[u]
        /\ UNCHANGED <<broken, s_running, bpc, thread, started, chans, up, outbound,
                       child, s_connected>>
    <3>1. flag' \in {flag, [flag EXCEPT !["receiver"] = FALSE]}
      BY <1>7 DEF StopAudio
    <3>2. QED
      BY <1>7, <3>1 DEF StopAudio
  <2>2. \/ "audio" \in started /\ thread["receiver"] # "none"
                             /\ mpc' = <<"join", "receiver">>
        \/ "audio" \in started /\ thread["receiver"] = "none"
                             /\ mpc' = <<"free", "socket">>
        \/ "audio" \notin started /\ mpc' = <<"stop", "heartbeat">>
    BY <1>7 DEF StopAudio
  <2>3. QED
    BY <1>7, <2>1, <2>2
<1>8. ASSUME LifeInv, NEW t \in Threads, Join(t) PROVE LifeInv'
  <2>1. /\ mpc = <<"join", t>> /\ mpc' = AfterJoin(t) /\ thread[t] = "ended"
        /\ thread' \in [Threads -> {"none", "alive", "ended", "joined"}]
        /\ thread'[t] = "joined"
        /\ \A u \in Threads \ {t} : thread'[u] = thread[u]
        /\ UNCHANGED <<broken, s_running, bpc, flag, started, chans, up, outbound, audio>>
    BY <1>8 DEF Join
  <2>2. LifeTypes' /\ BootInv'
    BY <1>8, <2>1
  <2>3. CASE t = "bootstrap"
    <3>1. mpc = <<"join", "bootstrap">> /\ mpc' = <<"stop", "voice">>
      BY <2>1, <2>3 DEF AfterJoin, OnSkip
    <3>2. PlaceInv' /\ StopInv' /\ GivenInv'
      BY <1>8, <2>1, <2>3, <3>1
    <3>3. QED
      BY <2>2, <3>2
  <2>4. CASE t = "voice"
    <3>1. mpc = <<"join", "voice">> /\ mpc' = <<"free", "pcm">>
      BY <2>1, <2>4 DEF AfterJoin, OnSkip
    <3>2. PlaceInv' /\ StopInv' /\ GivenInv'
      BY <1>8, <2>1, <2>4, <3>1
    <3>3. QED
      BY <2>2, <3>2
  <2>5. CASE t = "button"
    <3>1. mpc = <<"join", "button">> /\ mpc' = <<"join", "voice">>
      BY <2>1, <2>5 DEF AfterJoin, OnSkip
    <3>2. PlaceInv' /\ StopInv' /\ GivenInv'
      BY <1>8, <2>1, <2>5, <3>1
    <3>3. QED
      BY <2>2, <3>2
  <2>6. CASE t = "feishu"
    <3>1. mpc = <<"join", "feishu">> /\ mpc' = <<"stop", "cli">>
      BY <2>1, <2>6 DEF AfterJoin, OnSkip
    <3>2. PlaceInv' /\ StopInv' /\ GivenInv'
      BY <1>8, <2>1, <2>6, <3>1
    <3>3. QED
      BY <2>2, <3>2
  <2>7. CASE t = "cli"
    <3>1. mpc = <<"join", "cli">> /\ mpc' = <<"stop", "receiver">>
      BY <2>1, <2>7 DEF AfterJoin, OnSkip
    <3>2. PlaceInv' /\ StopInv' /\ GivenInv'
      BY <1>8, <2>1, <2>7, <3>1
    <3>3. QED
      BY <2>2, <3>2
  <2>8. CASE t = "receiver"
    <3>1. mpc = <<"join", "receiver">> /\ mpc' = <<"free", "socket">>
      BY <2>1, <2>8 DEF AfterJoin, OnSkip
    <3>2. PlaceInv' /\ StopInv' /\ GivenInv'
      BY <1>8, <2>1, <2>8, <3>1
    <3>3. QED
      BY <2>2, <3>2
  <2>9. CASE t = "heartbeat"
    <3>1. mpc = <<"join", "heartbeat">> /\ mpc' = <<"stop", "cron">>
      BY <2>1, <2>9 DEF AfterJoin, OnSkip
    <3>2. PlaceInv' /\ StopInv' /\ GivenInv'
      BY <1>8, <2>1, <2>9, <3>1
    <3>3. QED
      BY <2>2, <3>2
  <2>10. CASE t = "cron"
    <3>1. mpc = <<"join", "cron">> /\ mpc' = <<"stop", "agent">>
      BY <2>1, <2>10 DEF AfterJoin, OnSkip
    <3>2. PlaceInv' /\ StopInv' /\ GivenInv'
      BY <1>8, <2>1, <2>10, <3>1
    <3>3. QED
      BY <2>2, <3>2
  <2>11. CASE t = "agent"
    <3>1. mpc = <<"join", "agent">> /\ mpc' = <<"free", "http">>
      BY <2>1, <2>11 DEF AfterJoin, OnSkip
    <3>2. PlaceInv' /\ StopInv' /\ GivenInv'
      BY <1>8, <2>1, <2>11, <3>1
    <3>3. QED
      BY <2>2, <3>2
  <2>12. QED
    BY <2>3, <2>4, <2>5, <2>6, <2>7, <2>8, <2>9, <2>10, <2>11
<1>9. ASSUME LifeInv, NEW t \in Threads, JoinNobody(t) PROVE LifeInv'
  BY <1>9 DEF JoinNobody, AfterJoin, OnSkip
<1>10. ASSUME LifeInv, FreeBuffer PROVE LifeInv'
  BY <1>10 DEF FreeBuffer, Resources
<1>11. ASSUME LifeInv, CloseAudio PROVE LifeInv'
  BY <1>11 DEF CloseAudio, Resources
<1>12. ASSUME LifeInv, HttpCleanup PROVE LifeInv'
  BY <1>12 DEF HttpCleanup, Resources
<1>13. ASSUME LifeInv, BusDestroy PROVE LifeInv'
  BY <1>13 DEF BusDestroy, Resources
<1>14. QED
  BY <1>1, <1>2, <1>3, <1>4, <1>5, <1>6, <1>7, <1>8, <1>9, <1>10, <1>11, <1>12, <1>13
     DEF Shutdown

\* Wherever main and the threads are, this holds of them: the invariant behind the two
\* theorems below (main.c:94-128 and 212-233 with the stop functions they call).
THEOREM LifecycleInvariant == Spec => []LifeInv
<1>1. Init => LifeInv
  BY InitLifeInv
<1>2. LifeInv /\ [Next]_vars => LifeInv'
  <2>1. LifeInv /\ Next => LifeInv'
    BY BootKeeps, ThreadsKeep, ShutdownKeeps DEF Next
  <2>2. LifeInv /\ UNCHANGED vars => LifeInv'
    BY DEF vars, mains, world, audio, LifeInv, LifeTypes, PlaceInv, BootInv, StopInv,
           GivenInv, Still, Alive
  <2>3. QED
    BY <2>1, <2>2
<1>3. QED
  BY <1>1, <1>2, PTL DEF Spec

\* UsesLive (Lifecycle.tla): whatever failed and whenever the signal comes, a thread that
\* lives has what it works with and a waiting reply has its channel registered.
THEOREM LifecycleUsesLive == Spec => []UsesLive
<1>1. LifeInv => UsesLive
  <2>1. SUFFICES ASSUME LifeInv PROVE UsesLive
    OBVIOUS
  <2>2. ASSUME NEW t \in Threads, Alive(t)
        PROVE  Uses(t) \subseteq up \cup (IF "detector" \in broken THEN {"pcm"} ELSE {})
    <3>1. t \in {"feishu", "agent", "voice", "cli", "cron"} => "bus" \in up
      BY <2>1, <2>2 DEF LifeInv, PlaceInv, GivenInv, Still, Alive, Exited, AfterBoot,
         AfterButton, AfterVoice, AfterPcm, AfterFeishu, AfterCli, AfterReceiver,
         AfterSocket, AfterHeartbeat, AfterCron, AfterAgent, AfterHttp
    <3>2. t \in {"feishu", "agent", "voice"} => bpc > 1 /\ mpc \notin AfterHttp
      BY <2>1, <2>2 DEF LifeInv, PlaceInv, BootInv, Still, Alive,
         AfterVoice, AfterPcm, AfterFeishu, AfterCli, AfterReceiver,
         AfterSocket, AfterHeartbeat, AfterCron, AfterAgent, AfterHttp
    <3>3. t \in {"feishu", "agent", "voice"} => "http" \in up
      BY <2>1, <3>2 DEF LifeInv, GivenInv
    <3>4. /\ t = "voice" => "pcm" \in up \/ "detector" \in broken
          /\ t = "receiver" => "socket" \in up
      BY <2>1, <2>2 DEF LifeInv, GivenInv
    <3>5. QED
      BY <3>1, <3>3, <3>4 DEF Uses
  <2>3. ASSUME outbound # NoOne PROVE \E i \in DOMAIN chans : chans[i] = outbound
    BY <2>1, <2>3 DEF LifeInv, GivenInv, BootInv, Channels
  <2>4. QED
    BY <2>2, <2>3 DEF UsesLive
<1>2. QED
  BY <1>1, LifecycleInvariant, PTL

\* NothingLeft (Lifecycle.tla): when main returns it has joined what it created and given
\* back what it took; only an audio process it could not reach is left.
THEOREM LifecycleNothingLeft == Spec => []NothingLeft
<1>1. LifeInv => NothingLeft
  <2>1. SUFFICES ASSUME LifeInv, mpc = Exited
                 PROVE  /\ \A t \in Threads : Still(t)
                        /\ up = {} /\ ~s_connected
                        /\ child = "running" => "connect" \in broken
    BY DEF NothingLeft, Still
  <2>2. /\ mpc \in AfterBoot /\ mpc \in AfterButton /\ mpc \in AfterVoice
        /\ mpc \in AfterPcm /\ mpc \in AfterFeishu /\ mpc \in AfterCli
        /\ mpc \in AfterReceiver /\ mpc \in AfterSocket /\ mpc \in AfterHeartbeat
        /\ mpc \in AfterCron /\ mpc \in AfterAgent /\ mpc \in AfterHttp
    BY <2>1 DEF AfterBoot, AfterButton, AfterVoice, AfterPcm, AfterFeishu, AfterCli,
       AfterReceiver, AfterSocket, AfterHeartbeat, AfterCron, AfterAgent, AfterHttp
  <2>3. \A t \in Threads : Still(t)
    BY <2>1, <2>2 DEF LifeInv, PlaceInv, Threads, Workers, Channels, Services
  <2>4. up = {} /\ ~s_connected /\ (child = "running" => "connect" \in broken)
    BY <2>1, <2>2 DEF LifeInv, GivenInv, Resources
  <2>5. QED
    BY <2>3, <2>4
<1>2. QED
  BY <1>1, LifecycleInvariant, PTL

------------------------------------------------------------------------------
\* The rest of the types.
NamesOK ==
    /\ broken \subseteq Faults
    /\ started \subseteq Services \cup {"channels", "audio"}
    /\ chans \in {<<>>, <<"cli", "feishu", "voice">>}
    /\ child \in {"none", "running", "dead", "reaped"}

FlagsOK == s_running \in BOOLEAN /\ shut \in BOOLEAN /\ s_connected \in BOOLEAN

LEMMA NextNames == NamesOK /\ [Next]_vars => NamesOK'
<1> SUFFICES ASSUME NamesOK, [Next]_vars PROVE NamesOK'
  OBVIOUS
<1> USE DEF NamesOK, Advance, mains, audio, world
<1>1. CASE Boot
  BY <1>1 DEF Boot, BootHttp, BootRegister, BootInitAll, BootService, BootAudio,
              BootCli, BootFeishu, BootVoice, BootEnds
<1>2. CASE Shutdown
  BY <1>2 DEF Shutdown, LeaveLoop, Stop, StopAudio, Join, JoinNobody, FreeBuffer,
              CloseAudio, HttpCleanup, BusDestroy
<1>3. CASE Signal \/ Dispatch \/ Held \/ AudioDies \/ SendFails \/ BufferMissing
  BY <1>3 DEF Signal, Dispatch, Held, AudioDies, SendFails, BufferMissing
<1>4. CASE (\E t \in Workers : ThreadEnds(t)) \/ \E c \in Channels : AgentReplies(c)
  BY <1>4 DEF ThreadEnds, AgentReplies
<1>5. CASE UNCHANGED vars
  BY <1>5 DEF vars
<1>6. QED
  BY <1>1, <1>2, <1>3, <1>4, <1>5 DEF Next

LEMMA NextFlags == FlagsOK /\ [Next]_vars => FlagsOK'
<1> SUFFICES ASSUME FlagsOK, [Next]_vars PROVE FlagsOK'
  OBVIOUS
<1> USE DEF FlagsOK, Advance, mains, audio, world
<1>1. CASE BootHttp \/ BootRegister \/ BootInitAll \/ \E s \in Services : BootService(s)
  BY <1>1 DEF BootHttp, BootRegister, BootInitAll, BootService
<1>2. CASE BootAudio
  BY <1>2 DEF BootAudio
<1>3. CASE BootCli \/ BootFeishu \/ BootVoice \/ BootEnds
  BY <1>3 DEF BootCli, BootFeishu, BootVoice, BootEnds
<1>4. CASE LeaveLoop \/ \E t \in Workers \ {"receiver"} : Stop(t)
  BY <1>4 DEF LeaveLoop, Stop
<1>5. CASE StopAudio
  BY <1>5 DEF StopAudio
<1>6. CASE \E t \in Threads : Join(t) \/ JoinNobody(t)
  BY <1>6 DEF Join, JoinNobody
<1>7. CASE FreeBuffer \/ CloseAudio \/ HttpCleanup \/ BusDestroy
  BY <1>7 DEF FreeBuffer, CloseAudio, HttpCleanup, BusDestroy
<1>8. CASE Signal \/ Dispatch \/ Held \/ AudioDies
  <2>1. /\ s_running' \in {s_running, FALSE} /\ shut' = shut
        /\ s_connected' \in {s_connected, FALSE}
    BY <1>8 DEF Signal, Dispatch, Held, AudioDies
  <2>2. QED
    BY <2>1
<1>9. CASE SendFails \/ BufferMissing
  BY <1>9 DEF SendFails, BufferMissing
<1>10. CASE \E t \in Workers : ThreadEnds(t)
  BY <1>10 DEF ThreadEnds
<1>11. CASE \E c \in Channels : AgentReplies(c)
  BY <1>11 DEF AgentReplies
<1>12. CASE UNCHANGED vars
  BY <1>12 DEF vars
<1>13. QED
  BY <1>1, <1>2, <1>3, <1>4, <1>5, <1>6, <1>7, <1>8, <1>9, <1>10, <1>11, <1>12
  DEF Next, Boot, Shutdown

WaitsOK == locked \in BOOLEAN /\ heldBy \in {"nobody", "audio", "speech", "tool", "bus"}

LEMMA NextWaits == WaitsOK /\ [Next]_vars => WaitsOK'
<1> SUFFICES ASSUME WaitsOK, [Next]_vars PROVE WaitsOK'
  OBVIOUS
<1>1. CASE UNCHANGED waits
  BY <1>1 DEF waits, WaitsOK
<1>2. ASSUME NEW t \in Workers, ThreadEnds(t) PROVE WaitsOK'
  <2>1. locked' \in BOOLEAN /\ heldBy' = heldBy
    BY <1>2 DEF ThreadEnds, WaitsOK
  <2>2. QED
    BY <2>1 DEF WaitsOK
<1>3. CASE Held
  BY <1>3 DEF Held, StandsIn, WaitsOK
<1>4. CASE AudioDies
  BY <1>4 DEF AudioDies, WaitsOK
<1>5. QED
  BY <1>1, <1>2, <1>3, <1>4 DEF Next, Boot, Shutdown, vars, waits

\* Wherever the bootstrap fails and the signal comes: the types, of main's place on its
\* way up and down and of each service's thread (main.c).
THEOREM LifecycleTypeCorrect == Spec => []TypeOK
<1>1. Init => NamesOK
  BY DEF Init, NamesOK
<1>2. Init => FlagsOK
  BY DEF Init, FlagsOK, Created
<1>3. PlaceInv => mpc \in {"loop", "stop", "join", "free", "exited", "crashed"} \X
                            (Threads \cup Resources \cup {"main"})
  BY DEF PlaceInv, Up, AfterBoot, AfterButton, AfterVoice, AfterPcm, AfterFeishu,
         AfterCli, AfterReceiver, AfterSocket, AfterHeartbeat, AfterCron, AfterAgent,
         AfterHttp, Exited, Crashed, Threads, Workers, Channels, Services, Resources
<1>4. 1 .. 11 = 1 .. Len(BootOrder)
  BY DEF BootOrder
<1>5. LifeInv /\ NamesOK /\ FlagsOK /\ WaitsOK => TypeOK
  BY <1>3, <1>4 DEF LifeInv, LifeTypes, BootInv, GivenInv, NamesOK, FlagsOK, WaitsOK, TypeOK
<1>6. Init => WaitsOK
  BY DEF Init, WaitsOK
<1>7. QED
  BY <1>1, <1>2, <1>5, <1>6, NextNames, NextFlags, NextWaits, LifecycleInvariant, PTL DEF Spec
==============================================================================
