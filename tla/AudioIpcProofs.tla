---------------------------- MODULE AudioIpcProofs ----------------------------
(* Theorems about AudioIpc, for any size of the ring and of the socket's buffers  *)
(* and for every workload: the microphone and the loudspeaker take turns, sound   *)
(* stays in order in both directions, a PLAY_DONE ends the wait it was sent for,  *)
(* and what the losses found by the runs rest on.                                 *)
EXTENDS AudioIpc, TLAPS

------------------------------------------------------------------------------
\* The turn a command is sent in, and the one it leads to.
Before(type) == IF type \in {"RECORD_START", "PLAY_START"} THEN "quiet"
                ELSE IF type = "RECORD_STOP" THEN "record" ELSE "play"
After(type) == IF type = "RECORD_START" THEN "record"
               ELSE IF type \in {"PLAY_START", "PLAY_DATA"} THEN "play" ELSE "quiet"

\* The turn the voice thread is in, and the one the server's main thread is in.
Client == IF cpc = "recording" THEN "record" ELSE IF cpc = "play" THEN "play" ELSE "quiet"
Server == IF kRunning THEN "record"
          ELSE IF pRunning /\ spc \in {"read", "write"} THEN "play" ELSE "quiet"

\* The commands on their way lead from the server's turn to the client's, each from
\* where the one before it ends.  A voice thread that has ended sends no more.
TurnAfter(n) == IF n = 0 THEN Server ELSE After(c2s[n].type)
TurnBefore(n) == IF n > Len(c2s) THEN Client ELSE Before(c2s[n].type)

TurnsInv ==
    /\ \E S : c2s \in Seq(S)
    /\ spc # "dead" => \A n \in 0 .. Len(c2s) :
          TurnAfter(n) = TurnBefore(n + 1) \/ (n = Len(c2s) /\ cpc = "exit")

\* The server's two threads live only in their turn or while they are waited for.
ThreadsInv ==
    /\ kpc = "none" \/ kRunning \/ spc = "joinCapture"
    /\ ppc = "none" \/ pRunning \/ spc \in {"joinDrain", "joinFlush"}
    /\ kActive => kpc \in {"loop", "frame"} \/ spc = "dead"
    /\ pActive => ppc \in {"loop", "empty", "play", "closing"} \/ spc = "dead"
    /\ spc = "joinCapture" => ~kRunning /\ ~pRunning /\ ppc = "none"
    /\ spc \in {"joinDrain", "joinFlush"} => ~kRunning /\ kpc = "none"
    /\ spc = "write" => pRunning /\ ~kRunning
    /\ kRunning => ~pRunning
    /\ spc = "dead" => kpc = "none" /\ ppc = "none"

DuplexInv == TurnsInv /\ ThreadsInv

LEMMA InitDuplex == Init => DuplexInv
<1> SUFFICES ASSUME Init PROVE DuplexInv
  OBVIOUS
<1>1. c2s = <<>> /\ c2s \in Seq({}) /\ Len(c2s) = 0
  BY DEF Init
<1>2. Server = "quiet" /\ Client = "quiet"
  BY DEF Init, Server, Client
<1>3. TurnsInv
  BY <1>1, <1>2 DEF TurnsInv, TurnAfter, TurnBefore
<1>4. ThreadsInv
  BY DEF Init, ThreadsInv
<1>5. QED
  BY <1>3, <1>4 DEF DuplexInv

\* The voice thread sends a command in its turn.
LEMMA SendKeepsTurns ==
    ASSUME TurnsInv, NEW type, NEW arg, Send(type, arg), Client = Before(type),
           Client' = After(type), cpc # "exit", UNCHANGED <<spc, kRunning, pRunning>>
    PROVE  TurnsInv'
<1> DEFINE c == [type |-> type, arg |-> arg]
<1>1. c2s' = Append(c2s, c) /\ c.type = type /\ spc # "dead"
  BY DEF Send
<1> HIDE DEF c
<1>2. PICK S : c2s \in Seq(S)
  BY DEF TurnsInv
<1>3. /\ c2s' \in Seq(S \cup {c})
      /\ Len(c2s) \in Nat /\ Len(c2s') = Len(c2s) + 1
      /\ c2s'[Len(c2s) + 1] = c
      /\ \A n \in 1 .. Len(c2s) : c2s'[n] = c2s[n]
  BY <1>1, <1>2
<1>4. Server' = Server
  BY DEF Server
<1>5. \A n \in 0 .. Len(c2s) : TurnAfter(n)' = TurnAfter(n)
  BY <1>3, <1>4 DEF TurnAfter
<1>6. \A n \in 0 .. Len(c2s) : TurnBefore(n + 1)' = TurnBefore(n + 1)
  <2> SUFFICES ASSUME NEW n \in 0 .. Len(c2s)
               PROVE  TurnBefore(n + 1)' = TurnBefore(n + 1)
    OBVIOUS
  <2>1. CASE n = Len(c2s)
    BY <1>1, <1>3, <2>1 DEF TurnBefore
  <2>2. CASE n < Len(c2s)
    BY <1>3, <2>2 DEF TurnBefore
  <2>3. QED
    BY <1>3, <2>1, <2>2
<1>7. PICK last \in Nat : last = Len(c2s)
  BY <1>3
<1>8. TurnAfter(last + 1)' = TurnBefore(last + 2)'
  BY <1>1, <1>3, <1>7 DEF TurnAfter, TurnBefore
<1>9. ASSUME NEW n \in 0 .. Len(c2s') PROVE TurnAfter(n)' = TurnBefore(n + 1)'
  <2>1. CASE n = last + 1
    BY <1>8, <2>1
  <2>2. CASE n \in 0 .. last
    <3>1. TurnAfter(n) = TurnBefore(n + 1)
      BY <1>1, <1>7, <2>2 DEF TurnsInv
    <3>2. QED
      BY <1>5, <1>6, <1>7, <2>2, <3>1
  <2>3. QED
    BY <1>3, <1>7, <2>1, <2>2
<1>10. QED
  BY <1>3, <1>9 DEF TurnsInv

\* The server takes a command, which finds it in that command's turn.
LEMMA TakeFindsTurn ==
    ASSUME TurnsInv, spc = "read", c2s # <<>>
    PROVE  Server = Before(Head(c2s).type)
<1>1. PICK S : c2s \in Seq(S)
  BY DEF TurnsInv
<1>2. Len(c2s) \in Nat \ {0} /\ Head(c2s) = c2s[1]
  BY <1>1
<1>3. TurnAfter(0) = TurnBefore(1)
  BY <1>2 DEF TurnsInv
<1>4. QED
  BY <1>2, <1>3 DEF TurnAfter, TurnBefore

LEMMA TakeKeepsTurns ==
    ASSUME TurnsInv, spc # "dead", c2s # <<>>, c2s' = Tail(c2s), cpc' = cpc,
           Server' = After(Head(c2s).type)
    PROVE  TurnsInv'
<1>1. PICK S : c2s \in Seq(S)
  BY DEF TurnsInv
<1>2. /\ c2s' \in Seq(S) /\ Head(c2s) = c2s[1]
      /\ Len(c2s) \in Nat \ {0} /\ Len(c2s') = Len(c2s) - 1 /\ Len(c2s') \in Nat
      /\ \A n \in 1 .. Len(c2s) - 1 : c2s'[n] = c2s[n + 1]
  BY <1>1
<1>3. Client' = Client
  BY DEF Client
<1>4. PICK last \in Nat : last = Len(c2s')
  BY <1>2
<1>5. Len(c2s) = last + 1 /\ Len(c2s') = last
  BY <1>2, <1>4
<1>6. \A n \in 0 .. last : TurnAfter(n)' = TurnAfter(n + 1)
  <2> SUFFICES ASSUME NEW n \in 0 .. last PROVE TurnAfter(n)' = TurnAfter(n + 1)
    OBVIOUS
  <2>1. CASE n = 0
    BY <1>2, <2>1 DEF TurnAfter
  <2>2. CASE n > 0
    BY <1>2, <1>5, <2>2 DEF TurnAfter
  <2>3. QED
    BY <2>1, <2>2
<1>7. \A n \in 0 .. last : TurnBefore(n + 1)' = TurnBefore(n + 2)
  <2> SUFFICES ASSUME NEW n \in 0 .. last PROVE TurnBefore(n + 1)' = TurnBefore(n + 2)
    OBVIOUS
  <2>1. CASE n = last
    BY <1>3, <1>5, <2>1 DEF TurnBefore
  <2>2. CASE n < last
    BY <1>2, <1>5, <2>2 DEF TurnBefore
  <2>3. QED
    BY <2>1, <2>2
<1>8. \A n \in 0 .. last :
        TurnAfter(n + 1) = TurnBefore(n + 2) \/ (n = last /\ cpc = "exit")
  <2> SUFFICES ASSUME NEW n \in 0 .. last
               PROVE  TurnAfter(n + 1) = TurnBefore(n + 2) \/ (n = last /\ cpc = "exit")
    OBVIOUS
  <2>1. n + 1 \in 0 .. Len(c2s) /\ (n + 1) + 1 = n + 2
    BY <1>5
  <2>2. \/ TurnAfter(n + 1) = TurnBefore((n + 1) + 1)
        \/ n + 1 = Len(c2s) /\ cpc = "exit"
    BY <2>1 DEF TurnsInv
  <2>3. QED
    BY <1>5, <2>1, <2>2
<1>9. QED
  BY <1>2, <1>5, <1>6, <1>7, <1>8 DEF TurnsInv

\* Nothing is sent or taken, and nobody's turn ends.
LEMMA OthersKeepTurns ==
    ASSUME TurnsInv, c2s' = c2s, Server' = Server \/ spc' = "dead",
           Client' = Client \/ cpc' = "exit", cpc = "exit" => cpc' = "exit",
           spc = "dead" => spc' = "dead"
    PROVE  TurnsInv'
<1>1. PICK S : c2s \in Seq(S)
  BY DEF TurnsInv
<1>2. Len(c2s) \in Nat
  BY <1>1
<1>3. ASSUME spc' # "dead", NEW n \in 0 .. Len(c2s)
      PROVE  TurnAfter(n)' = TurnBefore(n + 1)' \/ (n = Len(c2s) /\ cpc' = "exit")
  <2>1. TurnAfter(n) = TurnBefore(n + 1) \/ (n = Len(c2s) /\ cpc = "exit")
    BY <1>3 DEF TurnsInv
  <2>2. TurnAfter(n)' = TurnAfter(n)
    BY <1>2, <1>3 DEF TurnAfter
  <2>3. TurnBefore(n + 1)' = TurnBefore(n + 1) \/ (n = Len(c2s) /\ cpc' = "exit")
    BY <1>2 DEF TurnBefore
  <2>4. QED
    BY <2>1, <2>2, <2>3
<1>4. QED
  BY <1>1, <1>3 DEF TurnsInv

------------------------------------------------------------------------------
LEMMA VoiceKeeps ==
    ASSUME DuplexInv, RecordStart \/ RecordStop \/ PlayStep PROVE DuplexInv'
<1> USE DEF DuplexInv
<1>1. ASSUME RecordStart \/ RecordStop \/ PlayStart \/ PlayPcm \/ PlayEnd
      PROVE  /\ \E type, arg : /\ Send(type, arg) /\ Client = Before(type)
                              /\ Client' = After(type)
             /\ cpc # "exit" /\ UNCHANGED process
  <2> USE DEF Client, Before, After
  <2>1. CASE RecordStart
    BY <2>1 DEF RecordStart
  <2>2. CASE RecordStop
    BY <2>2 DEF RecordStop
  <2>3. CASE PlayStart
    BY <2>3 DEF PlayStart
  <2>4. CASE PlayPcm
    BY <2>4 DEF PlayPcm
  <2>5. CASE PlayEnd
    BY <2>5 DEF PlayEnd
  <2>6. QED
    BY <1>1, <2>1, <2>2, <2>3, <2>4, <2>5
<1>2. ASSUME AckSleep \/ AckReturn \/ AckTimeout \/ VoiceEnds
      PROVE  /\ c2s' = c2s /\ UNCHANGED process
             /\ Client' = Client \/ cpc' = "exit"
             /\ cpc # "exit"
  BY <1>2 DEF AckSleep, AckReturn, AckTimeout, VoiceEnds, Played, Client
<1>3. ASSUME UNCHANGED process PROVE ThreadsInv' /\ Server' = Server /\ spc' = spc
  BY <1>3 DEF process, server, capture, playback, ThreadsInv, Server
<1>4. ASSUME RecordStart \/ RecordStop \/ PlayStart \/ PlayPcm \/ PlayEnd
      PROVE  DuplexInv'
  <2>1. PICK type, arg : Send(type, arg) /\ Client = Before(type) /\ Client' = After(type)
    BY <1>1, <1>4
  <2>2. cpc # "exit" /\ UNCHANGED <<spc, kRunning, pRunning>>
    BY <1>1, <1>4 DEF process, server, capture, playback
  <2>3. TurnsInv'
    BY <2>1, <2>2, SendKeepsTurns
  <2>4. QED
    BY <1>1, <1>3, <1>4, <2>3
<1>5. ASSUME AckSleep \/ AckReturn \/ AckTimeout \/ VoiceEnds PROVE DuplexInv'
  BY <1>2, <1>3, <1>5, OthersKeepTurns
<1>6. QED
  BY <1>4, <1>5 DEF PlayStep

LEMMA ReceiverKeeps == ASSUME DuplexInv, ReceiverStep PROVE DuplexInv'
<1>1. /\ UNCHANGED <<c2s, process>>
      /\ (cpc = "exit" <=> cpc' = "exit") /\ Client' = Client
  BY DEF ReceiverStep, ReceiveData, CallbackReturns, ReceiveDone, ReceiveEof, voice, Client
<1>2. ThreadsInv' /\ Server' = Server /\ spc' = spc
  BY <1>1 DEF DuplexInv, process, server, capture, playback, ThreadsInv, Server
<1>3. QED
  BY <1>1, <1>2, OthersKeepTurns DEF DuplexInv

\* The server's main thread.
LEMMA ServerKeeps == ASSUME DuplexInv, ServerStep PROVE DuplexInv'
<1> USE DEF DuplexInv, voice, server, playback, capture
<1>1. ASSUME OnRecordStart PROVE DuplexInv'
  <2>1. /\ spc = "read" /\ c2s # <<>> /\ c2s' = Tail(c2s) /\ cpc' = cpc
        /\ Head(c2s).type = "RECORD_START"
    BY <1>1 DEF OnRecordStart, Command
  <2>2. Server = Before("RECORD_START")
    BY <2>1, TakeFindsTurn
  <2>3. ThreadsInv' /\ Server' = After("RECORD_START")
    BY <1>1, <2>1, <2>2 DEF OnRecordStart, ThreadsInv, Server, Before, After, ringVars
  <2>4. QED
    BY <2>1, <2>3, TakeKeepsTurns
<1>2. ASSUME OnRecordStop PROVE DuplexInv'
  <2>1. /\ spc = "read" /\ c2s # <<>> /\ c2s' = Tail(c2s) /\ cpc' = cpc
        /\ Head(c2s).type = "RECORD_STOP"
    BY <1>2 DEF OnRecordStop, Command
  <2>2. Server = Before("RECORD_STOP")
    BY <2>1, TakeFindsTurn
  <2>3. ThreadsInv' /\ Server' = After("RECORD_STOP")
    BY <1>2, <2>1, <2>2 DEF OnRecordStop, ThreadsInv, Server, Before, After, ringVars
  <2>4. QED
    BY <2>1, <2>3, TakeKeepsTurns
<1>3. ASSUME OnPlayStart PROVE DuplexInv'
  <2>1. /\ spc = "read" /\ c2s # <<>> /\ c2s' = Tail(c2s) /\ cpc' = cpc
        /\ Head(c2s).type = "PLAY_START"
    BY <1>3 DEF OnPlayStart, Command
  <2>2. Server = Before("PLAY_START")
    BY <2>1, TakeFindsTurn
  <2>3. ThreadsInv' /\ Server' = After("PLAY_START")
    BY <1>3, <2>1, <2>2 DEF OnPlayStart, ThreadsInv, Server, Before, After, ringVars
  <2>4. QED
    BY <2>1, <2>3, TakeKeepsTurns
<1>4. ASSUME OnPlayData PROVE DuplexInv'
  <2>1. /\ spc = "read" /\ c2s # <<>> /\ c2s' = Tail(c2s) /\ cpc' = cpc
        /\ Head(c2s).type = "PLAY_DATA"
    BY <1>4 DEF OnPlayData, Command
  <2>2. Server = Before("PLAY_DATA")
    BY <2>1, TakeFindsTurn
  <2>3. ThreadsInv' /\ Server' = After("PLAY_DATA")
    BY <1>4, <2>1, <2>2 DEF OnPlayData, ThreadsInv, Server, Before, After, ringVars
  <2>4. QED
    BY <2>1, <2>3, TakeKeepsTurns
<1>5. ASSUME OnPlayStop PROVE DuplexInv'
  <2>1. /\ spc = "read" /\ c2s # <<>> /\ c2s' = Tail(c2s) /\ cpc' = cpc
        /\ Head(c2s).type = "PLAY_STOP"
    BY <1>5 DEF OnPlayStop, Command
  <2>2. Server = Before("PLAY_STOP")
    BY <2>1, TakeFindsTurn
  <2>3. ThreadsInv' /\ Server' = After("PLAY_STOP")
    BY <1>5, <2>1, <2>2 DEF OnPlayStop, ThreadsInv, Server, Before, After, ringVars
  <2>4. QED
    BY <2>1, <2>3, TakeKeepsTurns
<1>6. ASSUME OnPlayFlush PROVE DuplexInv'
  <2>1. /\ spc = "read" /\ c2s # <<>> /\ c2s' = Tail(c2s) /\ cpc' = cpc
        /\ Head(c2s).type = "PLAY_FLUSH"
    BY <1>6 DEF OnPlayFlush, Command
  <2>2. Server = Before("PLAY_FLUSH")
    BY <2>1, TakeFindsTurn
  <2>3. ThreadsInv' /\ Server' = After("PLAY_FLUSH")
    BY <1>6, <2>1, <2>2 DEF OnPlayFlush, ThreadsInv, Server, Before, After, ringVars
  <2>4. QED
    BY <2>1, <2>3, TakeKeepsTurns
<1>7. ASSUME CaptureJoined \/ RingWrite \/ PlaybackJoined PROVE DuplexInv'
  <2>1. UNCHANGED <<c2s, cpc>> /\ Client' = Client /\ spc # "dead"
    BY <1>7 DEF CaptureJoined, RingWrite, PlaybackJoined, Client
  <2>2. ThreadsInv' /\ Server' = Server
    <3>1. CASE CaptureJoined
      BY <3>1 DEF CaptureJoined, ThreadsInv, Server
    <3>2. CASE RingWrite
      BY <3>2 DEF RingWrite, ThreadsInv, Server
    <3>3. CASE PlaybackJoined
      BY <3>3 DEF PlaybackJoined, ThreadsInv, Server
    <3>4. QED
      BY <1>7, <3>1, <3>2, <3>3
  <2>3. QED
    BY <2>1, <2>2, OthersKeepTurns
<1>8. QED
  BY <1>1, <1>2, <1>3, <1>4, <1>5, <1>6, <1>7 DEF ServerStep

\* Its two other threads, and its death.
LEMMA ThreadsKeep ==
    ASSUME DuplexInv, CaptureStep \/ PlaybackStep \/ Crash PROVE DuplexInv'
<1> USE DEF voice, server, playback, capture
<1>1. ASSUME CaptureStep \/ PlaybackStep PROVE DuplexInv'
  <2>1. UNCHANGED <<c2s, cpc, spc>> /\ Client' = Client /\ Server' = Server
    BY <1>1 DEF CaptureStep, PlaybackStep, CaptureOpens, CaptureFrame, CaptureEnds,
       PlaybackOpens, RingRead, PlayChunk, NothingToPlay, PlaybackEnds, Client, Server
  <2>2. ThreadsInv'
    <3>1. CASE CaptureStep
      BY <3>1 DEF CaptureStep, CaptureOpens, CaptureFrame, CaptureEnds, DuplexInv, ThreadsInv
    <3>2. CASE PlaybackStep
      BY <3>2 DEF PlaybackStep, PlaybackOpens, RingRead, PlayChunk, NothingToPlay,
                  PlaybackEnds, DuplexInv, ThreadsInv
    <3>3. QED
      BY <1>1, <3>1, <3>2
  <2>3. QED
    BY <2>1, <2>2, OthersKeepTurns DEF DuplexInv
<1>2. ASSUME Crash PROVE DuplexInv'
  <2>1. c2s' = <<>> /\ c2s' \in Seq({}) /\ spc' = "dead"
    BY <1>2 DEF Crash
  <2>2. TurnsInv'
    BY <2>1 DEF TurnsInv
  <2>3. ThreadsInv'
    BY <1>2 DEF Crash, DuplexInv, ThreadsInv
  <2>4. QED
    BY <2>2, <2>3 DEF DuplexInv
<1>3. QED
  BY <1>1, <1>2

LEMMA RestKeeps == ASSUME DuplexInv, UNCHANGED vars PROVE DuplexInv'
<1>1. UNCHANGED <<c2s, cpc, spc>> /\ Client' = Client /\ Server' = Server /\ ThreadsInv'
  BY DEF vars, voice, process, server, capture, playback, Client, Server, DuplexInv, ThreadsInv
<1>2. QED
  BY <1>1, OthersKeepTurns DEF DuplexInv

\* HalfDuplex (AudioIpc.tla): the microphone and the loudspeaker are never open at the
\* same time, for any ring and socket sizes and whatever fails or times out: the command
\* that opens the one waits in the stream behind the one that closes the other, and the
\* server joins a thread before it reads on (audio_main.c, handle_command).
THEOREM AudioHalfDuplex == Spec => []HalfDuplex
<1>1. DuplexInv /\ [Next]_vars => DuplexInv'
  BY VoiceKeeps, ReceiverKeeps, ServerKeeps, ThreadsKeep, RestKeeps DEF Next, Rest
<1>2. DuplexInv => HalfDuplex
  BY DEF DuplexInv, ThreadsInv, HalfDuplex
<1>3. QED
  BY InitDuplex, <1>1, <1>2, PTL DEF Spec

------------------------------------------------------------------------------
\* The way of a chunk: how far ahead of the next read a slot is, what has left the
\* ring or is in it, and the place in the sound after the n-th command under way.
Slots == 0 .. RING - 1
Held == IF ppc = "play" THEN 1 ELSE 0
Ahead(s) == IF s >= rd THEN s - rd ELSE s - rd + RING
Kept == Len(heard) + Held + Ahead(wr)
Position(n) ==
    IF n = 0 THEN <<playing, IF spc = "write" THEN Kept + 1 ELSE Kept>>
    ELSE IF c2s[n].type = "PLAY_START" THEN <<c2s[n].arg, 0>> ELSE c2s[n].arg

SoundType ==
    /\ rd \in Slots /\ wr \in Slots
    /\ \E S : ring \in [Slots -> S]
    /\ \E S : heard \in Seq(S)

\* The device has been offered the beginning of the sound; the playback thread, the ring
\* and the server's main thread hold what comes next, in this order.
RingInv == spc # "dead" =>
    /\ ppc = "play" => hand = <<playing, Len(heard) + 1>>
    /\ \A s \in Slots : Ahead(s) < Ahead(wr) =>
         ring[s] = <<playing, Len(heard) + Held + Ahead(s) + 1>>
    /\ spc = "write" => chunk = <<playing, Kept + 1>>
    /\ flushing => spc = "joinFlush"

\* And so does the stream: each chunk under way is the one after the place before it, and
\* the voice thread goes on where the stream ends.
EndsPlay == {"PLAY_STOP", "PLAY_FLUSH"}
StreamInv == spc # "dead" =>
    /\ \A n \in 1 .. Len(c2s) :
         /\ c2s[n].type = "PLAY_DATA" =>
              c2s[n].arg = <<Position(n - 1)[1], Position(n - 1)[2] + 1>>
         /\ c2s[n].type \in EndsPlay => c2s[n].arg = Position(n - 1)[1]
    /\ cpc = "play" => Position(Len(c2s)) = <<plays, sent>>

DataInv == SoundType /\ HeardInOrder /\ RingInv

LEMMA InitSound == Init => DataInv /\ StreamInv
<1> SUFFICES ASSUME Init PROVE DataInv /\ StreamInv
  OBVIOUS
<1>1. /\ heard = <<>> /\ heard \in Seq({}) /\ Len(heard) = 0 /\ Len(c2s) = 0
      /\ rd = 0 /\ wr = 0 /\ ring \in [Slots -> {<<0, 0>>}] /\ 0 \in Slots
      /\ spc = "read" /\ ppc = "none" /\ cpc = "recordStart" /\ flushing = FALSE
  BY AudioAssumption DEF Init, Slots
<1>2. SoundType /\ HeardInOrder
  BY <1>1 DEF SoundType, HeardInOrder
<1>3. RingInv
  BY <1>1, AudioAssumption DEF RingInv, Ahead, Slots
<1>4. StreamInv
  BY <1>1 DEF StreamInv
<1>5. QED
  BY <1>2, <1>3, <1>4 DEF DataInv

\* Round the ring at most once, the remainder is a subtraction.
LEMMA WrapOnce ==
    ASSUME NEW a \in 0 .. (2 * RING - 1)
    PROVE  a % RING = IF a < RING THEN a ELSE a - RING
<1>1. RING \in Nat \ {0}
  BY AudioAssumption
<1>2. CASE a < RING
  BY <1>1, <1>2
<1>3. CASE a >= RING
  <2>1. PICK b \in 0 .. (RING - 1) : a = b + RING
    BY <1>1, <1>3
  <2>2. (b + RING) % RING = b
    BY <1>1
  <2>3. QED
    BY <1>1, <1>3, <2>1, <2>2
<1>4. QED
  BY <1>1, <1>2, <1>3

LEMMA RingFacts ==
    ASSUME SoundType
    PROVE  /\ Avail = Ahead(wr) /\ Free = RING - 1 - Ahead(wr)
           /\ \A s \in Slots : Ahead(s) \in Slots
           /\ \A s \in Slots : SlotAfter(s) = IF s + 1 = RING THEN 0 ELSE s + 1
           /\ Len(heard) \in Nat /\ RING \in Nat /\ RING > 1
<1>1. RING \in Nat \ {0} /\ RING > 1 /\ rd \in Slots /\ wr \in Slots
  BY AudioAssumption DEF SoundType
<1>2. wr - rd + RING \in 0 .. (2 * RING - 1)
  BY <1>1 DEF Slots
<1>3. Avail = Ahead(wr)
  <2>1. Avail = IF wr - rd + RING < RING THEN wr - rd + RING ELSE wr - rd + RING - RING
    <3> DEFINE a == wr - rd + RING
    <3>1. a \in 0 .. (2 * RING - 1)
      BY <1>2
    <3> HIDE DEF a
    <3>2. a % RING = IF a < RING THEN a ELSE a - RING
      BY <3>1, WrapOnce
    <3>3. QED
      BY <1>1, <3>2 DEF Avail, a, Slots
  <2>2. QED
    BY <1>1, <2>1 DEF Ahead, Slots
<1>4. ASSUME NEW s \in Slots
      PROVE  Ahead(s) \in Slots /\ SlotAfter(s) = IF s + 1 = RING THEN 0 ELSE s + 1
  <2>1. s + 1 \in 0 .. (2 * RING - 1)
    BY <1>1 DEF Slots
  <2>2. SlotAfter(s) = IF s + 1 < RING THEN s + 1 ELSE s + 1 - RING
    <3> DEFINE a == s + 1
    <3>1. a \in 0 .. (2 * RING - 1)
      BY <2>1
    <3> HIDE DEF a
    <3>2. a % RING = IF a < RING THEN a ELSE a - RING
      BY <3>1, WrapOnce
    <3>3. QED
      BY <1>1, <3>2 DEF SlotAfter, a, Slots
  <2>3. QED
    BY <1>1, <2>2 DEF Ahead, Slots
<1>5. Len(heard) \in Nat
  BY DEF SoundType
<1>6. QED
  BY <1>1, <1>3, <1>4, <1>5 DEF Free

------------------------------------------------------------------------------
\* What leaves the playback thread, the ring and the chunk in hand leaves the sound.
LEMMA OthersKeepData ==
    ASSUME DataInv, UNCHANGED <<chunk, playing, ring, rd, wr, ppc, hand, heard>>,
           spc = "dead" => spc' = "dead", spc' = "write" => spc = "write",
           flushing' => spc' \in {"joinFlush", "dead"}
    PROVE  DataInv' /\ ((spc' = "write" <=> spc = "write") => Position(0)' = Position(0))
<1>1. SoundType' /\ HeardInOrder'
  BY DEF DataInv, SoundType, HeardInOrder
<1>2. Kept' = Kept /\ \A s \in Slots : Ahead(s)' = Ahead(s)
  BY DEF Kept, Held, Ahead
<1>3. RingInv'
  BY <1>2 DEF DataInv, SoundType, RingInv, Held, Ahead, Kept
<1>4. QED
  BY <1>1, <1>2, <1>3 DEF DataInv, Position

\* A chunk goes into the slot behind all that are kept.
LEMMA WriteKeepsData ==
    ASSUME DataInv, RingWrite PROVE DataInv' /\ Position(0)' = Position(0)
<1>1. /\ spc = "write" /\ spc' = "read" /\ ~flushing /\ Free > 0
      /\ ring' = [ring EXCEPT ![wr] = chunk] /\ wr' = SlotAfter(wr)
      /\ UNCHANGED <<rd, flushing, playing, ppc, hand, heard>>
      /\ chunk = <<playing, Kept + 1>>
  BY DEF RingWrite, DataInv, RingInv, playback
<1>2. /\ rd \in Slots /\ wr \in Slots /\ Len(heard) \in Nat /\ RING \in Nat /\ RING > 1
      /\ Ahead(wr) \in Slots /\ Ahead(wr) < RING - 1
      /\ wr' = IF wr + 1 = RING THEN 0 ELSE wr + 1
  <2>1. SoundType /\ rd \in Slots /\ wr \in Slots
    BY DEF DataInv, SoundType
  <2>2. /\ Len(heard) \in Nat /\ RING \in Nat /\ RING > 1 /\ Ahead(wr) \in Slots
        /\ Free = RING - 1 - Ahead(wr)
        /\ SlotAfter(wr) = IF wr + 1 = RING THEN 0 ELSE wr + 1
    BY <2>1, RingFacts
  <2>3. Ahead(wr) < RING - 1
    BY <1>1, <2>2 DEF Slots
  <2>4. QED
    BY <1>1, <2>1, <2>2, <2>3
<1>3. wr' \in Slots /\ Ahead(wr)' = Ahead(wr) + 1 /\ \A s \in Slots : Ahead(s)' = Ahead(s)
  BY <1>1, <1>2 DEF Slots, Ahead
<1>4. \A s \in Slots : Ahead(s) = Ahead(wr) => s = wr
  BY <1>2 DEF Slots, Ahead
<1>5. PICK S : ring \in [Slots -> S]
  BY DEF DataInv, SoundType
<1>6. /\ ring' \in [Slots -> S \cup {chunk}] /\ ring'[wr] = chunk
      /\ \A s \in Slots : s # wr => ring'[s] = ring[s]
  BY <1>1, <1>2, <1>5
<1>7. SoundType' /\ HeardInOrder'
  BY <1>1, <1>2, <1>3, <1>6 DEF DataInv, SoundType, HeardInOrder
<1>8. Held' = Held /\ Held \in Nat /\ Kept = Len(heard) + Held + Ahead(wr) /\ Kept' = Kept + 1
  BY <1>1, <1>2, <1>3 DEF Held, Kept, Slots
<1>9. ASSUME NEW s \in Slots, Ahead(s)' < Ahead(wr)'
      PROVE  ring'[s] = <<playing', Len(heard') + Held' + Ahead(s)' + 1>>
  <2>1. Ahead(s) \in Slots /\ Ahead(s)' = Ahead(s) /\ Ahead(s) <= Ahead(wr)
    BY <1>2, <1>3, <1>9, RingFacts DEF DataInv, Slots
  <2>2. CASE Ahead(s) = Ahead(wr)
    BY <1>1, <1>4, <1>6, <1>8, <2>1, <2>2
  <2>3. CASE Ahead(s) < Ahead(wr)
    <3>1. ring[s] = <<playing, Len(heard) + Held + Ahead(s) + 1>>
      BY <1>1, <2>3 DEF DataInv, RingInv
    <3>2. s # wr
      BY <1>2, <2>1, <2>3 DEF Slots
    <3>3. QED
      BY <1>1, <1>6, <1>8, <2>1, <3>1, <3>2
  <2>4. QED
    BY <1>2, <2>1, <2>2, <2>3 DEF Slots
<1>10. RingInv'
  BY <1>1, <1>9 DEF DataInv, RingInv
<1>11. Position(0)' = Position(0)
  BY <1>1, <1>8 DEF Position
<1>12. QED
  BY <1>7, <1>10, <1>11 DEF DataInv

\* The playback thread takes the oldest chunk, or finds none.
LEMMA ReadKeepsData ==
    ASSUME DataInv, spc # "dead", RingRead PROVE DataInv' /\ Position(0)' = Position(0)
<1>1. /\ ppc = "loop" /\ UNCHANGED <<ring, wr, flushing, spc, chunk, playing, heard>>
      /\ \/ Avail > 0 /\ ppc' = "play" /\ hand' = ring[rd] /\ rd' = SlotAfter(rd)
         \/ ppc' = "empty" /\ UNCHANGED <<hand, rd>>
  BY DEF RingRead, server
<1>2. /\ rd \in Slots /\ wr \in Slots /\ Len(heard) \in Nat /\ RING \in Nat /\ RING > 1
      /\ Avail = Ahead(wr) /\ Ahead(wr) \in Slots
      /\ SlotAfter(rd) = IF rd + 1 = RING THEN 0 ELSE rd + 1
  BY RingFacts DEF DataInv, SoundType
<1>3. CASE ppc' = "empty" /\ UNCHANGED <<hand, rd>>
  <2>1. Held' = Held /\ Kept' = Kept /\ \A s \in Slots : Ahead(s)' = Ahead(s)
    BY <1>1, <1>3 DEF Held, Kept, Ahead
  <2>2. QED
    BY <1>1, <1>2, <1>3, <2>1 DEF DataInv, SoundType, HeardInOrder, RingInv, Position
<1>4. CASE Avail > 0 /\ ppc' = "play" /\ hand' = ring[rd] /\ rd' = SlotAfter(rd)
  <2>1. /\ rd' \in Slots /\ Ahead(rd) = 0 /\ Ahead(wr)' = Ahead(wr) - 1
        /\ Held = 0 /\ Held' = 1
    BY <1>1, <1>2, <1>4 DEF Slots, Ahead, Held
  <2>2. ASSUME NEW s \in Slots, Ahead(s)' < Ahead(wr)' PROVE Ahead(s) = Ahead(s)' + 1
    BY <1>1, <1>2, <1>4, <2>1, <2>2 DEF Slots, Ahead
  <2>3. Kept' = Kept
    BY <1>1, <1>2, <2>1 DEF Kept, Slots
  <2>4. hand' = <<playing, Len(heard) + 1>>
    <3>1. ring[rd] = <<playing, Len(heard) + Held + Ahead(rd) + 1>>
      BY <1>2, <1>4, <2>1 DEF DataInv, RingInv
    <3>2. QED
      BY <1>2, <1>4, <2>1, <3>1
  <2>5. ASSUME NEW s \in Slots, Ahead(s)' < Ahead(wr)'
        PROVE  ring'[s] = <<playing', Len(heard') + Held' + Ahead(s)' + 1>>
    <3>1. Ahead(s) = Ahead(s)' + 1 /\ Ahead(s) \in Slots /\ Ahead(s) < Ahead(wr)
      <4>1. SoundType
        BY DEF DataInv
      <4>2. Ahead(s) \in Slots /\ Ahead(s) = Ahead(s)' + 1
        BY <2>2, <2>5, <4>1, RingFacts
      <4>3. Ahead(s)' \in Int
        BY <1>2, <2>1, <2>5 DEF Ahead, Slots
      <4>4. QED
        BY <1>2, <2>1, <2>5, <4>2, <4>3 DEF Slots
    <3>2. ring[s] = <<playing, Len(heard) + Held + Ahead(s) + 1>>
      BY <3>1 DEF DataInv, RingInv
    <3>3. Len(heard) + Held + Ahead(s) + 1 = Len(heard) + Held' + Ahead(s)' + 1
      <4>1. Ahead(s)' \in Int
        BY <1>2, <2>1, <2>5 DEF Ahead, Slots
      <4>2. QED
        BY <1>2, <2>1, <3>1, <4>1
    <3>4. QED
      BY <1>1, <3>2, <3>3
  <2>6. SoundType' /\ HeardInOrder'
    BY <1>1, <1>2, <2>1 DEF DataInv, SoundType, HeardInOrder
  <2>7. RingInv'
    BY <1>1, <2>3, <2>4, <2>5 DEF DataInv, RingInv
  <2>8. QED
    BY <1>1, <2>3, <2>6, <2>7 DEF DataInv, Position
<1>5. QED
  BY <1>1, <1>3, <1>4

\* It offers the chunk in its hand, which is the next one, to the device.
LEMMA PlayKeepsData ==
    ASSUME DataInv, spc # "dead", PlayChunk PROVE DataInv' /\ Position(0)' = Position(0)
<1>1. /\ ppc = "play" /\ ppc' = "loop"
      /\ UNCHANGED <<ring, rd, wr, flushing, spc, chunk, playing, hand>>
      /\ hand = <<playing, Len(heard) + 1>>
  BY DEF PlayChunk, server, ringVars, DataInv, RingInv
<1>o. PICK sound \in {hand, Silence} : heard' = Append(heard, sound)
  BY DEF PlayChunk
<1>2. PICK S : heard \in Seq(S)
  BY DEF DataInv, SoundType
<1>3. /\ heard' \in Seq(S \cup {sound}) /\ Len(heard) \in Nat
      /\ Len(heard') = Len(heard) + 1
      /\ heard'[Len(heard) + 1] = sound
      /\ \A k \in 1 .. Len(heard) : heard'[k] = heard[k]
  BY <1>o, <1>2
<1>4. \A k \in 1 .. Len(heard') : k \in 1 .. Len(heard) \/ k = Len(heard) + 1
  BY <1>3
<1>5. HeardInOrder'
  BY <1>1, <1>o, <1>3, <1>4 DEF DataInv, HeardInOrder
<1>6. /\ \A s \in Slots : Ahead(s)' = Ahead(s)
      /\ Ahead(wr)' = Ahead(wr) /\ Ahead(wr) \in Slots
      /\ Len(heard') + Held' = Len(heard) + Held /\ Kept' = Kept
  <2>1. (\A s \in Slots : Ahead(s)' = Ahead(s)) /\ Ahead(wr)' = Ahead(wr)
    BY <1>1 DEF Ahead
  <2>2. Ahead(wr) \in Slots
    <3>1. SoundType /\ wr \in Slots
      BY DEF DataInv, SoundType
    <3>2. QED
      BY <3>1, RingFacts
  <2>3. Len(heard') + Held' = Len(heard) + Held
    BY <1>1, <1>3 DEF Held
  <2>4. QED
    BY <2>1, <2>2, <2>3 DEF Kept
<1>7. RingInv'
  <2>1. ASSUME NEW s \in Slots, Ahead(s)' < Ahead(wr)'
        PROVE  ring'[s] = <<playing', Len(heard') + Held' + Ahead(s)' + 1>>
    BY <1>1, <1>6, <2>1 DEF DataInv, RingInv
  <2>2. QED
    BY <1>1, <1>6, <2>1 DEF DataInv, RingInv
<1>8. QED
  BY <1>1, <1>3, <1>5, <1>6, <1>7 DEF DataInv, SoundType, Position

\* An empty ring, and nobody who plays.
LEMMA ClearKeepsData ==
    ASSUME DataInv, RingClear, ppc' # "play", spc' = "read",
           UNCHANGED <<playing, heard>> \/ heard' = <<>>
    PROVE  DataInv' /\ (heard' = <<>> => Position(0)' = <<playing', 0>>)
<1>1. /\ rd' = 0 /\ wr' = 0 /\ flushing' = FALSE /\ ring' = ring
      /\ RING \in Nat /\ RING > 1
  BY AudioAssumption DEF RingClear
<1>2. 0 \in Slots /\ Ahead(wr)' = 0 /\ \A s \in Slots : Ahead(s)' = s
  BY <1>1 DEF Slots, Ahead
<1>3. heard' = <<>> => heard' \in Seq({}) /\ Len(heard') = 0
  OBVIOUS
<1>4. SoundType' /\ HeardInOrder'
  <2>1. SoundType'
    BY <1>1, <1>2, <1>3 DEF DataInv, SoundType
  <2>2. CASE UNCHANGED <<playing, heard>>
    BY <2>1, <2>2 DEF DataInv, HeardInOrder, Silence
  <2>3. CASE heard' = <<>>
    BY <1>3, <2>1, <2>3 DEF HeardInOrder
  <2>4. QED
    BY <2>2, <2>3
<1>5. RingInv'
  BY <1>1, <1>2 DEF RingInv, Slots
<1>6. heard' = <<>> => Kept' = 0
  BY <1>2, <1>3 DEF Kept, Held
<1>7. QED
  BY <1>4, <1>5, <1>6 DEF DataInv, Position

------------------------------------------------------------------------------
\* The voice thread sends what comes next.
LEMMA SendKeepsStream ==
    ASSUME TurnsInv, StreamInv, NEW type, NEW arg, Send(type, arg), spc' = spc,
           Position(0)' = Position(0),
           type = "PLAY_DATA" =>
             arg = <<Position(Len(c2s))[1], Position(Len(c2s))[2] + 1>>,
           type \in EndsPlay => arg = Position(Len(c2s))[1],
           cpc' = "play" => <<plays', sent'>> = IF type = "PLAY_START" THEN <<arg, 0>> ELSE arg
    PROVE  StreamInv'
<1> DEFINE c == [type |-> type, arg |-> arg]
<1>1. c2s' = Append(c2s, c) /\ c.type = type /\ c.arg = arg /\ spc # "dead"
  BY DEF Send
<1> HIDE DEF c
<1>2. PICK S : c2s \in Seq(S)
  BY DEF TurnsInv
<1>3. PICK last \in Nat : last = Len(c2s)
  BY <1>2
<1>4. /\ Len(c2s') = last + 1 /\ c2s'[last + 1] = c
      /\ \A n \in 1 .. last : c2s'[n] = c2s[n]
  BY <1>1, <1>2, <1>3
<1>5. ASSUME NEW n \in 0 .. last PROVE Position(n)' = Position(n)
  <2>1. CASE n = 0
    BY <2>1
  <2>2. CASE n \in 1 .. last
    BY <1>4, <2>2 DEF Position
  <2>3. QED
    BY <1>3, <2>1, <2>2
<1>6. Position(last + 1)' = IF type = "PLAY_START" THEN <<arg, 0>> ELSE arg
  BY <1>1, <1>3, <1>4 DEF Position
<1>7. ASSUME NEW n \in 1 .. last + 1
      PROVE  /\ c2s'[n].type = "PLAY_DATA" =>
                  c2s'[n].arg = <<Position(n - 1)'[1], Position(n - 1)'[2] + 1>>
             /\ c2s'[n].type \in EndsPlay => c2s'[n].arg = Position(n - 1)'[1]
  <2>1. CASE n = last + 1
    <3>1. Position(n - 1)' = Position(Len(c2s))
      BY <1>3, <1>5, <2>1
    <3>2. QED
      BY <1>1, <1>3, <1>4, <2>1, <3>1
  <2>2. CASE n \in 1 .. last
    <3>1. Position(n - 1)' = Position(n - 1) /\ c2s'[n] = c2s[n]
      BY <1>3, <1>4, <1>5, <2>2
    <3>2. QED
      BY <1>1, <1>3, <2>2, <3>1 DEF StreamInv
  <2>3. QED
    BY <1>3, <2>1, <2>2
<1>8. QED
  BY <1>4, <1>6, <1>7 DEF StreamInv

\* Where the server is not playing no chunk comes next.
LEMMA NothingPlays ==
    ASSUME TurnsInv', spc' # "dead", Server' # "play"
    PROVE  /\ Len(c2s') \in Nat
           /\ Len(c2s') > 0 => c2s'[1].type \notin {"PLAY_DATA"} \cup EndsPlay
           /\ Len(c2s') = 0 => cpc' # "play"
<1>1. PICK S : c2s' \in Seq(S)
  BY DEF TurnsInv
<1>2. Len(c2s') \in Nat
  BY <1>1
<1>3. TurnAfter(0)' = TurnBefore(1)' \/ (0 = Len(c2s') /\ cpc' = "exit")
  BY <1>2 DEF TurnsInv
<1>4. TurnAfter(0)' # "play"
  BY DEF TurnAfter
<1>5. CASE Len(c2s') = 0
  BY <1>3, <1>4, <1>5 DEF TurnBefore, Client
<1>6. CASE Len(c2s') > 0
  <2>1. TurnBefore(1)' = Before(c2s'[1].type)
    BY <1>2, <1>6 DEF TurnBefore
  <2>2. Before(c2s'[1].type) # "play"
    BY <1>3, <1>4, <1>6, <2>1
  <2>3. QED
    BY <1>2, <1>6, <2>2 DEF Before, EndsPlay
<1>7. QED
  BY <1>2, <1>5, <1>6

LEMMA TakeKeepsStream ==
    ASSUME TurnsInv, TurnsInv', StreamInv, spc # "dead", spc' # "dead", c2s # <<>>,
           c2s' = Tail(c2s), UNCHANGED <<cpc, plays, sent>>,
           Position(0)' = Position(1) \/ Server' # "play"
    PROVE  StreamInv'
<1>1. PICK S : c2s \in Seq(S)
  BY DEF TurnsInv
<1>2. PICK last \in Nat : last = Len(c2s')
  BY <1>1
<1>3. Len(c2s) = last + 1 /\ \A n \in 1 .. last : c2s'[n] = c2s[n + 1]
  BY <1>1, <1>2
<1>4. \A n \in 1 .. last : Position(n)' = Position(n + 1)
  BY <1>2, <1>3 DEF Position
<1>5. \/ Position(0)' = Position(1)
      \/ /\ last > 0 => c2s'[1].type \notin {"PLAY_DATA"} \cup EndsPlay
         /\ last = 0 => cpc' # "play"
  BY <1>2, NothingPlays
<1>6. ASSUME NEW n \in 1 .. last
      PROVE  /\ c2s'[n].type = "PLAY_DATA" =>
                  c2s'[n].arg = <<Position(n - 1)'[1], Position(n - 1)'[2] + 1>>
             /\ c2s'[n].type \in EndsPlay => c2s'[n].arg = Position(n - 1)'[1]
  <2> DEFINE m == n + 1
  <2>1. m \in 1 .. Len(c2s) /\ m - 1 = n /\ c2s'[n] = c2s[m]
    BY <1>2, <1>3
  <2>2. /\ c2s[m].type = "PLAY_DATA" =>
             c2s[m].arg = <<Position(m - 1)[1], Position(m - 1)[2] + 1>>
        /\ c2s[m].type \in EndsPlay => c2s[m].arg = Position(m - 1)[1]
    BY <2>1 DEF StreamInv
  <2> HIDE DEF m
  <2>3. CASE n = 1
    <3>1. n - 1 = 0 /\ m - 1 = 1
      BY <2>1, <2>3
    <3>2. Position(n - 1)' = Position(m - 1) \/ c2s'[n].type \notin {"PLAY_DATA"} \cup EndsPlay
      BY <1>2, <1>5, <2>3, <3>1
    <3>3. QED
      BY <2>1, <2>2, <3>2
  <2>4. CASE n > 1
    <3> DEFINE k == n - 1
    <3>1. k \in 1 .. last /\ m - 1 = k + 1
      BY <1>2, <2>1, <2>4
    <3>2. Position(k)' = Position(k + 1)
      BY <1>4, <3>1
    <3>3. Position(n - 1)' = Position(m - 1)
      BY <3>1, <3>2
    <3>4. QED
      BY <2>1, <2>2, <3>3
  <2>5. QED
    BY <1>2, <2>3, <2>4
<1>7. cpc' = "play" => Position(Len(c2s))' = <<plays', sent'>>
  <2>1. cpc' = "play" => Position(last + 1) = <<plays, sent>>
    BY <1>3 DEF StreamInv
  <2>2. CASE last = 0
    <3>1. last + 1 = 1 /\ Len(c2s') = 0
      BY <1>2, <2>2
    <3>2. cpc' = "play" => Position(0)' = Position(1) /\ Position(1) = <<plays, sent>>
      BY <1>5, <2>1, <2>2, <3>1
    <3>3. QED
      BY <3>1, <3>2
  <2>3. CASE last > 0
    BY <1>2, <1>4, <2>1, <2>3
  <2>4. QED
    BY <1>2, <2>2, <2>3
<1>8. QED
  BY <1>2, <1>6, <1>7 DEF StreamInv

LEMMA OthersKeepStream ==
    ASSUME TurnsInv, TurnsInv', StreamInv, c2s' = c2s, UNCHANGED <<plays, sent>>,
           cpc' = "play" => cpc = "play", spc = "dead" => spc' = "dead",
           spc' = "dead" \/ Position(0)' = Position(0) \/ Server' # "play"
    PROVE  StreamInv'
<1> SUFFICES ASSUME spc' # "dead" PROVE StreamInv'
  BY DEF StreamInv
<1>1. PICK S : c2s \in Seq(S)
  BY DEF TurnsInv
<1>2. PICK last \in Nat : last = Len(c2s)
  BY <1>1
<1>3. \A n \in 1 .. last : Position(n)' = Position(n)
  BY <1>2 DEF Position
<1>4. \/ Position(0)' = Position(0)
      \/ /\ last > 0 => c2s[1].type \notin {"PLAY_DATA"} \cup EndsPlay
         /\ last = 0 => cpc' # "play"
  BY <1>2, NothingPlays
<1>5. ASSUME NEW n \in 1 .. last
      PROVE  /\ c2s[n].type = "PLAY_DATA" =>
                  c2s[n].arg = <<Position(n - 1)'[1], Position(n - 1)'[2] + 1>>
             /\ c2s[n].type \in EndsPlay => c2s[n].arg = Position(n - 1)'[1]
  <2>1. /\ c2s[n].type = "PLAY_DATA" =>
             c2s[n].arg = <<Position(n - 1)[1], Position(n - 1)[2] + 1>>
        /\ c2s[n].type \in EndsPlay => c2s[n].arg = Position(n - 1)[1]
    BY <1>2 DEF StreamInv
  <2>2. CASE n = 1
    <3>1. n - 1 = 0
      BY <2>2
    <3>2. QED
      BY <1>2, <1>4, <2>1, <2>2, <3>1
  <2>3. CASE n > 1
    <3>1. n - 1 \in 1 .. last
      BY <1>2, <2>3
    <3>2. QED
      BY <1>3, <2>1, <3>1
  <2>4. QED
    BY <1>2, <2>2, <2>3
<1>6. cpc' = "play" => Position(Len(c2s))' = <<plays', sent'>>
  <2>1. cpc' = "play" => Position(last) = <<plays, sent>>
    BY <1>2 DEF StreamInv
  <2>2. last = 0 \/ last \in 1 .. last
    BY <1>2
  <2>3. QED
    BY <1>2, <1>3, <1>4, <2>1, <2>2
<1>7. QED
  BY <1>2, <1>5, <1>6 DEF StreamInv

------------------------------------------------------------------------------
SoundInv == DuplexInv /\ DataInv /\ StreamInv

LEMMA VoiceKeepsSound ==
    ASSUME SoundInv, RecordStart \/ RecordStop \/ PlayStep PROVE SoundInv'
<1>1. DuplexInv' /\ TurnsInv /\ TurnsInv' /\ DataInv /\ StreamInv
  BY VoiceKeeps DEF SoundInv, DuplexInv
<1>2. UNCHANGED <<spc, chunk, playing, ring, rd, wr, flushing, ppc, hand, heard>>
  BY DEF PlayStep, RecordStart, RecordStop, PlayStart, PlayPcm, PlayEnd, AckSleep, AckReturn,
         AckTimeout, VoiceEnds, Played, process, server, ringVars, playback
<1>3. flushing => spc \in {"joinFlush", "dead"}
  BY <1>1 DEF DataInv, RingInv
<1>4. DataInv' /\ Position(0)' = Position(0)
  BY <1>1, <1>2, <1>3, OthersKeepData
<1>5. CASE RecordStart \/ RecordStop \/ PlayStart \/ PlayPcm \/ PlayEnd
  <2>1. \E type, arg :
          /\ Send(type, arg)
          /\ type = "PLAY_DATA" =>
               arg = <<Position(Len(c2s))[1], Position(Len(c2s))[2] + 1>>
          /\ type \in EndsPlay => arg = Position(Len(c2s))[1]
          /\ cpc' = "play" =>
               <<plays', sent'>> = IF type = "PLAY_START" THEN <<arg, 0>> ELSE arg
    <3>1. CASE RecordStart
      <4>1. Send("RECORD_START", captures + 1) /\ cpc' # "play"
        BY <3>1 DEF RecordStart
      <4>2. QED
        BY <4>1 DEF EndsPlay
    <3>2. CASE RecordStop
      <4>1. Send("RECORD_STOP", 0) /\ cpc' # "play"
        BY <3>2 DEF RecordStop
      <4>2. QED
        BY <4>1 DEF EndsPlay
    <3>3. CASE PlayStart
      <4>1. Send("PLAY_START", plays + 1) /\ plays' = plays + 1 /\ sent' = 0
        BY <3>3 DEF PlayStart
      <4>2. QED
        BY <4>1 DEF EndsPlay
    <3>4. CASE PlayPcm
      <4>1. /\ Send("PLAY_DATA", <<plays, sent + 1>>) /\ plays' = plays /\ sent' = sent + 1
            /\ Position(Len(c2s)) = <<plays, sent>>
        BY <1>1, <3>4 DEF PlayPcm, StreamInv, Send
      <4>2. QED
        BY <4>1 DEF EndsPlay
    <3>5. CASE PlayEnd
      <4>1. /\ Send("PLAY_STOP", plays) \/ Send("PLAY_FLUSH", plays)
            /\ cpc' # "play" /\ Position(Len(c2s)) = <<plays, sent>>
        BY <1>1, <3>5 DEF PlayEnd, StreamInv, Send
      <4>2. QED
        BY <4>1 DEF EndsPlay
    <3>6. QED
      BY <1>5, <3>1, <3>2, <3>3, <3>4, <3>5
  <2>2. StreamInv'
    BY <1>1, <1>2, <1>4, <2>1, SendKeepsStream
  <2>3. QED
    BY <1>1, <1>4, <2>2 DEF SoundInv
<1>6. CASE AckSleep \/ AckReturn \/ AckTimeout \/ VoiceEnds
  <2>1. c2s' = c2s /\ UNCHANGED <<plays, sent>> /\ cpc' # "play"
    BY <1>6 DEF AckSleep, AckReturn, AckTimeout, VoiceEnds, Played
  <2>2. StreamInv'
    BY <1>1, <1>2, <1>4, <2>1, OthersKeepStream
  <2>3. QED
    BY <1>1, <1>4, <2>2 DEF SoundInv
<1>7. QED
  BY <1>5, <1>6 DEF PlayStep

\* Steps of the receiver and of the capture thread.
LEMMA AsideKeepsSound ==
    ASSUME SoundInv, DuplexInv',
           UNCHANGED <<spc, chunk, playing, ring, rd, wr, flushing, ppc, hand, heard>>,
           UNCHANGED <<c2s, plays, sent>>, cpc' = "play" => cpc = "play"
    PROVE  SoundInv'
<1>1. TurnsInv /\ TurnsInv' /\ DataInv /\ StreamInv
  BY DEF SoundInv, DuplexInv
<1>2. flushing => spc \in {"joinFlush", "dead"}
  BY <1>1 DEF DataInv, RingInv
<1>3. DataInv' /\ Position(0)' = Position(0)
  BY <1>1, <1>2, OthersKeepData
<1>4. StreamInv'
  BY <1>1, <1>3, OthersKeepStream
<1>5. QED
  BY <1>3, <1>4 DEF SoundInv

\* The server's main thread: with a command taken the place behind it is the next one, or
\* the server is not playing.
LEMMA ServerMoves ==
    ASSUME SoundInv, ServerStep
    PROVE  /\ DataInv'
           /\ \/ c2s' = c2s /\ (Position(0)' = Position(0) \/ Server' # "play")
              \/ /\ c2s # <<>> /\ c2s' = Tail(c2s)
                 /\ Position(0)' = Position(1) \/ Server' # "play"
<1>1. /\ DuplexInv /\ DuplexInv' /\ TurnsInv /\ TurnsInv' /\ DataInv /\ StreamInv
      /\ ThreadsInv /\ ThreadsInv'
  BY ServerKeeps DEF SoundInv, DuplexInv
<1>2. UNCHANGED <<cpc, plays, sent>> /\ spc # "dead" /\ spc' # "dead"
  BY DEF ServerStep, OnRecordStart, OnRecordStop, CaptureJoined, OnPlayStart, OnPlayData,
         RingWrite, OnPlayStop, OnPlayFlush, PlaybackJoined, Command, voice, server
<1>3. PICK S : c2s \in Seq(S)
  BY <1>1 DEF TurnsInv
<1>4. CASE OnRecordStart \/ OnRecordStop \/ OnPlayStop \/ OnPlayFlush
  <2>1. /\ spc = "read" /\ c2s # <<>> /\ c2s' = Tail(c2s)
        /\ UNCHANGED <<chunk, playing, ring, rd, wr, ppc, hand, heard>>
        /\ spc' # "write" /\ (flushing' => flushing \/ spc' = "joinFlush")
        /\ Head(c2s).type \in {"RECORD_START", "RECORD_STOP"} \cup EndsPlay
    BY <1>4 DEF OnRecordStart, OnRecordStop, OnPlayStop, OnPlayFlush, Command, ringVars,
                playback, server, EndsPlay
  <2>2. ~flushing
    BY <1>1, <2>1 DEF DataInv, RingInv
  <2>3. DataInv'
    BY <1>1, <1>2, <2>1, <2>2, OthersKeepData
  <2>4. Server' # "play"
    <3>1. CASE OnRecordStart
      <4>1. Server = Before("RECORD_START")
        BY <1>1, <2>1, <3>1, TakeFindsTurn DEF OnRecordStart, Command
      <4>2. QED
        BY <1>1, <3>1, <4>1 DEF OnRecordStart, Server, Before, ThreadsInv, playback
    <3>2. CASE OnRecordStop
      <4>1. Server = Before("RECORD_STOP")
        BY <1>1, <2>1, <3>2, TakeFindsTurn DEF OnRecordStop, Command
      <4>2. QED
        BY <1>1, <3>2, <4>1 DEF OnRecordStop, Server, Before, ThreadsInv, playback
    <3>3. CASE OnPlayStop \/ OnPlayFlush
      BY <3>3 DEF OnPlayStop, OnPlayFlush, Server
    <3>4. QED
      BY <1>4, <3>1, <3>2, <3>3
  <2>5. QED
    BY <2>1, <2>3, <2>4
<1>5. CASE CaptureJoined
  <2>1. /\ UNCHANGED <<chunk, playing, ring, rd, wr, flushing, ppc, hand, heard, c2s>>
        /\ spc = "joinCapture" /\ spc' = "read"
    BY <1>5 DEF CaptureJoined, ringVars, playback
  <2>2. ~flushing
    BY <1>1, <2>1 DEF DataInv, RingInv
  <2>3. DataInv' /\ Position(0)' = Position(0)
    BY <1>1, <2>1, <2>2, OthersKeepData
  <2>4. QED
    BY <2>1, <2>3
<1>6. CASE OnPlayStart
  <2>1. /\ spc = "read" /\ spc' = "read" /\ c2s # <<>> /\ c2s' = Tail(c2s) /\ RingClear
        /\ Head(c2s).type = "PLAY_START" /\ playing' = Head(c2s).arg /\ heard' = <<>>
        /\ ppc' \in {ppc, "opening"}
    BY <1>6 DEF OnPlayStart, Command
  <2>2. Server = "quiet"
    BY <1>1, <2>1, TakeFindsTurn DEF Before
  <2>3. ppc' # "play"
    BY <1>1, <2>1, <2>2 DEF ThreadsInv, Server
  <2>4. DataInv' /\ Position(0)' = <<playing', 0>>
    BY <1>1, <2>1, <2>3, ClearKeepsData
  <2>5. Position(1) = <<playing', 0>>
    BY <1>3, <2>1 DEF Position
  <2>6. QED
    BY <2>1, <2>4, <2>5
<1>7. CASE OnPlayData
  <2>1. /\ spc = "read" /\ spc' = "write" /\ c2s # <<>> /\ c2s' = Tail(c2s)
        /\ Head(c2s).type = "PLAY_DATA" /\ chunk' = Head(c2s).arg
        /\ UNCHANGED <<playing, ring, rd, wr, flushing, ppc, hand, heard>>
    BY <1>7 DEF OnPlayData, Command, ringVars, playback
  <2>2. Len(c2s) \in Nat \ {0} /\ Head(c2s) = c2s[1]
    BY <1>3, <2>1
  <2>3. Position(0) = <<playing, Kept>>
    BY <2>1 DEF Position
  <2>4. chunk' = <<playing, Kept + 1>>
    <3>1. 1 \in 1 .. Len(c2s) /\ 1 - 1 = 0
      BY <2>2
    <3>2. c2s[1].arg = <<Position(0)[1], Position(0)[2] + 1>>
      BY <1>1, <1>2, <2>1, <2>2, <3>1 DEF StreamInv
    <3>3. QED
      BY <2>1, <2>2, <2>3, <3>2
  <2>5. Kept' = Kept /\ Held' = Held /\ \A s \in Slots : Ahead(s)' = Ahead(s)
    BY <2>1 DEF Kept, Held, Ahead
  <2>6. DataInv'
    <3>1. SoundType' /\ HeardInOrder'
      BY <1>1, <2>1 DEF DataInv, SoundType, HeardInOrder
    <3>2. Ahead(wr)' = Ahead(wr)
      BY <2>1 DEF Ahead
    <3>3. RingInv'
      BY <1>1, <2>1, <2>4, <2>5, <3>2 DEF DataInv, RingInv
    <3>4. QED
      BY <3>1, <3>3 DEF DataInv
  <2>7. Position(0)' = Position(1)
    <3>1. Position(0)' = <<playing, Kept + 1>>
      BY <2>1, <2>5 DEF Position
    <3>2. Position(1) = chunk'
      BY <2>1, <2>2 DEF Position
    <3>3. QED
      BY <2>4, <3>1, <3>2
  <2>8. QED
    BY <2>1, <2>6, <2>7
<1>8. CASE RingWrite
  <2>1. DataInv' /\ Position(0)' = Position(0)
    BY <1>1, <1>8, WriteKeepsData
  <2>2. c2s' = c2s
    BY <1>8 DEF RingWrite
  <2>3. QED
    BY <2>1, <2>2
<1>9. CASE PlaybackJoined
  <2>1. /\ RingClear /\ ppc' = "none" /\ spc' = "read" /\ c2s' = c2s
        /\ UNCHANGED <<playing, heard>> /\ pRunning' = FALSE
    BY <1>9 DEF PlaybackJoined
  <2>2. DataInv'
    BY <1>1, <2>1, ClearKeepsData
  <2>3. Server' # "play"
    BY <2>1 DEF Server
  <2>4. QED
    BY <2>1, <2>2, <2>3
<1>10. QED
  BY <1>4, <1>5, <1>6, <1>7, <1>8, <1>9 DEF ServerStep

LEMMA ServerKeepsSound == ASSUME SoundInv, ServerStep PROVE SoundInv'
<1>1. DuplexInv' /\ TurnsInv /\ TurnsInv' /\ StreamInv
  BY ServerKeeps DEF SoundInv, DuplexInv
<1>2. UNCHANGED <<cpc, plays, sent>> /\ spc # "dead" /\ spc' # "dead"
  BY DEF ServerStep, OnRecordStart, OnRecordStop, CaptureJoined, OnPlayStart, OnPlayData,
         RingWrite, OnPlayStop, OnPlayFlush, PlaybackJoined, Command, voice, server
<1>3. DataInv'
  BY ServerMoves
<1>4. StreamInv'
  <2>1. CASE c2s' = c2s /\ (Position(0)' = Position(0) \/ Server' # "play")
    BY <1>1, <1>2, <2>1, OthersKeepStream
  <2>2. CASE /\ c2s # <<>> /\ c2s' = Tail(c2s)
             /\ Position(0)' = Position(1) \/ Server' # "play"
    BY <1>1, <1>2, <2>2, TakeKeepsStream
  <2>3. QED
    BY <2>1, <2>2, ServerMoves
<1>5. QED
  BY <1>1, <1>3, <1>4 DEF SoundInv

\* The playback thread moves the sound on and keeps its place.
LEMMA PlaybackKeepsPlace ==
    ASSUME SoundInv, PlaybackStep
    PROVE  spc # "dead" /\ DataInv' /\ Position(0)' = Position(0)
<1>1. DataInv /\ ThreadsInv
  BY DEF SoundInv, DuplexInv
<1>2. spc' = spc /\ ppc # "none"
  BY DEF PlaybackStep, PlaybackOpens, RingRead, PlayChunk, NothingToPlay, PlaybackEnds,
         voice, server
<1>3. spc # "dead"
  BY <1>1, <1>2 DEF ThreadsInv
<1>4. DataInv' /\ Position(0)' = Position(0)
  <2>1. CASE RingRead
    BY <1>1, <1>3, <2>1, ReadKeepsData
  <2>2. CASE PlayChunk
    BY <1>1, <1>3, <2>2, PlayKeepsData
  <2>3. CASE PlaybackOpens \/ NothingToPlay \/ PlaybackEnds
    <3>1. /\ UNCHANGED <<chunk, playing, ring, rd, wr, flushing, hand, heard>>
          /\ ppc # "play" /\ ppc' # "play"
      BY <2>3 DEF PlaybackOpens, NothingToPlay, PlaybackEnds, server, ringVars
    <3>2. Held' = Held /\ Kept' = Kept /\ \A s \in Slots : Ahead(s)' = Ahead(s)
      BY <3>1 DEF Held, Kept, Ahead
    <3>3. SoundType' /\ HeardInOrder'
      BY <1>1, <3>1 DEF DataInv, SoundType, HeardInOrder
    <3>4. Ahead(wr)' = Ahead(wr)
      BY <3>1 DEF Ahead
    <3>5. RingInv'
      BY <1>1, <1>2, <3>1, <3>2, <3>4 DEF DataInv, RingInv
    <3>6. QED
      BY <1>2, <3>1, <3>2, <3>3, <3>5 DEF DataInv, Position
  <2>4. QED
    BY <2>1, <2>2, <2>3 DEF PlaybackStep
<1>5. QED
  BY <1>3, <1>4

LEMMA PlaybackKeepsSound == ASSUME SoundInv, PlaybackStep PROVE SoundInv'
<1>1. DuplexInv' /\ TurnsInv /\ TurnsInv' /\ StreamInv
  BY ThreadsKeep DEF SoundInv, DuplexInv
<1>2. UNCHANGED <<cpc, plays, sent, c2s, spc>>
  BY DEF PlaybackStep, PlaybackOpens, RingRead, PlayChunk, NothingToPlay, PlaybackEnds,
         voice, server
<1>3. spc # "dead" /\ DataInv' /\ Position(0)' = Position(0)
  BY PlaybackKeepsPlace
<1>4. StreamInv'
  BY <1>1, <1>2, <1>3, OthersKeepStream
<1>5. QED
  BY <1>1, <1>3, <1>4 DEF SoundInv

LEMMA CrashKeepsSound == ASSUME SoundInv, Crash PROVE SoundInv'
<1>1. DuplexInv'
  BY ThreadsKeep DEF SoundInv
<1>2. spc' = "dead" /\ UNCHANGED <<playing, ring, rd, wr, heard>>
  BY DEF Crash, ringVars
<1>3. SoundType' /\ HeardInOrder'
  BY <1>2 DEF SoundInv, DataInv, SoundType, HeardInOrder
<1>4. RingInv' /\ StreamInv'
  BY <1>2 DEF RingInv, StreamInv
<1>5. QED
  BY <1>1, <1>3, <1>4 DEF SoundInv, DataInv

LEMMA NextSound == SoundInv /\ [Next]_vars => SoundInv'
<1> SUFFICES ASSUME SoundInv, [Next]_vars PROVE SoundInv'
  OBVIOUS
<1>1. DuplexInv
  BY DEF SoundInv
<1>2. CASE ReceiverStep
  <2>1. DuplexInv'
    BY <1>1, <1>2, ReceiverKeeps
  <2>2. UNCHANGED <<spc, chunk, playing, ring, rd, wr, flushing, ppc, hand, heard>>
    BY <1>2 DEF ReceiverStep, ReceiveData, CallbackReturns, ReceiveDone, ReceiveEof,
                process, server, ringVars, playback
  <2>3. UNCHANGED <<c2s, plays, sent>> /\ (cpc' = "play" => cpc = "play")
    BY <1>2 DEF ReceiverStep, ReceiveData, CallbackReturns, ReceiveDone, ReceiveEof, voice
  <2>4. QED
    BY <2>1, <2>2, <2>3, AsideKeepsSound
<1>3. CASE CaptureStep
  <2>1. DuplexInv'
    BY <1>1, <1>3, ThreadsKeep
  <2>2. UNCHANGED <<spc, chunk, playing, ring, rd, wr, flushing, ppc, hand, heard>>
    BY <1>3 DEF CaptureStep, CaptureOpens, CaptureFrame, CaptureEnds, server, ringVars, playback
  <2>3. UNCHANGED <<c2s, plays, sent, cpc>>
    BY <1>3 DEF CaptureStep, CaptureOpens, CaptureFrame, CaptureEnds, voice
  <2>4. QED
    BY <2>1, <2>2, <2>3, AsideKeepsSound
<1>4. CASE Rest \/ UNCHANGED vars
  <2>1. UNCHANGED vars
    BY <1>4 DEF Rest
  <2>2. DuplexInv'
    BY <1>1, <2>1, RestKeeps
  <2>3. UNCHANGED <<spc, chunk, playing, ring, rd, wr, flushing, ppc, hand, heard>>
    BY <2>1 DEF vars, process, server, ringVars, playback
  <2>4. UNCHANGED <<c2s, plays, sent, cpc>>
    BY <2>1 DEF vars, voice
  <2>5. QED
    BY <2>2, <2>3, <2>4, AsideKeepsSound
<1>5. QED
  BY <1>2, <1>3, <1>4, VoiceKeepsSound, ServerKeepsSound, PlaybackKeepsSound, CrashKeepsSound
     DEF Next

------------------------------------------------------------------------------
\* The way of a PLAY_DONE, and of the frames that go before it.
InTime == "timeout" \notin day.faults
Joins == {"joinDrain", "joinFlush"}
NoEnd(n) == \A k \in 1 .. n : c2s[k].type \notin EndsPlay
NoDone(n) == \A k \in 1 .. n : s2c[k].type # "PLAY_DONE"

\* Nothing is on its way to the server, and nothing to be sent by it.
Settled == c2s = <<>> /\ kpc = "none" /\ spc \in {"read", "dead"}

\* While the voice thread waits the end of its play has been asked for, is being brought
\* about, has been reported, has been heard of, or died with the server.
Asked ==
    /\ ~ack /\ NoDone(Len(s2c)) /\ spc \notin Joins
    /\ Len(c2s) > 0 /\ c2s[Len(c2s)].type \in EndsPlay /\ c2s[Len(c2s)].arg = plays
    /\ NoEnd(Len(c2s) - 1)
Ending == ~ack /\ NoDone(Len(s2c)) /\ spc \in Joins /\ c2s = <<>> /\ playing = plays
Reported ==
    /\ ~ack /\ Settled /\ Len(s2c) > 0
    /\ s2c[Len(s2c)].type = "PLAY_DONE" /\ s2c[Len(s2c)].arg = plays
    /\ NoDone(Len(s2c) - 1)
HeardOf == ack /\ Settled /\ doneOf = plays /\ s2c = <<>> /\ rpc = NoFrame
Lost == ~ack /\ NoDone(Len(s2c)) /\ spc = "dead"

DoneInv == InTime =>
    /\ cpc \in {"wait", "asleep"} => Asked \/ Ending \/ Reported \/ HeardOf \/ Lost
    /\ cpc \notin {"wait", "asleep", "exit"} /\ connected =>
         NoEnd(Len(c2s)) /\ NoDone(Len(s2c)) /\ spc \notin Joins

\* A question is recorded with nothing under way but its own frames.
FreshInv == InTime /\ phase = "listen" =>
    /\ cpc \in {"recordStart", "recording", "exit"}
    /\ cpc = "recordStart" => recorded = {} /\ Settled /\ s2c = <<>> /\ rpc = NoFrame
    /\ recorded \subseteq {captures} /\ (rpc.append => rpc.frame = captures)
    /\ kpc # "none" => capturing = captures
    /\ \A k \in 1 .. Len(s2c) : s2c[k].type = "AUDIO_DATA" => s2c[k].arg = captures
    /\ \A k \in 1 .. Len(c2s) : c2s[k].type = "RECORD_START" => c2s[k].arg = captures

\* What the loss of the server or of the connection leaves.
LossInv ==
    /\ \E S : s2c \in Seq(S)
    /\ \E S : c2s \in Seq(S)
    /\ spc = "dead" => c2s = <<>> /\ kpc = "none"
    /\ ~connected => cpc = "exit" \/ (spc = "dead" /\ s2c = <<>> /\ rpc = NoFrame)

HandoverInv == LossInv /\ DoneInv /\ FreshInv

LEMMA InitHandover == Init => HandoverInv
<1> SUFFICES ASSUME Init PROVE HandoverInv
  OBVIOUS
<1>1. c2s = <<>> /\ c2s \in Seq({}) /\ Len(c2s) = 0 /\ s2c = <<>> /\ s2c \in Seq({}) /\ Len(s2c) = 0
  BY DEF Init
<1>2. LossInv
  BY <1>1 DEF Init, LossInv
<1>3. DoneInv /\ FreshInv
  BY <1>1 DEF Init, DoneInv, FreshInv, NoEnd, NoDone, Joins
<1>4. QED
  BY <1>2, <1>3 DEF HandoverInv

\* What appending and taking do to a stream.
LEMMA AppendFacts ==
    ASSUME NEW q, NEW m, \E S : q \in Seq(S)
    PROVE  /\ \E S : Append(q, m) \in Seq(S)
           /\ Len(q) \in Nat /\ Len(Append(q, m)) = Len(q) + 1
           /\ \A k \in 1 .. Len(q) : Append(q, m)[k] = q[k]
           /\ Append(q, m)[Len(q) + 1] = m
<1>1. PICK S : q \in Seq(S)
  OBVIOUS
<1>2. q \in Seq(S \cup {m}) /\ m \in S \cup {m}
  BY <1>1
<1>3. Append(q, m) \in Seq(S \cup {m})
  BY <1>2
<1>4. QED
  BY <1>2, <1>3

LEMMA TailFacts ==
    ASSUME NEW q, \E S : q \in Seq(S), q # <<>>
    PROVE  /\ \E S : Tail(q) \in Seq(S)
           /\ Len(q) \in Nat \ {0} /\ Len(Tail(q)) = Len(q) - 1 /\ Head(q) = q[1]
           /\ \A k \in 1 .. Len(q) - 1 : Tail(q)[k] = q[k + 1]
           /\ Len(q) = 1 => Tail(q) = <<>>
<1>1. PICK S : q \in Seq(S)
  OBVIOUS
<1>2. /\ Tail(q) \in Seq(S) /\ Len(q) \in Nat \ {0} /\ Len(Tail(q)) = Len(q) - 1
      /\ Head(q) = q[1] /\ \A k \in 1 .. Len(q) - 1 : Tail(q)[k] = q[k + 1]
  <2>1. q # <<>>
    OBVIOUS
  <2>2. Len(q) \in Nat \ {0}
    BY <1>1, <2>1
  <2>3. Tail(q) \in Seq(S) /\ Len(Tail(q)) = Len(q) - 1
    BY <1>1, <2>1
  <2>4. Head(q) = q[1]
    BY <1>1, <2>1
  <2>5. \A k \in 1 .. Len(q) - 1 : Tail(q)[k] = q[k + 1]
    BY <1>1, <2>1
  <2>6. QED
    BY <2>2, <2>3, <2>4, <2>5
<1>3. Len(q) = 1 => Tail(q) = <<>>
  <2> DEFINE t == Tail(q)
  <2>1. t \in Seq(S) /\ (Len(q) = 1 => Len(t) = 0)
    BY <1>2
  <2> HIDE DEF t
  <2>2. Len(t) = 0 => t = <<>>
    BY <2>1
  <2>3. QED
    BY <2>1, <2>2 DEF t
<1>4. QED
  BY <1>2, <1>3

\* The voice thread sends.
LEMMA SendKeepsHandover ==
    ASSUME HandoverInv, RecordStart \/ RecordStop \/ PlayStart \/ PlayPcm \/ PlayEnd,
           day' = day
    PROVE  HandoverInv'
<1>1. /\ connected /\ spc # "dead" /\ cpc \in {"recordStart", "recording", "playStart", "play"}
      /\ UNCHANGED <<connected, s2c, spc, kpc, rpc, recorded, playing, capturing>>
  BY DEF RecordStart, RecordStop, PlayStart, PlayPcm, PlayEnd, Send, receiver, sync, process,
         server, capture
<1>2. PICK m : /\ c2s' = Append(c2s, m)
               /\ m.type = "RECORD_START" => RecordStart /\ m.arg = captures + 1
               /\ m.type \in EndsPlay <=> PlayEnd
               /\ PlayEnd => m.arg = plays
  <2>1. CASE RecordStart
    <3>1. c2s' = Append(c2s, [type |-> "RECORD_START", arg |-> captures + 1]) /\ ~PlayEnd
      BY <2>1 DEF RecordStart, PlayEnd, Send
    <3>2. QED
      BY <2>1, <3>1 DEF EndsPlay
  <2>2. CASE RecordStop
    <3>1. c2s' = Append(c2s, [type |-> "RECORD_STOP", arg |-> 0]) /\ ~PlayEnd
      BY <2>2 DEF RecordStop, PlayEnd, Send
    <3>2. QED
      BY <3>1 DEF EndsPlay
  <2>3. CASE PlayStart
    <3>1. c2s' = Append(c2s, [type |-> "PLAY_START", arg |-> plays + 1]) /\ ~PlayEnd
      BY <2>3 DEF PlayStart, PlayEnd, Send
    <3>2. QED
      BY <3>1 DEF EndsPlay
  <2>4. CASE PlayPcm
    <3>1. c2s' = Append(c2s, [type |-> "PLAY_DATA", arg |-> <<plays, sent + 1>>]) /\ ~PlayEnd
      BY <2>4 DEF PlayPcm, PlayEnd, Send
    <3>2. QED
      BY <3>1 DEF EndsPlay
  <2>5. CASE PlayEnd
    <3>1. \/ c2s' = Append(c2s, [type |-> "PLAY_STOP", arg |-> plays])
          \/ c2s' = Append(c2s, [type |-> "PLAY_FLUSH", arg |-> plays])
      BY <2>5 DEF PlayEnd, Send
    <3>2. QED
      BY <2>5, <3>1 DEF EndsPlay
  <2>6. QED
    BY <2>1, <2>2, <2>3, <2>4, <2>5
<1>3. PICK last \in Nat : last = Len(c2s)
  BY AppendFacts DEF HandoverInv, LossInv
<1>4. /\ \E S : c2s' \in Seq(S)
      /\ Len(c2s') = last + 1 /\ c2s'[last + 1] = m
      /\ \A k \in 1 .. last : c2s'[k] = c2s[k]
  <2>1. \E S : c2s \in Seq(S)
    BY DEF HandoverInv, LossInv
  <2>2. /\ \E S : Append(c2s, m) \in Seq(S)
        /\ Len(Append(c2s, m)) = Len(c2s) + 1
        /\ \A k \in 1 .. Len(c2s) : Append(c2s, m)[k] = c2s[k]
        /\ Append(c2s, m)[Len(c2s) + 1] = m
    BY <2>1, AppendFacts
  <2>3. QED
    BY <1>2, <1>3, <2>2
<1>5. LossInv'
  BY <1>1, <1>4 DEF HandoverInv, LossInv
<1>6. ASSUME InTime PROVE NoEnd(last) /\ NoDone(Len(s2c)) /\ spc \notin Joins
  BY <1>1, <1>3, <1>6 DEF HandoverInv, DoneInv
<1>7. DoneInv'
  <2> SUFFICES ASSUME InTime PROVE DoneInv'
    BY DEF DoneInv, InTime
  <2>1. CASE PlayEnd
    <3>1. cpc' = "wait" /\ ack' = FALSE /\ plays' = plays
      BY <2>1 DEF PlayEnd
    <3>2. m.type \in EndsPlay /\ m.arg = plays /\ last + 1 - 1 = last /\ last + 1 > 0
      BY <1>2, <1>3, <2>1
    <3>3. Asked'
      BY <1>1, <1>4, <1>6, <3>1, <3>2 DEF Asked, NoEnd, NoDone
    <3>4. QED
      BY <3>1, <3>3 DEF DoneInv
  <2>2. CASE ~PlayEnd
    <3>1. cpc' \notin {"wait", "asleep"}
      BY <2>2 DEF RecordStart, RecordStop, PlayStart, PlayPcm
    <3>2. \A k \in 1 .. last + 1 : k \in 1 .. last \/ k = last + 1
      BY <1>3
    <3>3. NoEnd(Len(c2s))' /\ NoDone(Len(s2c))' /\ spc' \notin Joins
      BY <1>1, <1>2, <1>4, <1>6, <2>2, <3>2 DEF NoEnd, NoDone
    <3>4. QED
      BY <3>1, <3>3 DEF DoneInv
  <2>3. QED
    BY <2>1, <2>2
<1>8. FreshInv'
  <2> SUFFICES ASSUME InTime, phase' = "listen" PROVE FreshInv'
    BY DEF FreshInv, InTime
  <2>1. RecordStart /\ phase = "listen"
    BY DEF HandoverInv, FreshInv, RecordStart, RecordStop, PlayStart, PlayPcm, PlayEnd
  <2>2. /\ cpc' = "recording" /\ captures' = captures + 1
        /\ recorded = {} /\ c2s = <<>> /\ s2c = <<>> /\ kpc = "none" /\ rpc = NoFrame
    BY <2>1 DEF HandoverInv, FreshInv, RecordStart, Settled
  <2>3. last = 0 /\ m.type = "RECORD_START" => m.arg = captures'
    BY <1>2, <1>3, <2>2
  <2>4. \A k \in 1 .. Len(c2s') : c2s'[k].type = "RECORD_START" => c2s'[k].arg = captures'
    <3>1. last = 0 /\ \A k \in 1 .. Len(c2s') : k = 1
      BY <1>3, <1>4, <2>2
    <3>2. QED
      BY <1>4, <2>3, <3>1
  <2>5. QED
    BY <1>1, <2>2, <2>4 DEF FreshInv, NoFrame
<1>9. QED
  BY <1>5, <1>7, <1>8 DEF HandoverInv

\* It waits, or ends.
LEMMA WaitKeepsHandover ==
    ASSUME HandoverInv, AckSleep \/ AckReturn \/ AckTimeout \/ VoiceEnds, day' = day
    PROVE  HandoverInv'
<1>1. UNCHANGED <<c2s, s2c, spc, kpc, rpc, playing, capturing, captures, plays, doneOf, ack>>
  BY DEF AckSleep, AckReturn, AckTimeout, VoiceEnds, Played, receiver, sync, process, server,
         capture
<1>2. CASE AckSleep
  <2>1. cpc = "wait" /\ cpc' = "asleep" /\ UNCHANGED <<connected, phase, recorded>>
    BY <1>2 DEF AckSleep, sync, receiver
  <2>2. QED
    BY <1>1, <2>1 DEF HandoverInv, LossInv, DoneInv, FreshInv, InTime, Asked, Ending, Reported,
                      HeardOf, Lost, Settled, NoEnd, NoDone
<1>3. CASE VoiceEnds
  <2>1. cpc' = "exit" /\ connected' = FALSE /\ UNCHANGED <<phase, recorded>>
    BY <1>3 DEF VoiceEnds, receiver
  <2>2. QED
    BY <1>1, <2>1 DEF HandoverInv, LossInv, DoneInv, FreshInv, InTime
<1>4. CASE AckReturn \/ AckTimeout
  <2>1. /\ cpc \in {"wait", "asleep"} /\ cpc' = "recordStart" /\ connected' = connected
        /\ InTime => ack \/ ~connected
        /\ phase' = "listen" => recorded' = {}
    BY <1>4 DEF AckReturn, AckTimeout, Played, sync, InTime
  <2>2. LossInv'
    BY <1>1, <2>1 DEF HandoverInv, LossInv
  <2>3. ASSUME InTime PROVE Settled /\ s2c = <<>> /\ rpc = NoFrame
    <3>1. CASE ~connected
      BY <2>1, <3>1 DEF HandoverInv, LossInv, Settled
    <3>2. CASE ack
      BY <2>1, <2>3, <3>2 DEF HandoverInv, DoneInv, Asked, Ending, Reported, HeardOf, Lost
    <3>3. QED
      BY <2>1, <2>3, <3>1, <3>2
  <2>4. DoneInv'
    <3>1. Len(<<>>) = 0
      OBVIOUS
    <3>2. QED
      BY <1>1, <2>1, <2>3, <3>1 DEF DoneInv, InTime, NoEnd, NoDone, Settled, Joins
  <2>5. FreshInv'
    BY <1>1, <2>1, <2>3 DEF FreshInv, InTime, NoFrame, Settled
  <2>6. QED
    BY <2>2, <2>4, <2>5 DEF HandoverInv
<1>5. QED
  BY <1>2, <1>3, <1>4

\* The receiver: a frame cannot be overtaken by the PLAY_DONE behind it.
LEMMA ReceiverKeepsHandover ==
    ASSUME HandoverInv, ReceiverStep PROVE HandoverInv'
<1>1. UNCHANGED <<day, phase, captures, plays, c2s, spc, kpc, playing, capturing>>
  BY DEF ReceiverStep, ReceiveData, CallbackReturns, ReceiveDone, ReceiveEof, SameDay, voice,
         process, server, capture
<1>2. \E S : s2c \in Seq(S)
  BY DEF HandoverInv, LossInv
<1>3. ASSUME s2c # <<>>, s2c' = Tail(s2c)
      PROVE  /\ \E S : s2c' \in Seq(S)
             /\ Len(s2c) \in Nat \ {0} /\ Len(s2c') = Len(s2c) - 1 /\ Head(s2c) = s2c[1]
             /\ \A k \in 1 .. Len(s2c) - 1 : s2c'[k] = s2c[k + 1]
             /\ Len(s2c) = 1 => s2c' = <<>>
  BY <1>2, <1>3, TailFacts
<1>4. CASE ReceiveData
  <2>1. /\ s2c # <<>> /\ s2c' = Tail(s2c) /\ Head(s2c).type = "AUDIO_DATA"
        /\ UNCHANGED <<cpc, ack, connected, doneOf, recorded>> /\ rpc = NoFrame
        /\ \/ rpc' = [frame |-> Head(s2c).arg, append |-> phase = "listen"]
           \/ rpc' = NoFrame
    BY <1>4 DEF ReceiveData, voice, sync
  <2>2. PICK last \in Nat : Len(s2c) = last + 1 /\ Len(s2c') = last
    <3>1. Len(s2c) - 1 \in Nat /\ Len(s2c) = Len(s2c) - 1 + 1
      BY <1>3, <2>1
    <3>2. QED
      BY <1>3, <2>1, <3>1
  <2>3. /\ Head(s2c) = s2c[1] /\ \A k \in 1 .. last : s2c'[k] = s2c[k + 1]
        /\ \A k \in 1 .. last : k + 1 \in 1 .. last + 1
        /\ \A k \in 1 .. last - 1 : k + 1 \in 1 .. last
    BY <1>3, <2>1, <2>2
  <2>4. LossInv'
    BY <1>1, <1>3, <2>1 DEF HandoverInv, LossInv
  <2>5. NoDone(last + 1) => NoDone(last)'
    BY <2>3 DEF NoDone
  <2>6. DoneInv'
    <3>1. Reported => Reported'
      <4> SUFFICES ASSUME Reported PROVE Reported'
        OBVIOUS
      <4>1. last > 0 /\ s2c'[last] = s2c[last + 1] /\ NoDone(last)
        <5>1. s2c[last + 1].type = "PLAY_DONE" /\ last + 1 - 1 = last
          BY <2>2 DEF Reported
        <5>2. last # 0
          BY <2>1, <2>3, <5>1
        <5>3. last > 0 /\ last \in 1 .. last
          BY <2>2, <5>2
        <5>4. NoDone(last)
          BY <2>2, <5>1 DEF Reported
        <5>5. QED
          BY <2>3, <5>3, <5>4
      <4>2. NoDone(last - 1)'
        BY <2>2, <2>3, <4>1 DEF NoDone
      <4>3. QED
        BY <1>1, <2>1, <2>2, <4>1, <4>2 DEF Reported, Settled
    <3>2. QED
      BY <1>1, <2>1, <2>2, <2>5, <3>1
         DEF HandoverInv, DoneInv, InTime, Asked, Ending, HeardOf, Lost, NoEnd
  <2>7. FreshInv'
    <3> SUFFICES ASSUME InTime, phase = "listen" PROVE FreshInv'
      BY <1>1 DEF FreshInv, InTime
    <3>1. cpc \in {"recording", "exit"} /\ s2c[1].arg = captures
      <4>1. 1 \in 1 .. Len(s2c)
        BY <2>2
      <4>2. QED
        BY <2>1, <2>3, <4>1 DEF HandoverInv, FreshInv
    <3>2. rpc'.append => rpc'.frame = captures
      BY <2>1, <2>3, <3>1 DEF NoFrame
    <3>3. \A k \in 1 .. last : s2c'[k].type = "AUDIO_DATA" => s2c'[k].arg = captures
      BY <2>2, <2>3 DEF HandoverInv, FreshInv
    <3>4. QED
      BY <1>1, <2>1, <2>2, <3>1, <3>2, <3>3 DEF HandoverInv, FreshInv
  <2>8. QED
    BY <2>4, <2>6, <2>7 DEF HandoverInv
<1>5. CASE CallbackReturns
  <2>1. /\ rpc # NoFrame /\ rpc' = NoFrame /\ UNCHANGED <<cpc, ack, connected, doneOf, s2c>>
        /\ recorded' = IF rpc.append THEN recorded \cup {rpc.frame} ELSE recorded
    BY <1>5 DEF CallbackReturns, voice, sync
  <2>2. QED
    BY <1>1, <2>1
       DEF HandoverInv, LossInv, DoneInv, FreshInv, InTime, Asked, Ending, Reported, HeardOf,
           Lost, Settled, NoEnd, NoDone, NoFrame
<1>6. CASE ReceiveDone
  <2>1. /\ s2c # <<>> /\ s2c' = Tail(s2c) /\ Head(s2c).type = "PLAY_DONE" /\ rpc = NoFrame
        /\ UNCHANGED <<connected, recorded, rpc>> /\ ack' = TRUE /\ doneOf' = Head(s2c).arg
        /\ cpc' = IF cpc = "asleep" THEN "wait" ELSE cpc
    BY <1>6 DEF ReceiveDone, receiver
  <2>2. PICK last \in Nat : Len(s2c) = last + 1 /\ Len(s2c') = last
    <3>1. Len(s2c) - 1 \in Nat /\ Len(s2c) = Len(s2c) - 1 + 1
      BY <1>3, <2>1
    <3>2. QED
      BY <1>3, <2>1, <3>1
  <2>3. /\ Head(s2c) = s2c[1] /\ \A k \in 1 .. last : s2c'[k] = s2c[k + 1]
        /\ \A k \in 1 .. last : k + 1 \in 1 .. last + 1
        /\ 1 \in 1 .. last + 1 /\ (last # 0 => 1 \in 1 .. last)
    BY <1>3, <2>1, <2>2
  <2>4. LossInv'
    BY <1>1, <1>3, <2>1 DEF HandoverInv, LossInv
  <2>5. ~NoDone(Len(s2c))
    BY <2>1, <2>2, <2>3 DEF NoDone
  <2>6. DoneInv'
    <3> SUFFICES ASSUME InTime, cpc # "exit" PROVE DoneInv'
      BY <1>1, <2>1 DEF DoneInv, InTime
    <3>1. cpc \in {"wait", "asleep"}
      BY <2>1, <2>5 DEF HandoverInv, DoneInv, LossInv
    <3>2. Reported
      BY <2>1, <2>5, <3>1 DEF HandoverInv, DoneInv, Asked, Ending, HeardOf, Lost
    <3>3. last = 0
      <4>1. NoDone(last)
        <5>1. Len(s2c) - 1 = last
          BY <2>2
        <5>2. QED
          BY <3>2, <5>1 DEF Reported
      <4>2. QED
        BY <2>1, <2>3, <4>1 DEF NoDone
    <3>4. s2c' = <<>> /\ doneOf' = plays
      BY <1>3, <2>1, <2>2, <2>3, <3>2, <3>3 DEF Reported
    <3>5. HeardOf'
      BY <1>1, <2>1, <3>2, <3>4 DEF HeardOf, Reported, Settled
    <3>6. cpc' = "wait"
      BY <2>1, <3>1
    <3>7. QED
      BY <3>5, <3>6 DEF DoneInv
  <2>7. FreshInv'
    <3> SUFFICES ASSUME InTime, phase = "listen" PROVE FreshInv'
      BY <1>1 DEF FreshInv, InTime
    <3>1. cpc \in {"recording", "exit"} /\ cpc' = cpc
      BY <2>1 DEF HandoverInv, FreshInv
    <3>2. \A k \in 1 .. last : s2c'[k].type = "AUDIO_DATA" => s2c'[k].arg = captures
      BY <2>2, <2>3 DEF HandoverInv, FreshInv
    <3>3. QED
      BY <1>1, <2>1, <2>2, <3>1, <3>2 DEF HandoverInv, FreshInv
  <2>8. QED
    BY <2>4, <2>6, <2>7 DEF HandoverInv
<1>7. CASE ReceiveEof
  <2>1. /\ rpc = NoFrame /\ s2c = <<>> /\ spc = "dead" /\ connected' = FALSE
        /\ UNCHANGED <<cpc, ack, doneOf, s2c, rpc, recorded>>
    BY <1>7 DEF ReceiveEof, voice, receiver
  <2>2. QED
    BY <1>1, <2>1
       DEF HandoverInv, LossInv, DoneInv, FreshInv, InTime, Asked, Ending, Reported, HeardOf,
           Lost, Settled, NoEnd, NoDone
<1>8. QED
  BY <1>4, <1>5, <1>6, <1>7 DEF ReceiverStep

------------------------------------------------------------------------------
\* The server takes a command that ends no play.
LEMMA TakeKeepsHandover ==
    ASSUME HandoverInv, OnRecordStart \/ OnRecordStop \/ OnPlayStart \/ OnPlayData, day' = day
    PROVE  HandoverInv'
<1>1. /\ UNCHANGED <<cpc, phase, captures, plays, rpc, recorded, ack, connected, doneOf, s2c>>
      /\ spc = "read" /\ c2s # <<>> /\ c2s' = Tail(c2s) /\ spc' \notin Joins \cup {"dead"}
      /\ Head(c2s).type \notin EndsPlay
      /\ \/ kpc' = kpc /\ capturing' = capturing
         \/ capturing' = Head(c2s).arg /\ Head(c2s).type = "RECORD_START"
  BY DEF OnRecordStart, OnRecordStop, OnPlayStart, OnPlayData, Command, voice, receiver, sync,
         server, capture, Joins, EndsPlay
<1>2. /\ \E S : c2s' \in Seq(S)
      /\ Len(c2s) \in Nat \ {0} /\ Len(c2s') = Len(c2s) - 1 /\ Head(c2s) = c2s[1]
      /\ \A k \in 1 .. Len(c2s) - 1 : c2s'[k] = c2s[k + 1]
  <2>1. \E S : c2s \in Seq(S)
    BY DEF HandoverInv, LossInv
  <2>2. QED
    BY <1>1, <2>1, TailFacts
<1>3. PICK last \in Nat : Len(c2s) = last + 1 /\ Len(c2s') = last
  <2>1. Len(c2s) - 1 \in Nat /\ Len(c2s) = Len(c2s) - 1 + 1
    BY <1>2
  <2>2. QED
    BY <1>2, <2>1
<1>4. /\ \A k \in 1 .. last : c2s'[k] = c2s[k + 1] /\ k + 1 \in 1 .. last + 1
      /\ \A k \in 1 .. last - 1 : k + 1 \in 1 .. last
      /\ 1 \in 1 .. last + 1
  BY <1>2, <1>3
<1>5. LossInv'
  BY <1>1, <1>2 DEF HandoverInv, LossInv
<1>6. DoneInv'
  <2> SUFFICES ASSUME InTime PROVE DoneInv'
    BY DEF DoneInv, InTime
  <2>1. ASSUME cpc \in {"wait", "asleep"} PROVE Asked'
    <3>1. Asked
      BY <1>1, <2>1 DEF HandoverInv, DoneInv, Ending, Reported, HeardOf, Lost, Settled, Joins
    <3>2. last # 0
      BY <1>1, <1>2, <1>3, <3>1 DEF Asked
    <3>3. last \in 1 .. last /\ last > 0 /\ last + 1 - 1 = last
      BY <1>3, <3>2
    <3>4. NoEnd(last)
      BY <1>3, <3>1, <3>3 DEF Asked
    <3>5. NoEnd(last - 1)'
      BY <1>4, <3>4, <1>3 DEF NoEnd
    <3>6. c2s'[last] = c2s[last + 1]
      BY <1>4, <3>3
    <3>7. QED
      BY <1>1, <1>3, <3>1, <3>3, <3>5, <3>6 DEF Asked, NoDone
  <2>2. ASSUME NoEnd(Len(c2s)) PROVE NoEnd(Len(c2s))'
    BY <1>3, <1>4, <2>2 DEF NoEnd
  <2>3. QED
    BY <1>1, <2>1, <2>2 DEF HandoverInv, DoneInv, NoDone
<1>7. FreshInv'
  <2> SUFFICES ASSUME InTime, phase = "listen" PROVE FreshInv'
    BY <1>1 DEF FreshInv, InTime
  <2>1. cpc \in {"recording", "exit"}
    BY <1>1 DEF HandoverInv, FreshInv, Settled
  <2>2. kpc' # "none" => capturing' = captures
    BY <1>1, <1>2, <1>3, <1>4 DEF HandoverInv, FreshInv
  <2>3. \A k \in 1 .. last : c2s'[k].type = "RECORD_START" => c2s'[k].arg = captures
    BY <1>3, <1>4 DEF HandoverInv, FreshInv
  <2>4. QED
    BY <1>1, <1>3, <2>1, <2>2, <2>3 DEF HandoverInv, FreshInv
<1>8. QED
  BY <1>5, <1>6, <1>7 DEF HandoverInv

\* It takes the command the voice thread waits for: there is none other, and the play
\* that is going on is the one it names.
LEMMA EndKeepsHandover ==
    ASSUME SoundInv, HandoverInv, OnPlayStop \/ OnPlayFlush, day' = day PROVE HandoverInv'
<1>1. /\ UNCHANGED <<cpc, phase, captures, plays, rpc, recorded, ack, connected, doneOf, s2c>>
      /\ spc = "read" /\ c2s # <<>> /\ c2s' = Tail(c2s) /\ spc' \in Joins
      /\ Head(c2s).type \in EndsPlay
      /\ UNCHANGED <<kpc, capturing, playing>>
  BY DEF OnPlayStop, OnPlayFlush, Command, voice, receiver, sync, capture, Joins, EndsPlay
<1>2. /\ \E S : c2s' \in Seq(S)
      /\ Len(c2s) \in Nat \ {0} /\ Len(c2s') = Len(c2s) - 1 /\ Head(c2s) = c2s[1]
      /\ \A k \in 1 .. Len(c2s) - 1 : c2s'[k] = c2s[k + 1]
      /\ Len(c2s) = 1 => c2s' = <<>>
  <2>1. \E S : c2s \in Seq(S)
    BY DEF HandoverInv, LossInv
  <2>2. QED
    BY <1>1, <2>1, TailFacts
<1>3. LossInv'
  BY <1>1, <1>2 DEF HandoverInv, LossInv, Joins
<1>4. ~NoEnd(Len(c2s)) /\ 1 \in 1 .. Len(c2s)
  BY <1>1, <1>2 DEF NoEnd
<1>5. DoneInv'
  <2> SUFFICES ASSUME InTime, cpc # "exit" PROVE DoneInv'
    BY <1>1 DEF DoneInv, InTime
  <2>1. cpc \in {"wait", "asleep"}
    BY <1>1, <1>4 DEF HandoverInv, DoneInv, LossInv
  <2>2. Asked
    BY <1>1, <2>1 DEF HandoverInv, DoneInv, Ending, Reported, HeardOf, Lost, Settled, Joins
  <2>3. Len(c2s) = 1
    <3>1. NoEnd(Len(c2s) - 1)
      BY <2>2 DEF Asked
    <3>2. Len(c2s) # 1 => 1 \in 1 .. Len(c2s) - 1
      BY <1>2
    <3>3. QED
      BY <1>1, <1>2, <3>1, <3>2 DEF NoEnd
  <2>4. playing = plays
    <3>1. c2s[1].arg = Position(1 - 1)[1]
      BY <1>1, <1>2, <1>4 DEF SoundInv, StreamInv
    <3>2. Position(1 - 1)[1] = playing
      BY DEF Position
    <3>3. QED
      BY <2>2, <2>3, <3>1, <3>2 DEF Asked
  <2>5. Ending'
    BY <1>1, <1>2, <2>2, <2>3, <2>4 DEF Ending, Asked, NoDone
  <2>6. QED
    BY <1>1, <2>1, <2>5 DEF DoneInv
<1>6. FreshInv'
  <2> SUFFICES ASSUME InTime, phase = "listen" PROVE FreshInv'
    BY <1>1 DEF FreshInv, InTime
  <2>1. cpc \in {"recording", "exit"}
    BY <1>1 DEF HandoverInv, FreshInv, Settled
  <2>2. \A k \in 1 .. Len(c2s') : k + 1 \in 1 .. Len(c2s) /\ c2s'[k] = c2s[k + 1]
    BY <1>2
  <2>3. \A k \in 1 .. Len(c2s') : c2s'[k].type = "RECORD_START" => c2s'[k].arg = captures
    BY <2>2 DEF HandoverInv, FreshInv
  <2>4. QED
    BY <1>1, <2>1, <2>3 DEF HandoverInv, FreshInv
<1>7. QED
  BY <1>3, <1>5, <1>6 DEF HandoverInv

\* It reports, after the capture thread has gone.
LEMMA ReportKeepsHandover ==
    ASSUME SoundInv, HandoverInv, PlaybackJoined, day' = day PROVE HandoverInv'
<1>1. /\ UNCHANGED <<cpc, phase, captures, plays, rpc, recorded, ack, connected, doneOf, c2s>>
      /\ spc \in Joins /\ spc' = "read" /\ UNCHANGED <<kpc, capturing, playing>>
      /\ s2c' = Append(s2c, [type |-> "PLAY_DONE", arg |-> playing])
      /\ kpc = "none"
  BY DEF PlaybackJoined, voice, receiver, sync, capture, Joins, SoundInv, DuplexInv, ThreadsInv
<1> DEFINE m == [type |-> "PLAY_DONE", arg |-> playing]
<1>2. /\ \E S : s2c' \in Seq(S)
      /\ Len(s2c) \in Nat /\ Len(s2c') = Len(s2c) + 1
      /\ \A k \in 1 .. Len(s2c) : s2c'[k] = s2c[k]
      /\ s2c'[Len(s2c) + 1].type = "PLAY_DONE" /\ s2c'[Len(s2c) + 1].arg = playing
  <2>1. s2c' = Append(s2c, m) /\ m.type = "PLAY_DONE" /\ m.arg = playing
    BY <1>1
  <2> HIDE DEF m
  <2>2. /\ \E S : Append(s2c, m) \in Seq(S)
        /\ Len(s2c) \in Nat /\ Len(Append(s2c, m)) = Len(s2c) + 1
        /\ \A k \in 1 .. Len(s2c) : Append(s2c, m)[k] = s2c[k]
        /\ Append(s2c, m)[Len(s2c) + 1] = m
    <3>1. \E S : s2c \in Seq(S)
      BY DEF HandoverInv, LossInv
    <3>2. QED
      BY <3>1, AppendFacts
  <2>3. QED
    BY <2>1, <2>2
<1>3. LossInv'
  BY <1>1, <1>2 DEF HandoverInv, LossInv, Joins
<1>4. DoneInv'
  <2> SUFFICES ASSUME InTime, cpc # "exit" PROVE DoneInv'
    BY <1>1 DEF DoneInv, InTime
  <2>1. cpc \in {"wait", "asleep"}
    BY <1>1 DEF HandoverInv, DoneInv, LossInv, Joins
  <2>2. Ending
    BY <1>1, <2>1 DEF HandoverInv, DoneInv, Asked, Reported, HeardOf, Lost, Settled, Joins
  <2>3. Len(s2c') - 1 = Len(s2c) /\ Len(s2c') > 0
    BY <1>2
  <2>4. NoDone(Len(s2c) - 1)'
    BY <1>2, <2>2, <2>3 DEF Ending, NoDone
  <2>5. Reported'
    BY <1>1, <1>2, <2>2, <2>3, <2>4 DEF Reported, Ending, Settled
  <2>6. QED
    BY <1>1, <2>1, <2>5 DEF DoneInv
<1>5. FreshInv'
  <2> SUFFICES ASSUME InTime, phase = "listen" PROVE FreshInv'
    BY <1>1 DEF FreshInv, InTime
  <2>1. cpc \in {"recording", "exit"}
    BY <1>1 DEF HandoverInv, FreshInv, Settled, Joins
  <2>2. \A k \in 1 .. Len(s2c') : k \in 1 .. Len(s2c) \/ k = Len(s2c) + 1
    BY <1>2
  <2>3. \A k \in 1 .. Len(s2c') : s2c'[k].type = "AUDIO_DATA" => s2c'[k].arg = captures
    BY <1>2, <2>2 DEF HandoverInv, FreshInv
  <2>4. QED
    BY <1>1, <2>1, <2>3 DEF HandoverInv, FreshInv
<1>6. QED
  BY <1>3, <1>4, <1>5 DEF HandoverInv

\* A frame is sent while the capture thread lives, behind what was sent before.
LEMMA FrameKeepsHandover ==
    ASSUME HandoverInv, kpc = "frame", kpc' = "loop", day' = day,
           s2c' = Append(s2c, [type |-> "AUDIO_DATA", arg |-> capturing]),
           UNCHANGED <<voice, receiver, sync, c2s, server>>
    PROVE  HandoverInv'
<1>1. UNCHANGED <<cpc, phase, captures, plays, rpc, recorded, ack, connected, doneOf, spc,
                  capturing, playing>>
  BY DEF voice, receiver, sync, server
<1> DEFINE m == [type |-> "AUDIO_DATA", arg |-> capturing]
<1>2. /\ \E S : s2c' \in Seq(S)
      /\ Len(s2c) \in Nat /\ Len(s2c') = Len(s2c) + 1
      /\ \A k \in 1 .. Len(s2c) : s2c'[k] = s2c[k]
      /\ s2c'[Len(s2c) + 1].type = "AUDIO_DATA" /\ s2c'[Len(s2c) + 1].arg = capturing
  <2>1. s2c' = Append(s2c, m) /\ m.type = "AUDIO_DATA" /\ m.arg = capturing
    OBVIOUS
  <2> HIDE DEF m
  <2>2. /\ \E S : Append(s2c, m) \in Seq(S)
        /\ Len(s2c) \in Nat /\ Len(Append(s2c, m)) = Len(s2c) + 1
        /\ \A k \in 1 .. Len(s2c) : Append(s2c, m)[k] = s2c[k]
        /\ Append(s2c, m)[Len(s2c) + 1] = m
    <3>1. \E S : s2c \in Seq(S)
      BY DEF HandoverInv, LossInv
    <3>2. QED
      BY <3>1, AppendFacts
  <2>3. QED
    BY <2>1, <2>2
<1>3. \A k \in 1 .. Len(s2c') : k \in 1 .. Len(s2c) \/ k = Len(s2c) + 1
  BY <1>2
<1>4. LossInv'
  BY <1>1, <1>2 DEF HandoverInv, LossInv
<1>5. NoDone(Len(s2c)) => NoDone(Len(s2c))'
  BY <1>2, <1>3 DEF NoDone
<1>6. DoneInv'
  BY <1>1, <1>5 DEF HandoverInv, DoneInv, InTime, Asked, Ending, Reported, HeardOf, Lost,
                    Settled, NoEnd
<1>7. FreshInv'
  <2> SUFFICES ASSUME InTime, phase = "listen" PROVE FreshInv'
    BY <1>1 DEF FreshInv, InTime
  <2>1. cpc \in {"recording", "exit"} /\ capturing = captures
    BY <1>1 DEF HandoverInv, FreshInv, Settled
  <2>2. \A k \in 1 .. Len(s2c') : s2c'[k].type = "AUDIO_DATA" => s2c'[k].arg = captures
    BY <1>2, <1>3, <2>1 DEF HandoverInv, FreshInv
  <2>3. QED
    BY <1>1, <2>1, <2>2 DEF HandoverInv, FreshInv
<1>8. QED
  BY <1>4, <1>6, <1>7 DEF HandoverInv

\* Steps of the server's threads that send and take nothing.
LEMMA SilentKeepsHandover ==
    ASSUME HandoverInv, UNCHANGED <<voice, receiver, sync, c2s, s2c, capturing, playing>>,
           day' = day, spc' = spc \/ (spc \in {"write", "joinCapture"} /\ spc' = "read"),
           kpc' = kpc \/ (kpc # "none" /\ spc # "dead")
    PROVE  HandoverInv'
<1>1. UNCHANGED <<cpc, phase, captures, plays, rpc, recorded, ack, connected, doneOf>>
  BY DEF voice, receiver, sync
<1>2. LossInv'
  BY <1>1 DEF HandoverInv, LossInv
<1>3. DoneInv'
  BY <1>1 DEF HandoverInv, DoneInv, InTime, Asked, Ending, Reported, HeardOf, Lost, Settled,
              NoEnd, NoDone, Joins
<1>4. FreshInv'
  BY <1>1 DEF HandoverInv, FreshInv, InTime, Settled
<1>5. QED
  BY <1>2, <1>3, <1>4 DEF HandoverInv

\* The server dies: what it has sent may still be read.
LEMMA CrashKeepsHandover == ASSUME HandoverInv, Crash, day' = day PROVE HandoverInv'
<1>1. /\ UNCHANGED <<cpc, phase, captures, plays, rpc, recorded, ack, connected, doneOf, s2c,
                     capturing, playing>>
      /\ spc # "dead" /\ spc' = "dead" /\ kpc' = "none"
      /\ c2s' = <<>> /\ c2s' \in Seq({}) /\ Len(c2s') = 0
  BY DEF Crash, voice, receiver, sync
<1>2. LossInv'
  BY <1>1 DEF HandoverInv, LossInv
<1>3. DoneInv'
  BY <1>1 DEF HandoverInv, DoneInv, InTime, Asked, Ending, Reported, HeardOf, Lost, Settled,
              NoEnd, NoDone, Joins
<1>4. FreshInv'
  BY <1>1 DEF HandoverInv, FreshInv, InTime, Settled
<1>5. QED
  BY <1>2, <1>3, <1>4 DEF HandoverInv

LEMMA NextHandover == SoundInv /\ HandoverInv /\ [Next]_vars => HandoverInv'
<1> SUFFICES ASSUME SoundInv, HandoverInv, [Next]_vars PROVE HandoverInv'
  OBVIOUS
<1>1. CASE SameDay /\ (RecordStart \/ RecordStop)
  BY <1>1, SendKeepsHandover DEF SameDay
<1>2. CASE PlayStep
  BY <1>2, SendKeepsHandover, WaitKeepsHandover DEF PlayStep, SameDay
<1>3. CASE ReceiverStep
  BY <1>3, ReceiverKeepsHandover
<1>4. CASE ServerStep
  <2>1. CASE CaptureJoined
    <3>1. /\ UNCHANGED <<voice, receiver, sync, c2s, s2c, capturing, playing>>
          /\ spc = "joinCapture" /\ spc' = "read" /\ kpc # "none"
      BY <2>1 DEF CaptureJoined
    <3>2. QED
      BY <1>4, <3>1, SilentKeepsHandover DEF ServerStep, SameDay
  <2>2. CASE RingWrite
    <3>1. /\ UNCHANGED <<voice, receiver, sync, c2s, s2c, capturing, playing, kpc>>
          /\ spc = "write" /\ spc' = "read"
      BY <2>2 DEF RingWrite, capture
    <3>2. QED
      BY <1>4, <3>1, SilentKeepsHandover DEF ServerStep, SameDay
  <2>3. QED
    BY <1>4, <2>1, <2>2, TakeKeepsHandover, EndKeepsHandover, ReportKeepsHandover
       DEF ServerStep, SameDay
<1>5. CASE CaptureStep
  <2>1. day' = day
    BY <1>5 DEF CaptureStep, SameDay
  <2>2. CASE kpc = "frame"
    <3>1. /\ kpc' = "loop" /\ UNCHANGED <<voice, receiver, sync, c2s, server>>
          /\ s2c' = Append(s2c, [type |-> "AUDIO_DATA", arg |-> capturing])
      BY <1>5, <2>2 DEF CaptureStep, CaptureOpens, CaptureFrame, CaptureEnds
    <3>2. QED
      BY <2>1, <2>2, <3>1, FrameKeepsHandover
  <2>3. CASE kpc # "frame"
    <3>1. UNCHANGED <<voice, receiver, sync, c2s, s2c, server>> /\ kpc # "none"
      BY <1>5, <2>3 DEF CaptureStep, CaptureOpens, CaptureFrame, CaptureEnds
    <3>2. spc # "dead"
      BY <3>1 DEF HandoverInv, LossInv
    <3>3. QED
      BY <2>1, <3>1, <3>2, SilentKeepsHandover DEF server
  <2>4. QED
    BY <2>2, <2>3
<1>6. CASE PlaybackStep
  <2>1. UNCHANGED <<voice, receiver, sync, c2s, s2c, server, kpc, day>>
    BY <1>6 DEF PlaybackStep, PlaybackOpens, RingRead, PlayChunk, NothingToPlay, PlaybackEnds,
                SameDay, capture
  <2>2. QED
    BY <2>1, SilentKeepsHandover DEF server
<1>7. CASE SameDay /\ Crash
  BY <1>7, CrashKeepsHandover DEF SameDay
<1>8. CASE Rest \/ UNCHANGED vars
  <2>1. UNCHANGED <<voice, receiver, sync, c2s, s2c, server, kpc, day>>
    BY <1>8 DEF Rest, vars, process, capture
  <2>2. QED
    BY <2>1, SilentKeepsHandover DEF server
<1>9. QED
  BY <1>1, <1>2, <1>3, <1>4, <1>5, <1>6, <1>7, <1>8 DEF Next

\* The two invariants hold always.
THEOREM AudioInvariant == Spec => [](SoundInv /\ HandoverInv)
<1>1. Init => SoundInv /\ HandoverInv
  BY InitDuplex, InitSound, InitHandover DEF SoundInv
<1>2. QED
  BY <1>1, NextSound, NextHandover, PTL DEF Spec

\* Sound stays in order in both directions, for any sizes of the ring and of the socket:
\* the device is offered the current prompt or answer from its beginning, each chunk once
\* and none left out, so that what is heard of it misses the chunks the device refused and
\* no others (a process that dies ends it early), and the question's buffer holds frames of
\* the recording made for it, unless a wait times out.
THEOREM AudioSoundIntact == Spec => []SoundIntact
<1>1. SoundInv /\ HandoverInv => SoundIntact
  BY DEF SoundInv, DataInv, HandoverInv, FreshInv, InTime, SoundIntact, RecordingFresh
<1>2. QED
  BY <1>1, AudioInvariant, PTL

\* A wait for the end of a play is ended by that play's PLAY_DONE: as long as no wait times
\* out there is one PLAY_DONE or command for one at a time, on its way through both
\* processes, and the flag is cleared before it is sent.
THEOREM AudioAckIsOwn == Spec => AckIsOwn
<1>1. HandoverInv /\ [Next]_vars
        => [AckReturn /\ ack /\ "timeout" \notin day.faults => doneOf = plays]_vars
  <2> SUFFICES ASSUME HandoverInv, AckReturn, ack, "timeout" \notin day.faults
               PROVE  doneOf = plays
    OBVIOUS
  <2>1. Asked \/ Ending \/ Reported \/ HeardOf \/ Lost
    BY DEF HandoverInv, DoneInv, InTime, AckReturn
  <2>2. QED
    BY <2>1 DEF Asked, Ending, Reported, HeardOf, Lost
<1>2. QED
  BY <1>1, AudioInvariant, PTL DEF Spec, AckIsOwn

------------------------------------------------------------------------------
\* What the loss that AudioDrain's run finds rests on.  Nothing goes wrong but that the
\* process may die:
Calm == day.faults \subseteq {"crash"}

\* While the voice thread waits, what it has sent ends where the stream does, and where
\* the server is when it is told to drain.
SentInv ==
    /\ cpc = "exit" => spc = "dead"
    /\ InTime /\ cpc \in {"wait", "asleep"} /\ spc # "dead" =>
         /\ c2s # <<>> => Position(Len(c2s) - 1) = <<plays, sent>>
         /\ spc = "joinDrain" => Position(0) = <<plays, sent>>

\* Where devices work the playback thread runs until it is told to end; and one that is
\* told to drain has found the ring empty after the last chunk was put into it.
Works == "device" \notin day.faults
ReaderInv == Works =>
    /\ draining => spc \in {"joinDrain", "dead"}
    /\ spc = "joinDrain" => pRunning /\ draining /\ ppc # "none"
    /\ pRunning /\ spc \in {"read", "write"} => ppc \in {"opening", "loop", "empty", "play"}
EmptyInv ==
    Works /\ spc = "joinDrain" /\ ppc \in {"empty", "closing", "ended"} => rd = wr

LEMMA InitDrain == Init => SentInv /\ ReaderInv /\ EmptyInv
BY DEF Init, SentInv, ReaderInv, EmptyInv

\* The place before the end of the play that is waited for, with the stream as it is or a
\* command taken that is not the last.
LEMMA EndKeepsPlace ==
    ASSUME TurnsInv, TurnsInv', c2s # <<>>, c2s[Len(c2s)].type \in EndsPlay, spc' # "dead",
           \/ c2s' = c2s /\ (Position(0)' = Position(0) \/ Server' # "play")
           \/ /\ c2s' = Tail(c2s) /\ c2s' # <<>>
              /\ Position(0)' = Position(1) \/ Server' # "play"
    PROVE  Position(Len(c2s) - 1)' = Position(Len(c2s) - 1)
<1>1. \E S : c2s \in Seq(S)
  BY DEF TurnsInv
<1>2. PICK last \in Nat : last = Len(c2s')
  BY NothingPlays, <1>1, TailFacts DEF TurnsInv
<1>3. CASE c2s' = c2s /\ (Position(0)' = Position(0) \/ Server' # "play")
  <2>1. last > 0 /\ c2s'[last].type \in EndsPlay
    BY <1>1, <1>2, <1>3, TailFacts
  <2>2. CASE last = 1
    <3>1. Server' = "play"
      BY <1>2, <2>1, <2>2, NothingPlays
    <3>2. last - 1 = 0
      BY <2>2
    <3>3. QED
      BY <1>2, <1>3, <3>1, <3>2
  <2>3. CASE last > 1
    <3> DEFINE n == last - 1
    <3>1. n \in 1 .. last
      BY <1>2, <2>3
    <3>2. Position(n)' = Position(n)
      BY <1>2, <1>3, <3>1 DEF Position
    <3>3. QED
      BY <1>2, <1>3, <3>2
  <2>4. QED
    BY <1>2, <2>1, <2>2, <2>3
<1>4. CASE /\ c2s' = Tail(c2s) /\ c2s' # <<>>
           /\ Position(0)' = Position(1) \/ Server' # "play"
  <2>1. /\ Len(c2s) = last + 1 /\ last > 0 /\ c2s'[last].type \in EndsPlay
        /\ \A k \in 1 .. last : c2s'[k] = c2s[k + 1]
    <3>1. /\ \E S : c2s' \in Seq(S)
          /\ Len(c2s) \in Nat /\ last = Len(c2s) - 1
          /\ \A k \in 1 .. Len(c2s) - 1 : c2s'[k] = c2s[k + 1]
      BY <1>1, <1>2, <1>4, TailFacts
    <3>2. Len(c2s') \in Nat \ {0}
      BY <1>4, <3>1, TailFacts
    <3>3. Len(c2s) = last + 1 /\ last \in 1 .. last /\ \A k \in 1 .. last : c2s'[k] = c2s[k + 1]
      BY <1>2, <3>1, <3>2
    <3>4. QED
      BY <1>2, <3>3
  <2>2. CASE last = 1
    <3>1. Server' = "play"
      BY <1>2, <2>1, <2>2, NothingPlays
    <3>2. Len(c2s') - 1 = 0 /\ Len(c2s) - 1 = 1
      BY <1>2, <2>1, <2>2
    <3>3. QED
      BY <1>4, <3>1, <3>2
  <2>3. CASE last > 1
    <3> DEFINE n == last - 1
    <3>1. n \in 1 .. last /\ Len(c2s') - 1 = n /\ Len(c2s) - 1 = n + 1
      BY <1>2, <2>1, <2>3
    <3>2. c2s'[n] = c2s[n + 1] /\ n # 0 /\ n + 1 # 0
      BY <1>2, <2>1, <3>1
    <3> HIDE DEF n
    <3>3. Position(n)' = Position(n + 1)
      BY <3>2 DEF Position
    <3>4. QED
      BY <3>1, <3>3
  <2>4. QED
    BY <1>2, <2>1, <2>2, <2>3
<1>5. QED
  BY <1>3, <1>4

\* The voice thread.
LEMMA VoiceKeepsSent ==
    ASSUME SoundInv, HandoverInv, SentInv, RecordStart \/ RecordStop \/ PlayStep, day' = day
    PROVE  SentInv'
<1>1. TurnsInv /\ TurnsInv' /\ StreamInv /\ SoundInv' /\ LossInv /\ (InTime <=> InTime')
  BY VoiceKeepsSound DEF SoundInv, DuplexInv, HandoverInv, InTime
<1>2. UNCHANGED <<spc, chunk, playing, ring, rd, wr, flushing, ppc, hand, heard>>
  BY DEF PlayStep, RecordStart, RecordStop, PlayStart, PlayPcm, PlayEnd, AckSleep, AckReturn,
         AckTimeout, VoiceEnds, Played, process, server, ringVars, playback
<1>3. Position(0)' = Position(0)
  BY <1>2 DEF Position, Kept, Held, Ahead
<1>4. CASE PlayEnd
  <2>1. cpc' = "wait" /\ UNCHANGED <<plays, sent>> /\ spc # "dead" /\ cpc = "play" /\ connected
    BY <1>4 DEF PlayEnd, Send
  <2>2. PICK m : c2s' = Append(c2s, m)
    BY <1>4 DEF PlayEnd, Send
  <2>3. PICK last \in Nat : last = Len(c2s)
    BY <1>1, AppendFacts DEF LossInv
  <2>4. Len(c2s') = last + 1 /\ \A k \in 1 .. last : c2s'[k] = c2s[k]
    BY <1>1, <2>2, <2>3, AppendFacts DEF LossInv
  <2>5. Position(last)' = Position(last)
    <3>1. CASE last = 0
      BY <1>3, <3>1
    <3>2. CASE last > 0
      <4>1. c2s'[last] = c2s[last]
        BY <2>3, <2>4, <3>2
      <4>2. QED
        BY <3>2, <4>1 DEF Position
    <3>3. QED
      BY <2>3, <3>1, <3>2
  <2>6. Len(c2s') - 1 = last /\ Position(last) = <<plays, sent>>
    BY <1>1, <2>1, <2>3, <2>4 DEF StreamInv
  <2>7. InTime => spc \notin Joins
    BY <2>1 DEF HandoverInv, DoneInv
  <2>8. QED
    BY <1>1, <1>2, <2>1, <2>5, <2>6, <2>7 DEF SentInv, Joins
<1>5. CASE AckSleep
  <2>1. c2s' = c2s /\ cpc = "wait" /\ cpc' = "asleep" /\ UNCHANGED <<plays, sent>>
    BY <1>5 DEF AckSleep
  <2>2. Position(Len(c2s) - 1)' = Position(Len(c2s) - 1)
    BY <1>3, <2>1 DEF Position
  <2>3. QED
    BY <1>1, <1>2, <1>3, <2>1, <2>2 DEF SentInv
<1>6. CASE VoiceEnds
  <2>1. cpc' = "exit" /\ spc = "dead"
    BY <1>1, <1>6 DEF VoiceEnds, LossInv
  <2>2. QED
    BY <1>2, <2>1 DEF SentInv
<1>7. CASE RecordStart \/ RecordStop \/ PlayStart \/ PlayPcm \/ AckReturn \/ AckTimeout
  <2>1. cpc' \notin {"wait", "asleep", "exit"}
    BY <1>7 DEF RecordStart, RecordStop, PlayStart, PlayPcm, AckReturn, AckTimeout, Played
  <2>2. QED
    BY <2>1 DEF SentInv
<1>8. QED
  BY <1>4, <1>5, <1>6, <1>7 DEF PlayStep

\* The server's main thread.
LEMMA ServerKeepsSent ==
    ASSUME SoundInv, HandoverInv, SentInv, ServerStep PROVE SentInv'
<1>1. TurnsInv /\ TurnsInv' /\ LossInv /\ (InTime <=> InTime') /\ UNCHANGED <<cpc, plays, sent>>
  BY ServerKeeps
     DEF SoundInv, DuplexInv, HandoverInv, InTime, ServerStep, SameDay, OnRecordStart,
         OnRecordStop, CaptureJoined, OnPlayStart, OnPlayData, RingWrite, OnPlayStop,
         OnPlayFlush, PlaybackJoined, voice
<1>2. spc # "dead" /\ spc' # "dead"
  BY DEF ServerStep, OnRecordStart, OnRecordStop, CaptureJoined, OnPlayStart, OnPlayData,
         RingWrite, OnPlayStop, OnPlayFlush, PlaybackJoined, Command, server
<1> SUFFICES ASSUME InTime, cpc \in {"wait", "asleep"} PROVE SentInv'
  BY <1>1, <1>2 DEF SentInv
<1>3. (c2s # <<>> => Asked) /\ (spc \in Joins => c2s = <<>>)
  <2>1. Asked \/ Ending \/ Reported \/ HeardOf
    BY <1>2 DEF HandoverInv, DoneInv, Lost
  <2>2. QED
    BY <2>1 DEF Asked, Ending, Reported, HeardOf, Settled, Joins
<1>4. c2s' # <<>> => Position(Len(c2s) - 1)' = <<plays, sent>>
  <2> SUFFICES ASSUME c2s' # <<>> PROVE Position(Len(c2s) - 1)' = <<plays, sent>>
    OBVIOUS
  <2>1. c2s # <<>> /\ spc \notin Joins
    <3>1. c2s' = c2s \/ c2s # <<>>
      BY ServerMoves
    <3>2. QED
      BY <1>3, <3>1
  <2>2. c2s[Len(c2s)].type \in EndsPlay /\ Position(Len(c2s) - 1) = <<plays, sent>>
    BY <1>2, <1>3, <2>1 DEF Asked, SentInv
  <2>3. Position(Len(c2s) - 1)' = Position(Len(c2s) - 1)
    BY <1>1, <1>2, <2>1, <2>2, ServerMoves, EndKeepsPlace
  <2>4. QED
    BY <2>2, <2>3
<1>5. spc' = "joinDrain" => Position(0)' = <<plays, sent>>
  <2> SUFFICES ASSUME spc' = "joinDrain" PROVE Position(0)' = <<plays, sent>>
    OBVIOUS
  <2>1. OnPlayStop
    BY DEF ServerStep, OnRecordStart, OnRecordStop, CaptureJoined, OnPlayStart, OnPlayData,
           RingWrite, OnPlayStop, OnPlayFlush, PlaybackJoined, Command, server
  <2>2. /\ c2s # <<>> /\ Head(c2s).type \in EndsPlay /\ spc = "read"
        /\ UNCHANGED <<playing, rd, wr, ppc, heard>>
    BY <2>1 DEF OnPlayStop, Command, EndsPlay, ringVars
  <2>3. Len(c2s) = 1
    <3>1. PICK last \in Nat \ {0} : last = Len(c2s) /\ Head(c2s) = c2s[1]
      BY <1>1, <2>2, TailFacts DEF LossInv
    <3>2. NoEnd(last - 1)
      BY <1>3, <2>2, <3>1 DEF Asked
    <3>3. 1 \notin 1 .. (last - 1)
      BY <2>2, <3>1, <3>2 DEF NoEnd
    <3>4. last = 1
      BY <3>3
    <3>5. QED
      BY <3>1, <3>4
  <2>4. Position(0) = <<plays, sent>>
    <3>1. Len(c2s) - 1 = 0
      BY <2>3
    <3>2. QED
      BY <1>2, <2>2, <3>1 DEF SentInv
  <2>5. Position(0)' = Position(0)
    BY <2>2 DEF Position, Kept, Held, Ahead
  <2>6. QED
    BY <2>4, <2>5
<1>6. QED
  BY <1>1, <1>2, <1>4, <1>5 DEF SentInv

\* The others send nothing and leave the place as it is.
LEMMA OthersKeepSent ==
    ASSUME SentInv, c2s' = c2s, Position(0)' = Position(0), spc' = spc,
           UNCHANGED <<plays, sent, day>>,
           cpc' = cpc \/ (cpc = "asleep" /\ cpc' = "wait")
    PROVE  SentInv'
<1>1. Position(Len(c2s) - 1)' = Position(Len(c2s) - 1)
  BY DEF Position
<1>2. QED
  BY <1>1 DEF SentInv, InTime

LEMMA NextSent == SoundInv /\ HandoverInv /\ SentInv /\ [Next]_vars => SentInv'
<1> SUFFICES ASSUME SoundInv, HandoverInv, SentInv, [Next]_vars PROVE SentInv'
  OBVIOUS
<1>1. CASE SameDay /\ (RecordStart \/ RecordStop)
  BY <1>1, VoiceKeepsSent DEF SameDay
<1>2. CASE PlayStep
  BY <1>2, VoiceKeepsSent DEF SameDay, PlayStep
<1>3. CASE ServerStep
  BY <1>3, ServerKeepsSent
<1>4. CASE ReceiverStep
  <2>1. /\ UNCHANGED <<c2s, spc, plays, sent, day, chunk, playing, rd, wr, ppc, heard>>
        /\ cpc' = cpc \/ (cpc = "asleep" /\ cpc' = "wait")
    BY <1>4 DEF ReceiverStep, SameDay, ReceiveData, CallbackReturns, ReceiveDone, ReceiveEof,
                voice, process, server, ringVars, playback
  <2>2. Position(0)' = Position(0)
    BY <2>1 DEF Position, Kept, Held, Ahead
  <2>3. QED
    BY <2>1, <2>2, OthersKeepSent
<1>5. CASE CaptureStep \/ Rest \/ UNCHANGED vars
  <2>1. UNCHANGED <<cpc, c2s, spc, plays, sent, day, chunk, playing, rd, wr, ppc, heard>>
    BY <1>5 DEF CaptureStep, SameDay, CaptureOpens, CaptureFrame, CaptureEnds, Rest, vars,
                voice, process, server, ringVars, playback
  <2>2. Position(0)' = Position(0)
    BY <2>1 DEF Position, Kept, Held, Ahead
  <2>3. QED
    BY <2>1, <2>2, OthersKeepSent
<1>6. CASE PlaybackStep
  <2>1. UNCHANGED <<cpc, c2s, spc, plays, sent, day>>
    BY <1>6 DEF PlaybackStep, SameDay, PlaybackOpens, RingRead, PlayChunk, NothingToPlay,
                PlaybackEnds, voice, server
  <2>2. QED
    BY <1>6, <2>1, PlaybackKeepsPlace, OthersKeepSent
<1>7. CASE SameDay /\ Crash
  BY <1>7 DEF Crash, SentInv
<1>8. QED
  BY <1>1, <1>2, <1>3, <1>4, <1>5, <1>6, <1>7 DEF Next

\* The two threads that have to do with draining.  That the ring is empty takes that
\* PLAY_STOP does not come between the read that finds it so and the look at draining.
LEMMA NextDrain ==
    ASSUME SoundInv, ReaderInv, [Next]_vars
    PROVE  ReaderInv' /\ (EmptyInv /\ (OnPlayStop => ppc # "empty") => EmptyInv')
<1>1. TurnsInv /\ ThreadsInv /\ SoundType /\ (Works <=> Works')
  BY DEF SoundInv, DuplexInv, DataInv, Works, Next, PlayStep, ReceiverStep, ServerStep,
         CaptureStep, PlaybackStep, SameDay, Rest, vars
<1> DEFINE Goal == ReaderInv' /\ (EmptyInv /\ (OnPlayStop => ppc # "empty") => EmptyInv')
<1> SUFFICES ASSUME Works PROVE Goal
  BY <1>1 DEF ReaderInv, EmptyInv
<1>2. CASE \/ RecordStart \/ RecordStop \/ PlayStep \/ ReceiverStep \/ CaptureStep
           \/ Rest \/ UNCHANGED vars
  <2>1. UNCHANGED <<spc, pRunning, draining, ppc, rd, wr>>
    BY <1>2 DEF RecordStart, RecordStop, PlayStep, PlayStart, PlayPcm, PlayEnd, AckSleep,
                AckReturn, AckTimeout, VoiceEnds, Played, ReceiverStep, ReceiveData,
                CallbackReturns, ReceiveDone, ReceiveEof, CaptureStep, CaptureOpens,
                CaptureFrame, CaptureEnds, Rest, vars, process, server, ringVars, playback
  <2>2. QED
    BY <2>1 DEF ReaderInv, EmptyInv
<1>3. CASE OnRecordStart \/ OnRecordStop \/ CaptureJoined \/ OnPlayData \/ RingWrite
  <2>1. /\ UNCHANGED <<pRunning, draining, ppc>>
        /\ spc \in {"read", "write", "joinCapture"} /\ spc' \in {"read", "write", "joinCapture"}
        /\ spc = "joinCapture" => ~pRunning
    BY <1>1, <1>3 DEF OnRecordStart, OnRecordStop, CaptureJoined, OnPlayData, RingWrite,
                      Command, server, playback, ThreadsInv
  <2>2. QED
    BY <2>1 DEF ReaderInv, EmptyInv
<1>4. CASE OnPlayStart
  <2>1. Server = "quiet" /\ spc = "read" /\ spc' = "read"
    BY <1>1, <1>4, TakeFindsTurn DEF OnPlayStart, Command, Before
  <2>2. ~pRunning /\ ~kRunning /\ ppc = "none" /\ ~pActive /\ ~draining
    BY <1>1, <2>1 DEF Server, ThreadsInv, ReaderInv
  <2>3. ppc' = "opening" /\ draining' = FALSE
    BY <1>4, <2>2 DEF OnPlayStart
  <2>4. QED
    BY <2>1, <2>3 DEF ReaderInv, EmptyInv
<1>5. CASE OnPlayStop
  <2>1. Server = "play" /\ spc = "read" /\ spc' = "joinDrain"
    BY <1>1, <1>5, TakeFindsTurn DEF OnPlayStop, Command, Before
  <2>2. pRunning /\ ppc \in {"opening", "loop", "empty", "play"}
    BY <1>5, <2>1 DEF Server, ReaderInv
  <2>3. pRunning' = pRunning /\ ppc' = ppc /\ draining' = pRunning
    BY <1>5 DEF OnPlayStop
  <2>4. QED
    BY <1>5, <2>1, <2>2, <2>3 DEF ReaderInv, EmptyInv
<1>6. CASE OnPlayFlush \/ PlaybackJoined
  <2>1. \/ spc = "read" /\ spc' = "joinFlush" /\ draining' = draining
        \/ spc' = "read" /\ ~pRunning' /\ ~draining'
    BY <1>6 DEF OnPlayFlush, PlaybackJoined, Command
  <2>2. QED
    BY <2>1 DEF ReaderInv, EmptyInv
<1>7. CASE PlaybackStep
  <2>1. /\ UNCHANGED <<spc, pRunning, draining, wr>> /\ spc # "dead" /\ ppc # "none"
        /\ ppc' # "none"
    BY <1>1, <1>7 DEF PlaybackStep, PlaybackOpens, RingRead, PlayChunk, NothingToPlay,
                      PlaybackEnds, server, ringVars, ThreadsInv
  <2>2. CASE PlaybackOpens
    <3>1. ppc' = "loop"
      BY <2>2 DEF PlaybackOpens, Works
    <3>2. QED
      BY <2>1, <3>1 DEF ReaderInv, EmptyInv
  <2>3. CASE RingRead
    <3>1. ppc' = "play" \/ (ppc' = "empty" /\ Avail <= 0 /\ rd' = rd)
      BY <1>1, <2>3, RingFacts DEF RingRead, SoundType, Slots
    <3>2. ppc' = "empty" => rd' = wr'
      BY <1>1, <2>1, <3>1, RingFacts, AudioAssumption DEF SoundType, Slots, Ahead
    <3>3. QED
      BY <2>1, <3>1, <3>2 DEF ReaderInv, EmptyInv
  <2>4. CASE PlayChunk
    BY <2>1, <2>4 DEF PlayChunk, ReaderInv, EmptyInv
  <2>5. CASE NothingToPlay \/ PlaybackEnds
    <3>1. /\ rd' = rd
          /\ \/ ppc = "empty" /\ ppc' = IF draining THEN "closing" ELSE "loop"
             \/ (ppc = "closing" \/ ~pRunning) /\ ppc' = "ended"
      BY <2>5 DEF NothingToPlay, PlaybackEnds, ringVars
    <3>2. QED
      BY <1>1, <2>1, <3>1 DEF ReaderInv, EmptyInv, ThreadsInv
  <2>6. QED
    BY <1>7, <2>2, <2>3, <2>4, <2>5 DEF PlaybackStep
<1>8. CASE Crash
  <2>1. spc' = "dead"
    BY <1>8 DEF Crash
  <2>2. QED
    BY <2>1 DEF ReaderInv, EmptyInv
<1>9. QED
  BY <1>2, <1>3, <1>4, <1>5, <1>6, <1>7, <1>8 DEF Next, ServerStep

\* "Blocking write: waits for space instead of dropping data": the server's main thread,
\* which is the one that would read the next command, waits for room only while a playback
\* thread runs that makes some, unless a device fails (play_ring_write, audio_main.c; the
\* run of AudioStuck is one in which it does).
THEOREM AudioWriterHasReader ==
    Spec => []("device" \notin day.faults /\ spc = "write"
               => pRunning /\ ppc \in {"opening", "loop", "empty", "play"})
<1>1. SoundInv /\ ReaderInv /\ [Next]_vars => ReaderInv'
  BY NextDrain
<1>2. SoundInv /\ ReaderInv
        => ("device" \notin day.faults /\ spc = "write"
            => pRunning /\ ppc \in {"opening", "loop", "empty", "play"})
  BY DEF SoundInv, DuplexInv, ThreadsInv, ReaderInv, Works
<1>3. QED
  BY <1>1, <1>2, InitDrain, AudioInvariant, PTL DEF Spec

\* "Graceful drain: wait for ring buffer empty + ALSA drain, then stop" holds but for one
\* step: every chunk that was sent has been offered to the device (which may still refuse
\* it) unless PLAY_STOP comes between the read that finds the ring empty and the look at
\* s_draining (audio_playback.c, playback_thread), as long as the device opens and no wait
\* times out, whether or not the process dies.
THEOREM AudioDrainsUnlessEmpty ==
    Spec /\ Calm /\ [][OnPlayStop => ppc # "empty"]_vars => DrainEmptiesRing
<1>1. /\ SoundInv /\ HandoverInv /\ SentInv /\ ReaderInv /\ EmptyInv /\ Calm
      /\ [Next]_vars /\ [OnPlayStop => ppc # "empty"]_vars
      => (SentInv /\ ReaderInv /\ EmptyInv /\ Calm)'
  <2> SUFFICES ASSUME SoundInv, HandoverInv, SentInv, ReaderInv, EmptyInv, Calm, [Next]_vars,
                      [OnPlayStop => ppc # "empty"]_vars
               PROVE  (SentInv /\ ReaderInv /\ EmptyInv /\ Calm)'
    OBVIOUS
  <2>1. Calm'
    BY DEF Calm, Next, PlayStep, ReceiverStep, ServerStep, CaptureStep, PlaybackStep, SameDay,
           Rest, vars
  <2>2. OnPlayStop => ppc # "empty" \/ UNCHANGED vars
    OBVIOUS
  <2>3. ~(OnPlayStop /\ UNCHANGED vars)
    BY DEF OnPlayStop, Command, vars, process, server
  <2>4. QED
    BY <2>1, <2>2, <2>3, NextSent, NextDrain
<1>2. SoundInv /\ HandoverInv /\ SentInv /\ ReaderInv /\ EmptyInv /\ Calm
        => [PlaybackJoined /\ spc = "joinDrain" => Len(heard) = sent]_vars
  <2> SUFFICES ASSUME SoundInv, HandoverInv, SentInv, ReaderInv, EmptyInv, Calm,
                      PlaybackJoined, spc = "joinDrain"
               PROVE  Len(heard) = sent
    OBVIOUS
  <2>1. cpc \in {"wait", "asleep"} /\ InTime
    BY DEF SentInv, Calm, InTime, HandoverInv, DoneInv, LossInv, Joins
  <2>2. Position(0) = <<plays, sent>>
    BY <2>1 DEF SentInv
  <2>3. Kept = sent
    BY <2>2 DEF Position
  <2>4. ppc = "ended" /\ rd = wr
    BY DEF PlaybackJoined, ReaderInv, EmptyInv, Works, Calm
  <2>5. Kept = Len(heard)
    <3>1. Ahead(wr) = 0 /\ Held = 0
      BY <2>4 DEF Ahead, Held, SoundInv, DataInv, SoundType, Slots
    <3>2. QED
      BY <3>1, RingFacts DEF Kept, SoundInv, DataInv
  <2>6. QED
    BY <2>3, <2>5
<1>3. QED
  BY <1>1, <1>2, InitDrain, AudioInvariant, PTL DEF Spec, DrainEmptiesRing

------------------------------------------------------------------------------
\* The types.  There is a recording for each play; what the messages say are recordings,
\* plays and chunks that there are.
CommandsOK == \A k \in 1 .. Len(c2s) :
    /\ c2s[k].type = "RECORD_START" => c2s[k].arg \in 1 .. captures
    /\ c2s[k].type = "PLAY_START" => c2s[k].arg \in 1 .. plays
    /\ c2s[k].type = "PLAY_DATA" => c2s[k].arg \in Chunks
ReportsOK == \A k \in 1 .. Len(s2c) :
    /\ s2c[k].type = "AUDIO_DATA" => s2c[k].arg \in 1 .. captures
    /\ s2c[k].type = "PLAY_DONE" => s2c[k].arg \in 0 .. plays

VoiceOK ==
    /\ day \in Days
    /\ cpc \in {"recordStart", "recording", "playStart", "play", "wait", "asleep", "exit"}
    /\ phase \in {"wake", "prompt", "listen", "answer"}
    /\ captures \in 0 .. day.captures /\ plays \in 0 .. captures
    /\ cpc \in {"recording", "playStart"} => plays < captures
    /\ cpc = "play" => plays > 0
    /\ sent \in 0 .. MaxChunks

FlagsOK == cb \in BOOLEAN /\ ack \in BOOLEAN /\ connected \in BOOLEAN

ReceiverOK ==
    /\ rpc = NoFrame \/ rpc.frame \in 1 .. captures
    /\ recorded \subseteq 1 .. captures /\ doneOf \in 0 .. plays
    /\ Len(s2c) <= SockCap /\ ReportsOK

ServerOK ==
    /\ spc \in {"read", "write", "joinCapture", "joinDrain", "joinFlush", "dead"}
    /\ chunk \in Chunks /\ capturing \in 0 .. captures /\ playing \in 0 .. plays
    /\ Len(c2s) <= SockCap /\ CommandsOK
    /\ kpc \in {"none", "opening", "loop", "frame", "ended"}
    /\ kpc # "none" => capturing > 0
    /\ ppc \in {"none", "opening", "loop", "empty", "play", "closing", "ended"}
    /\ hand \in Chunks /\ \A i \in Slots : ring[i] \in Chunks

TypeInv == VoiceOK /\ FlagsOK /\ ReceiverOK /\ ServerOK
Streams == (\E S : c2s \in Seq(S)) /\ (\E S : s2c \in Seq(S))

LEMMA InitTypes == Init => TypeInv
<1> SUFFICES ASSUME Init PROVE TypeInv
  OBVIOUS
<1>1. Len(c2s) = 0 /\ Len(s2c) = 0
  BY DEF Init
<1>2. VoiceOK /\ FlagsOK
  <2>1. day \in Days /\ day.captures \in Nat
    BY AudioAssumption DEF Init
  <2>2. VoiceOK
    BY <2>1, AudioAssumption DEF Init, VoiceOK
  <2>3. FlagsOK
    BY DEF Init, FlagsOK
  <2>4. QED
    BY <2>2, <2>3
<1>3. ReceiverOK
  BY <1>1, AudioAssumption DEF Init, ReceiverOK, ReportsOK, NoFrame
<1>4. ServerOK
  BY <1>1, AudioAssumption DEF Init, ServerOK, CommandsOK, Chunks, Slots
<1>5. QED
  BY <1>2, <1>3, <1>4 DEF TypeInv

\* The numbers of recordings and of plays only grow.
LEMMA RestOfTypes ==
    ASSUME TypeInv, VoiceOK', day' = day, captures' >= captures, plays' >= plays
    PROVE  /\ UNCHANGED <<rpc, recorded, doneOf, s2c>> => ReceiverOK'
           /\ /\ UNCHANGED <<spc, chunk, capturing, playing, kpc, ppc, hand, ring>>
              /\ c2s' = c2s
              => ServerOK'
           /\ /\ UNCHANGED <<spc, chunk, capturing, playing, kpc, ppc, hand, ring>>
              /\ (Len(c2s) <= SockCap /\ CommandsOK)'
              => ServerOK'
           /\ \A c \in 1 .. captures : c \in 1 .. captures'
           /\ \A p \in 1 .. plays : p \in 1 .. plays'
           /\ Chunks' = Chunks
<1>1. /\ captures \in Nat /\ plays \in Nat /\ captures' \in Nat /\ plays' \in Nat
      /\ Chunks' = Chunks
  BY AudioAssumption DEF TypeInv, VoiceOK, Chunks
<1>2. /\ 1 .. captures \subseteq 1 .. captures' /\ 0 .. captures \subseteq 0 .. captures'
      /\ 1 .. plays \subseteq 1 .. plays' /\ 0 .. plays \subseteq 0 .. plays'
  BY <1>1
<1>3. UNCHANGED <<rpc, recorded, doneOf, s2c>> => ReceiverOK'
  BY <1>1, <1>2 DEF TypeInv, ReceiverOK, ReportsOK
<1>4. c2s' = c2s => (Len(c2s) <= SockCap /\ CommandsOK)'
  BY <1>1, <1>2 DEF TypeInv, ServerOK, CommandsOK
<1>5. /\ UNCHANGED <<spc, chunk, capturing, playing, kpc, ppc, hand, ring>>
      /\ (Len(c2s) <= SockCap /\ CommandsOK)'
      => ServerOK'
  BY <1>1, <1>2 DEF TypeInv, ServerOK
<1>6. QED
  BY <1>1, <1>2, <1>3, <1>4, <1>5

\* The voice thread.
LEMMA VoiceKeepsTypes ==
    ASSUME TypeInv, Streams, RecordStart \/ RecordStop \/ PlayStep, day' = day
    PROVE  TypeInv'
<1>1. /\ captures \in Nat /\ plays \in Nat /\ sent \in Nat /\ day.captures \in Nat
      /\ MaxChunks \in Nat /\ SockCap \in Nat
  BY AudioAssumption DEF TypeInv, VoiceOK
<1>2. /\ UNCHANGED <<spc, chunk, capturing, playing, kpc, ppc, hand, ring>>
      /\ UNCHANGED <<rpc, doneOf, s2c>>
  BY DEF PlayStep, RecordStart, RecordStop, PlayStart, PlayPcm, PlayEnd, AckSleep, AckReturn,
         AckTimeout, VoiceEnds, Played, process, server, ringVars, playback, capture, sync,
         receiver
<1>3. VoiceOK' /\ captures' >= captures /\ plays' >= plays
  <2>1. CASE RecordStart
    BY <1>1, <2>1 DEF RecordStart, TypeInv, VoiceOK
  <2>2. CASE RecordStop
    <3>1. /\ cpc = "recording" /\ cpc' \in {"playStart", "recordStart"}
          /\ phase' \in {"prompt", "answer", "wake"} /\ UNCHANGED <<captures, plays, sent>>
      BY <2>2 DEF RecordStop
    <3>2. QED
      BY <1>1, <3>1 DEF TypeInv, VoiceOK
  <2>3. CASE PlayStart
    BY <1>1, <2>3 DEF PlayStart, TypeInv, VoiceOK
  <2>4. CASE PlayPcm
    BY <1>1, <2>4 DEF PlayPcm, TypeInv, VoiceOK
  <2>5. CASE PlayEnd
    <3>1. cpc' = "wait" /\ UNCHANGED <<phase, captures, plays, sent>>
      BY <2>5 DEF PlayEnd
    <3>2. QED
      BY <1>1, <3>1 DEF TypeInv, VoiceOK
  <2>6. CASE AckSleep \/ AckReturn \/ AckTimeout \/ VoiceEnds
    <3>1. /\ cpc' \in {"asleep", "recordStart", "exit"} /\ phase' \in {phase, "listen", "wake"}
          /\ UNCHANGED <<captures, plays, sent>>
      BY <2>6 DEF AckSleep, AckReturn, AckTimeout, VoiceEnds, Played
    <3>2. QED
      BY <1>1, <3>1 DEF TypeInv, VoiceOK
  <2>7. QED
    BY <2>1, <2>2, <2>3, <2>4, <2>5, <2>6 DEF PlayStep
<1>4. ReceiverOK'
  <2>1. CASE recorded' = recorded
    BY <1>2, <1>3, <2>1, RestOfTypes
  <2>2. CASE recorded' # recorded
    <3>1. recorded' = {} /\ UNCHANGED <<captures, plays>>
      BY <2>2 DEF PlayStep, RecordStart, RecordStop, PlayStart, PlayPcm, PlayEnd, AckSleep,
                  AckReturn, AckTimeout, VoiceEnds, Played, receiver
    <3>2. QED
      BY <1>2, <3>1 DEF TypeInv, ReceiverOK, ReportsOK
  <2>3. QED
    BY <2>1, <2>2
<1>5. (Len(c2s) <= SockCap /\ CommandsOK)'
  <2>1. CASE AckSleep \/ AckReturn \/ AckTimeout \/ VoiceEnds
    <3>1. UNCHANGED <<c2s, captures, plays>> /\ Chunks' = Chunks
      BY <2>1 DEF AckSleep, AckReturn, AckTimeout, VoiceEnds, Played, Chunks
    <3>2. QED
      BY <3>1 DEF TypeInv, ServerOK, CommandsOK
  <2>2. CASE RecordStart \/ RecordStop \/ PlayStart \/ PlayPcm \/ PlayEnd
    <3>1. PICK m : /\ c2s' = Append(c2s, m) /\ Len(c2s) < SockCap
                   /\ m.type = "RECORD_START" => m.arg \in 1 .. captures'
                   /\ m.type = "PLAY_START" => m.arg \in 1 .. plays'
                   /\ m.type = "PLAY_DATA" => m.arg \in Chunks
      <4>1. CASE RecordStart
        <5>1. /\ Send("RECORD_START", captures + 1) /\ captures' = captures + 1
          BY <4>1 DEF RecordStart
        <5>2. captures + 1 \in 1 .. captures'
          BY <1>1, <5>1
        <5>3. QED
          BY <5>1, <5>2 DEF Send
      <4>2. CASE RecordStop \/ PlayEnd
        BY <4>2 DEF RecordStop, PlayEnd, Send
      <4>3. CASE PlayStart
        <5>1. /\ Send("PLAY_START", plays + 1) /\ plays' = plays + 1
          BY <4>3 DEF PlayStart
        <5>2. plays + 1 \in 1 .. plays'
          BY <1>1, <5>1
        <5>3. QED
          BY <5>1, <5>2 DEF Send
      <4>4. CASE PlayPcm
        <5>1. Send("PLAY_DATA", <<plays, sent + 1>>) /\ cpc = "play" /\ sent < MaxChunks
          BY <4>4 DEF PlayPcm
        <5>2. plays \in 1 .. day.captures /\ sent + 1 \in 1 .. MaxChunks
          BY <1>1, <5>1 DEF TypeInv, VoiceOK
        <5>3. <<plays, sent + 1>> \in Chunks
          BY <5>2 DEF Chunks
        <5>4. QED
          BY <5>1, <5>3 DEF Send
      <4>5. QED
        BY <2>2, <4>1, <4>2, <4>3, <4>4
    <3>2. PICK last \in Nat : last = Len(c2s)
      BY AppendFacts DEF Streams
    <3>3. /\ Len(c2s') = last + 1 /\ c2s'[last + 1] = m
          /\ \A k \in 1 .. last : c2s'[k] = c2s[k]
      BY <3>1, <3>2, AppendFacts DEF Streams
    <3>4. CommandsOK'
      <4> SUFFICES ASSUME NEW k \in 1 .. last + 1
                   PROVE  /\ c2s'[k].type = "RECORD_START" => c2s'[k].arg \in 1 .. captures'
                          /\ c2s'[k].type = "PLAY_START" => c2s'[k].arg \in 1 .. plays'
                          /\ c2s'[k].type = "PLAY_DATA" => c2s'[k].arg \in Chunks
        BY <1>3, <3>3, RestOfTypes DEF CommandsOK
      <4>1. CASE k = last + 1
        BY <3>1, <3>3, <4>1
      <4>2. CASE k \in 1 .. last
        <5>1. c2s'[k] = c2s[k]
          BY <3>3, <4>2
        <5>2. /\ c2s[k].type = "RECORD_START" => c2s[k].arg \in 1 .. captures
              /\ c2s[k].type = "PLAY_START" => c2s[k].arg \in 1 .. plays
              /\ c2s[k].type = "PLAY_DATA" => c2s[k].arg \in Chunks
          BY <3>2, <4>2 DEF TypeInv, ServerOK, CommandsOK
        <5>3. QED
          BY <1>3, <5>1, <5>2, RestOfTypes
      <4>3. QED
        BY <3>2, <4>1, <4>2
    <3>5. Len(c2s') <= SockCap
      BY <1>1, <3>1, <3>2, <3>3
    <3>6. QED
      BY <3>4, <3>5
  <2>3. QED
    BY <2>1, <2>2 DEF PlayStep
<1>6. ServerOK'
  BY <1>2, <1>3, <1>5, RestOfTypes
<1>7. FlagsOK'
  BY DEF TypeInv, FlagsOK, PlayStep, RecordStart, RecordStop, PlayStart, PlayPcm, PlayEnd,
         AckSleep, AckReturn, AckTimeout, VoiceEnds, Played, sync
<1>8. QED
  BY <1>3, <1>4, <1>6, <1>7 DEF TypeInv

\* The receiver.
LEMMA ReceiverKeepsTypes ==
    ASSUME TypeInv, Streams, ReceiverStep PROVE TypeInv'
<1>1. /\ UNCHANGED <<day, phase, captures, plays, sent, spc, chunk, capturing, playing, kpc,
                     ppc, hand, ring, c2s>>
      /\ cpc' = cpc \/ (cpc = "asleep" /\ cpc' = "wait")
  BY DEF ReceiverStep, SameDay, ReceiveData, CallbackReturns, ReceiveDone, ReceiveEof, voice,
         process, server, ringVars, playback, capture
<1>2. VoiceOK' /\ captures' >= captures /\ plays' >= plays
  <2>1. captures \in Nat /\ plays \in Nat
    BY AudioAssumption DEF TypeInv, VoiceOK
  <2>2. QED
    BY <1>1, <2>1 DEF TypeInv, VoiceOK
<1>3. ServerOK'
  BY <1>1, <1>2, RestOfTypes
<1>4. FlagsOK'
  BY DEF TypeInv, FlagsOK, ReceiverStep, ReceiveData, CallbackReturns, ReceiveDone, ReceiveEof,
         voice, sync
<1>5. ASSUME s2c # <<>>, s2c' = Tail(s2c)
      PROVE  /\ Head(s2c).type = "AUDIO_DATA" => Head(s2c).arg \in 1 .. captures
             /\ Head(s2c).type = "PLAY_DONE" => Head(s2c).arg \in 0 .. plays
             /\ (Len(s2c) <= SockCap /\ ReportsOK)'
  <2>1. PICK last \in Nat : /\ Len(s2c) = last + 1 /\ Len(s2c') = last /\ Head(s2c) = s2c[1]
                            /\ \A k \in 1 .. last : s2c'[k] = s2c[k + 1]
    <3>1. /\ Len(s2c) \in Nat \ {0} /\ Len(s2c') = Len(s2c) - 1 /\ Head(s2c) = s2c[1]
          /\ \A k \in 1 .. Len(s2c) - 1 : s2c'[k] = s2c[k + 1]
      BY <1>5, TailFacts DEF Streams
    <3> DEFINE l == Len(s2c) - 1
    <3>2. l \in Nat /\ Len(s2c) = l + 1
      BY <3>1
    <3>3. QED
      BY <3>1, <3>2
  <2>2. \A k \in 1 .. last + 1 :
          /\ s2c[k].type = "AUDIO_DATA" => s2c[k].arg \in 1 .. captures
          /\ s2c[k].type = "PLAY_DONE" => s2c[k].arg \in 0 .. plays
    BY <2>1 DEF TypeInv, ReceiverOK, ReportsOK
  <2>3. 1 \in 1 .. last + 1 /\ \A k \in 1 .. last : k + 1 \in 1 .. last + 1
    BY <2>1
  <2>4. ReportsOK'
    BY <1>1, <2>1, <2>2, <2>3 DEF ReportsOK
  <2>5. Len(s2c') <= SockCap
    BY <2>1, AudioAssumption DEF TypeInv, ReceiverOK
  <2>6. QED
    BY <2>1, <2>2, <2>3, <2>4, <2>5
<1>6. ReceiverOK'
  <2>1. CASE ReceiveData
    <3>1. /\ s2c # <<>> /\ s2c' = Tail(s2c) /\ Head(s2c).type = "AUDIO_DATA"
          /\ rpc' = NoFrame \/ rpc'.frame = Head(s2c).arg
      BY <2>1 DEF ReceiveData
    <3>2. UNCHANGED <<recorded, doneOf>>
      BY <2>1 DEF ReceiveData, sync
    <3>3. QED
      BY <1>1, <1>5, <3>1, <3>2 DEF TypeInv, ReceiverOK, NoFrame
  <2>2. CASE CallbackReturns
    <3>1. /\ rpc # NoFrame /\ rpc' = NoFrame /\ UNCHANGED <<s2c, doneOf>>
          /\ recorded' \subseteq recorded \cup {rpc.frame}
      BY <2>2 DEF CallbackReturns, sync
    <3>2. QED
      BY <1>1, <3>1 DEF TypeInv, ReceiverOK, ReportsOK, NoFrame
  <2>3. CASE ReceiveDone
    <3>1. /\ s2c # <<>> /\ s2c' = Tail(s2c) /\ Head(s2c).type = "PLAY_DONE"
          /\ doneOf' = Head(s2c).arg /\ UNCHANGED <<recorded, rpc>>
      BY <2>3 DEF ReceiveDone, receiver
    <3>2. QED
      BY <1>1, <1>5, <3>1 DEF TypeInv, ReceiverOK, NoFrame
  <2>4. CASE ReceiveEof
    <3>1. UNCHANGED <<rpc, recorded, doneOf, s2c>>
      BY <2>4 DEF ReceiveEof, receiver
    <3>2. QED
      BY <1>1, <1>2, <3>1, RestOfTypes
  <2>5. QED
    BY <2>1, <2>2, <2>3, <2>4 DEF ReceiverStep
<1>7. QED
  BY <1>2, <1>3, <1>4, <1>6 DEF TypeInv

\* A message of the server's.
LEMMA ReportsGrow ==
    ASSUME TypeInv, Streams, NEW m, s2c' = Append(s2c, m), Len(s2c) < SockCap,
           UNCHANGED <<captures, plays, rpc, recorded, doneOf>>,
           m.type = "AUDIO_DATA" => m.arg \in 1 .. captures,
           m.type = "PLAY_DONE" => m.arg \in 0 .. plays
    PROVE  ReceiverOK'
<1>1. PICK last \in Nat : last = Len(s2c)
  BY AppendFacts DEF Streams
<1>2. /\ Len(s2c') = last + 1 /\ s2c'[last + 1] = m
      /\ \A k \in 1 .. last : s2c'[k] = s2c[k]
  BY <1>1, AppendFacts DEF Streams
<1>3. \A k \in 1 .. last + 1 : k = last + 1 \/ k \in 1 .. last
  BY <1>1
<1>4. ReportsOK'
  BY <1>1, <1>2, <1>3 DEF TypeInv, ReceiverOK, ReportsOK
<1>5. Len(s2c') <= SockCap
  BY <1>1, <1>2, AudioAssumption
<1>6. QED
  BY <1>4, <1>5 DEF TypeInv, ReceiverOK

\* A command taken.
LEMMA CommandTaken ==
    ASSUME TypeInv, Streams, c2s # <<>>, c2s' = Tail(c2s), UNCHANGED <<captures, plays, day>>
    PROVE  /\ Head(c2s).type = "RECORD_START" => Head(c2s).arg \in 1 .. captures
           /\ Head(c2s).type = "PLAY_START" => Head(c2s).arg \in 1 .. plays
           /\ Head(c2s).type = "PLAY_DATA" => Head(c2s).arg \in Chunks
           /\ (Len(c2s) <= SockCap /\ CommandsOK)'
<1>1. PICK last \in Nat : /\ Len(c2s) = last + 1 /\ Len(c2s') = last /\ Head(c2s) = c2s[1]
                          /\ \A k \in 1 .. last : c2s'[k] = c2s[k + 1]
  <2>1. /\ Len(c2s) \in Nat \ {0} /\ Len(c2s') = Len(c2s) - 1 /\ Head(c2s) = c2s[1]
        /\ \A k \in 1 .. Len(c2s) - 1 : c2s'[k] = c2s[k + 1]
    BY TailFacts DEF Streams
  <2> DEFINE l == Len(c2s) - 1
  <2>2. l \in Nat /\ Len(c2s) = l + 1
    BY <2>1
  <2>3. QED
    BY <2>1, <2>2
<1>2. \A k \in 1 .. last + 1 :
        /\ c2s[k].type = "RECORD_START" => c2s[k].arg \in 1 .. captures
        /\ c2s[k].type = "PLAY_START" => c2s[k].arg \in 1 .. plays
        /\ c2s[k].type = "PLAY_DATA" => c2s[k].arg \in Chunks
  BY <1>1 DEF TypeInv, ServerOK, CommandsOK
<1>3. 1 \in 1 .. last + 1 /\ \A k \in 1 .. last : k + 1 \in 1 .. last + 1
  BY <1>1
<1>4. Chunks' = Chunks
  BY DEF Chunks
<1>5. CommandsOK'
  BY <1>1, <1>2, <1>3, <1>4 DEF CommandsOK
<1>6. Len(c2s') <= SockCap
  BY <1>1, AudioAssumption DEF TypeInv, ServerOK
<1>7. QED
  BY <1>1, <1>2, <1>3, <1>5, <1>6

\* The process: its main thread, the capture and the playback thread.
LEMMA ProcessKeepsTypes ==
    ASSUME TypeInv, Streams, SoundType,
           ServerStep \/ CaptureStep \/ PlaybackStep \/ (SameDay /\ Crash)
    PROVE  TypeInv'
<1>1. /\ UNCHANGED <<day, cpc, phase, captures, plays, sent, cb, ack, connected>>
      /\ UNCHANGED <<rpc, recorded, doneOf>>
  BY DEF ServerStep, OnRecordStart, OnRecordStop, CaptureJoined, OnPlayStart, OnPlayData,
         RingWrite, OnPlayStop, OnPlayFlush, PlaybackJoined, CaptureStep, CaptureOpens,
         CaptureFrame, CaptureEnds, PlaybackStep, PlaybackOpens, RingRead, PlayChunk,
         NothingToPlay, PlaybackEnds, Crash, SameDay, voice, receiver, sync
<1>2. VoiceOK' /\ FlagsOK' /\ captures' >= captures /\ plays' >= plays
  <2>1. captures \in Nat /\ plays \in Nat
    BY AudioAssumption DEF TypeInv, VoiceOK
  <2>2. VoiceOK' /\ FlagsOK'
    BY <1>1 DEF TypeInv, VoiceOK, FlagsOK
  <2>3. QED
    BY <1>1, <2>1, <2>2
<1>3. /\ captures \in Nat /\ plays \in Nat /\ Chunks' = Chunks /\ <<0, 0>> \in Chunks
      /\ Slots' = Slots
  BY <1>1, AudioAssumption DEF TypeInv, VoiceOK, Chunks, Slots
<1>4. s2c' = s2c => ReceiverOK'
  BY <1>1, <1>2, RestOfTypes
<1>5. c2s' = c2s => (Len(c2s) <= SockCap /\ CommandsOK)'
  BY <1>1, <1>3 DEF TypeInv, ServerOK, CommandsOK
<1>6. CASE \/ OnRecordStart \/ OnRecordStop \/ OnPlayStart \/ OnPlayData \/ OnPlayStop
           \/ OnPlayFlush
  <2>1. /\ c2s # <<>> /\ c2s' = Tail(c2s) /\ UNCHANGED <<s2c, ring, hand>>
        /\ spc' \in {"read", "write", "joinCapture", "joinDrain", "joinFlush"}
        /\ chunk' = chunk \/ (Head(c2s).type = "PLAY_DATA" /\ chunk' = Head(c2s).arg)
        /\ \/ UNCHANGED <<capturing, kpc>>
           \/ Head(c2s).type = "RECORD_START" /\ capturing' = Head(c2s).arg /\ kpc' = "opening"
        /\ \/ UNCHANGED playing
           \/ Head(c2s).type = "PLAY_START" /\ playing' = Head(c2s).arg
        /\ ppc' \in {ppc, "opening"}
    BY <1>6 DEF OnRecordStart, OnRecordStop, OnPlayStart, OnPlayData, OnPlayStop, OnPlayFlush,
                Command, RingClear, ringVars, playback, capture, server
  <2>2. /\ Head(c2s).type = "RECORD_START" => Head(c2s).arg \in 1 .. captures
        /\ Head(c2s).type = "PLAY_START" => Head(c2s).arg \in 1 .. plays
        /\ Head(c2s).type = "PLAY_DATA" => Head(c2s).arg \in Chunks
        /\ (Len(c2s) <= SockCap /\ CommandsOK)'
    BY <1>1, <2>1, CommandTaken
  <2>3. chunk' \in Chunks /\ playing' \in 0 .. plays /\ capturing' \in 0 .. captures
    BY <1>3, <2>1, <2>2 DEF TypeInv, ServerOK
  <2>4. kpc' # "none" => capturing' > 0
    BY <1>3, <2>1, <2>2 DEF TypeInv, ServerOK
  <2>5. ServerOK'
    BY <1>1, <1>3, <2>1, <2>2, <2>3, <2>4 DEF TypeInv, ServerOK
  <2>6. QED
    BY <1>2, <1>4, <2>1, <2>5 DEF TypeInv
<1>7. CASE CaptureJoined \/ CaptureOpens \/ CaptureFrame \/ CaptureEnds
  <2>1. /\ UNCHANGED <<c2s, chunk, capturing, playing, ring, hand, ppc>>
        /\ spc' \in {spc, "read"} /\ kpc' \in {"none", "loop", "ended", "frame"}
        /\ kpc' # "none" => kpc # "none"
        /\ \/ s2c' = s2c
           \/ /\ kpc = "frame" /\ Len(s2c) < SockCap
              /\ s2c' = Append(s2c, [type |-> "AUDIO_DATA", arg |-> capturing])
    BY <1>7 DEF CaptureJoined, CaptureOpens, CaptureFrame, CaptureEnds, server, ringVars,
                playback
  <2>2. ServerOK'
    BY <1>1, <1>3, <1>5, <2>1 DEF TypeInv, ServerOK
  <2>3. ReceiverOK'
    <3>1. CASE s2c' = s2c
      BY <1>4, <3>1
    <3>2. CASE /\ kpc = "frame" /\ Len(s2c) < SockCap
               /\ s2c' = Append(s2c, [type |-> "AUDIO_DATA", arg |-> capturing])
      <4>1. capturing \in 1 .. captures
        BY <1>3, <3>2 DEF TypeInv, ServerOK
      <4>2. QED
        BY <1>1, <3>2, <4>1, ReportsGrow
    <3>3. QED
      BY <2>1, <3>1, <3>2
  <2>4. QED
    BY <1>2, <2>2, <2>3 DEF TypeInv
<1>8. CASE PlaybackJoined
  <2>1. /\ UNCHANGED <<c2s, chunk, capturing, playing, ring, hand, kpc>>
        /\ spc' = "read" /\ ppc' = "none" /\ Len(s2c) < SockCap
        /\ s2c' = Append(s2c, [type |-> "PLAY_DONE", arg |-> playing])
    BY <1>8 DEF PlaybackJoined, RingClear, capture
  <2>2. ServerOK'
    BY <1>1, <1>3, <1>5, <2>1 DEF TypeInv, ServerOK
  <2>3. playing \in 0 .. plays
    BY DEF TypeInv, ServerOK
  <2>4. ReceiverOK'
    BY <1>1, <2>1, <2>3, ReportsGrow
  <2>5. QED
    BY <1>2, <2>2, <2>4 DEF TypeInv
<1>9. CASE RingWrite
  <2>1. /\ UNCHANGED <<c2s, s2c, chunk, capturing, playing, hand, kpc, ppc>> /\ spc' = "read"
        /\ ring' = ring \/ ring' = [ring EXCEPT ![wr] = chunk]
    BY <1>9 DEF RingWrite, capture, playback
  <2>2. \A i \in Slots : ring'[i] \in Chunks
    BY <2>1 DEF SoundType, TypeInv, ServerOK
  <2>3. ServerOK'
    BY <1>1, <1>3, <1>5, <2>1, <2>2 DEF TypeInv, ServerOK
  <2>4. QED
    BY <1>2, <1>4, <2>1, <2>3 DEF TypeInv
<1>10. CASE PlaybackStep \/ Crash
  <2>1. /\ UNCHANGED <<s2c, chunk, capturing, playing, ring>>
        /\ spc' \in {spc, "dead"} /\ kpc' \in {kpc, "none"}
        /\ ppc' \in {"none", "loop", "empty", "play", "closing", "ended"}
        /\ hand' = hand \/ hand' = ring[rd]
        /\ c2s' = c2s \/ c2s' = <<>>
    BY <1>10 DEF PlaybackStep, PlaybackOpens, RingRead, PlayChunk, NothingToPlay, PlaybackEnds,
                 Crash, server, ringVars, capture
  <2>2. hand' \in Chunks
    BY <2>1 DEF SoundType, TypeInv, ServerOK
  <2>3. (Len(c2s) <= SockCap /\ CommandsOK)'
    <3>1. Len(<<>>) = 0
      OBVIOUS
    <3>2. QED
      BY <1>5, <2>1, <3>1, AudioAssumption DEF CommandsOK
  <2>4. ServerOK'
    BY <1>1, <1>3, <2>1, <2>2, <2>3 DEF TypeInv, ServerOK
  <2>5. QED
    BY <1>2, <1>4, <2>1, <2>4 DEF TypeInv
<1>11. QED
  BY <1>6, <1>7, <1>8, <1>9, <1>10 DEF ServerStep, CaptureStep

\* For any workload and any sizes of the ring and of the buffers: the types, among them
\* that neither direction of the socket ever holds more than fits, that the ring's two
\* indices stay inside it and that there are no more plays than recordings
\* (voice_manager.c: what is played follows a recording).
THEOREM AudioTypeCorrect == Spec => []TypeOK
<1>1. SoundInv /\ HandoverInv /\ TypeInv /\ [Next]_vars => TypeInv'
  <2> SUFFICES ASSUME SoundInv, HandoverInv, TypeInv, [Next]_vars PROVE TypeInv'
    OBVIOUS
  <2>1. Streams /\ SoundType
    BY DEF HandoverInv, LossInv, Streams, SoundInv, DataInv
  <2>2. CASE Rest \/ UNCHANGED vars
    <3>1. /\ UNCHANGED <<day, cpc, phase, captures, plays, sent, cb, ack, connected, rpc,
                         recorded, doneOf>>
          /\ UNCHANGED <<spc, chunk, capturing, playing, kpc, ppc, hand, ring, c2s, s2c>>
      BY <2>2 DEF Rest, vars, voice, receiver, sync, process, server, ringVars, capture,
                  playback
    <3>2. QED
      BY <3>1 DEF TypeInv, VoiceOK, FlagsOK, ReceiverOK, ReportsOK, ServerOK, CommandsOK,
                  Chunks, Slots
  <2>3. QED
    BY <2>1, <2>2, VoiceKeepsTypes, ReceiverKeepsTypes, ProcessKeepsTypes
       DEF Next, PlayStep, SameDay
<1>2. SoundInv /\ TypeInv => TypeOK
  <2> SUFFICES ASSUME SoundInv, TypeInv PROVE TypeOK
    OBVIOUS
  <2>1. rpc.frame \in 0 .. captures
    BY AudioAssumption DEF TypeInv, VoiceOK, ReceiverOK, NoFrame
  <2>2. rd \in 0 .. RING - 1 /\ wr \in 0 .. RING - 1
    BY DEF SoundInv, DataInv, SoundType, Slots
  <2>3. QED
    BY <2>1, <2>2 DEF TypeOK, TypeInv, VoiceOK, FlagsOK, ReceiverOK, ServerOK, Slots
<1>3. QED
  BY <1>1, <1>2, InitTypes, AudioInvariant, PTL DEF Spec
==============================================================================
