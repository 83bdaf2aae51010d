------------------------------ MODULE AudioIpc ------------------------------
(***************************************************************************)
(* The two audio processes and the socket between them: the client in the  *)
(* assistant (src/src/services/audio_service.c), called by the voice       *)
(* thread, and the server t113claw_audio (src/audio/audio_main.c) with its *)
(* capture and playback threads (audio_capture.c, audio_playback.c) and    *)
(* the byte ring between the server's main thread and the playback thread. *)
(*                                                                         *)
(* The voice thread's calls come in the order of voice_manager.c: capture  *)
(* for the wake word, the prompt, capture for the question, the answer.    *)
(* One slot of the ring is one PLAY_DATA payload.  Commands that touch     *)
(* neither thread (volume, status) and the plain ACKs, which the client    *)
(* ignores, are left out.                                                  *)
(***************************************************************************)
EXTENDS Integers, Sequences

CONSTANTS
    MaxChunks,    \* bound: PLAY_DATA messages of one prompt or answer
    RING,         \* PLAY_RING_SIZE in chunks; it holds RING - 1
    SockCap,      \* messages the socket buffers in either direction
    Days          \* workloads: how many recordings are made (a bound), and what
                  \* may go wrong, of "device", "timeout", "crash"

ASSUME AudioAssumption ==
    /\ MaxChunks \in Nat
    /\ RING \in Nat \ {0, 1} /\ SockCap \in Nat \ {0}
    /\ Days \subseteq [captures : Nat, faults : SUBSET {"device", "timeout", "crash"}]

VARIABLES
    \* the client: the voice thread, the receiver and what they share
    cpc,         \* where the voice thread is
    phase,       \* "wake", "prompt", "listen", "answer"
    captures,    \* recordings started
    plays,       \* prompts and answers started
    sent,        \* chunks of the current one sent
    cb,          \* s_data_cb is set
    ack,         \* s_ack_flag
    connected,   \* s_connected
    rpc,         \* the frame the receiver has in the callback, 0 for none, and
                 \* whether it is to be appended to the question's buffer
    recorded,    \* recordings the frames in the question's buffer come from
    doneOf,      \* which play the last PLAY_DONE received was for
    \* the socket
    c2s, s2c,
    \* the server's main thread
    spc,         \* "read", "write", "joinCapture", "joinDrain", "joinFlush", "dead"
    chunk,       \* the payload it is writing to the ring
    capturing,   \* the recording the last RECORD_START was for
    playing,     \* the play the last PLAY_START was for
    \* the ring
    ring, rd, wr, flushing,
    \* the capture and the playback thread: where it is, s_running, s_active
    kpc, kRunning, kActive,
    ppc, pRunning, pActive, draining,
    hand,        \* the chunk the playback thread has read
    heard,       \* what it has offered to the device since PLAY_START: the chunk,
                 \* or Silence in its place where the device did not take it
    day          \* the workload of this behaviour

voice == <<cpc, phase, captures, plays, sent, cb>>
receiver == <<rpc, recorded>>
sync == <<ack, connected, doneOf>>
server == <<spc, chunk, capturing, playing>>
ringVars == <<ring, rd, wr, flushing>>
capture == <<kpc, kRunning, kActive>>
playback == <<ppc, pRunning, pActive, draining, hand, heard>>
process == <<server, ringVars, capture, playback>>
vars == <<voice, receiver, sync, c2s, s2c, process, day>>

NoFrame == [frame |-> 0, append |-> FALSE]
Silence == <<0, 0>>

Init ==
    /\ cpc = "recordStart" /\ phase = "wake"
    /\ captures = 0 /\ plays = 0 /\ sent = 0
    /\ cb = FALSE /\ ack = FALSE /\ connected = TRUE
    /\ rpc = NoFrame /\ recorded = {} /\ doneOf = 0
    /\ c2s = <<>> /\ s2c = <<>>
    /\ spc = "read" /\ chunk = <<0, 0>> /\ capturing = 0 /\ playing = 0
    /\ ring = [i \in 0 .. RING - 1 |-> <<0, 0>>]
    /\ rd = 0 /\ wr = 0 /\ flushing = FALSE
    /\ kpc = "none" /\ kRunning = FALSE /\ kActive = FALSE
    /\ ppc = "none" /\ pRunning = FALSE /\ pActive = FALSE
    /\ draining = FALSE /\ hand = <<0, 0>> /\ heard = <<>>
    /\ day \in Days

-----------------------------------------------------------------------------
\* The client: ipc_send blocks while the socket is full.
Send(type, arg) ==
    /\ connected /\ spc # "dead"
    /\ Len(c2s) < SockCap
    /\ c2s' = Append(c2s, [type |-> type, arg |-> arg])

RecordStart ==
    /\ cpc = "recordStart" /\ captures < day.captures
    /\ Send("RECORD_START", captures + 1)
    /\ captures' = captures + 1
    /\ cb' = TRUE
    /\ cpc' = "recording"
    /\ UNCHANGED <<phase, plays, sent, receiver, sync, s2c, process>>

\* After the wake word the prompt is played; after a question its answer, or the
\* voice thread goes back to waiting for the wake word.
RecordStop ==
    /\ cpc = "recording"
    /\ Send("RECORD_STOP", 0)
    /\ cb' = FALSE
    /\ \/ cpc' = "playStart" /\ phase' = IF phase = "wake" THEN "prompt" ELSE "answer"
       \/ phase = "listen" /\ cpc' = "recordStart" /\ phase' = "wake"
    /\ UNCHANGED <<captures, plays, sent, receiver, sync, s2c, process>>

PlayStart ==
    /\ cpc = "playStart"
    /\ Send("PLAY_START", plays + 1)
    /\ plays' = plays + 1
    /\ sent' = 0
    /\ cpc' = "play"
    /\ UNCHANGED <<phase, captures, cb, receiver, sync, s2c, process>>

PlayPcm ==
    /\ cpc = "play" /\ sent < MaxChunks
    /\ Send("PLAY_DATA", <<plays, sent + 1>>)
    /\ sent' = sent + 1
    /\ UNCHANGED <<cpc, phase, captures, plays, cb, receiver, sync, s2c, process>>

PlayEndKeepsAck ==
    /\ cpc = "play"
    /\ \/ Send("PLAY_STOP", plays)
       \/ phase = "answer" /\ Send("PLAY_FLUSH", plays)
    /\ cpc' = "wait"
    /\ UNCHANGED <<phase, captures, plays, sent, cb, receiver, sync, s2c, process>>

\* play_stop, or play_flush for an answer that was interrupted: clear the flag,
\* send, and wait.
PlayEnd ==
    /\ cpc = "play"
    /\ \/ Send("PLAY_STOP", plays)
       \/ phase = "answer" /\ Send("PLAY_FLUSH", plays)
    /\ ack' = FALSE
    /\ cpc' = "wait"
    /\ UNCHANGED <<phase, captures, plays, sent, cb, receiver, connected, doneOf, s2c,
                   process>>

\* After the prompt comes the question, with an empty buffer, unless the STT
\* stream cannot be opened.
Played ==
    /\ cpc' = "recordStart"
    /\ \/ phase = "prompt" /\ phase' \in {"listen", "wake"} /\ recorded' = {}
       \/ phase = "answer" /\ phase' = "wake" /\ UNCHANGED recorded
    /\ UNCHANGED <<captures, plays, sent, cb, rpc, sync, c2s, s2c, process>>

AckSleep ==
    /\ cpc = "wait" /\ ~ack /\ connected
    /\ cpc' = "asleep"
    /\ UNCHANGED <<phase, captures, plays, sent, cb, receiver, sync, c2s, s2c, process>>

AckReturn == cpc = "wait" /\ (ack \/ ~connected) /\ Played

\* 30 s or 5 s have passed; a disconnection does not end the wait any earlier.
AckTimeout == cpc = "asleep" /\ ("timeout" \in day.faults \/ ~connected) /\ Played

\* Every send fails once the process is gone, and the next record_start ends the
\* voice thread.
VoiceEnds ==
    /\ cpc \in {"recordStart", "recording", "playStart", "play"}
    /\ ~connected \/ spc = "dead"
    /\ connected' = FALSE
    /\ cpc' = "exit"
    /\ UNCHANGED <<phase, captures, plays, sent, cb, receiver, ack, doneOf, c2s, s2c,
                   process>>

\* The receiver: a frame goes to the callback that is set when it is looked at,
\* which samples the voice thread's state.
ReceiveData ==
    /\ rpc = NoFrame /\ s2c # <<>> /\ Head(s2c).type = "AUDIO_DATA"
    /\ s2c' = Tail(s2c)
    /\ rpc' = IF cb THEN [frame |-> Head(s2c).arg, append |-> phase = "listen"]
              ELSE NoFrame
    /\ UNCHANGED <<voice, recorded, sync, c2s, process>>

CallbackReturns ==
    /\ rpc # NoFrame
    /\ rpc' = NoFrame
    /\ recorded' = IF rpc.append THEN recorded \cup {rpc.frame} ELSE recorded
    /\ UNCHANGED <<voice, sync, c2s, s2c, process>>

ReceiveDoneNoSignal ==
    /\ rpc = NoFrame /\ s2c # <<>> /\ Head(s2c).type = "PLAY_DONE"
    /\ s2c' = Tail(s2c)
    /\ ack' = TRUE
    /\ doneOf' = Head(s2c).arg
    /\ UNCHANGED <<voice, receiver, connected, c2s, process>>

ReceiveDone ==
    /\ rpc = NoFrame /\ s2c # <<>> /\ Head(s2c).type = "PLAY_DONE"
    /\ s2c' = Tail(s2c)
    /\ ack' = TRUE
    /\ doneOf' = Head(s2c).arg
    /\ cpc' = IF cpc = "asleep" THEN "wait" ELSE cpc
    /\ UNCHANGED <<phase, captures, plays, sent, cb, receiver, connected, c2s, process>>

\* End of file: the flag is cleared and nobody is signalled.
ReceiveEof ==
    /\ rpc = NoFrame /\ s2c = <<>> /\ spc = "dead" /\ connected
    /\ connected' = FALSE
    /\ UNCHANGED <<voice, receiver, ack, doneOf, c2s, s2c, process>>

-----------------------------------------------------------------------------
\* The ring between the server's main thread and the playback thread.
SlotAfter(i) == (i + 1) % RING

Avail == (wr - rd + RING) % RING
FreeAll == RING - Avail
Free == RING - 1 - Avail

RingClear == rd' = 0 /\ wr' = 0 /\ flushing' = FALSE /\ UNCHANGED ring

\* The server's main thread: handle_command, one command after the other.
Command(type) == spc = "read" /\ c2s # <<>> /\ Head(c2s).type = type

OnRecordStart ==
    /\ Command("RECORD_START")
    /\ c2s' = Tail(c2s)
    /\ IF ~kActive /\ ~kRunning
       THEN kRunning' = TRUE /\ kpc' = "opening" /\ capturing' = Head(c2s).arg
       ELSE UNCHANGED <<kRunning, kpc, capturing>>
    /\ UNCHANGED <<voice, receiver, sync, s2c, spc, chunk, playing, ringVars, kActive,
                   playback>>

OnRecordStopNoJoin ==
    /\ Command("RECORD_STOP")
    /\ c2s' = Tail(c2s)
    /\ kRunning' = FALSE
    /\ UNCHANGED <<voice, receiver, sync, s2c, server, ringVars, kpc, kActive, playback>>

OnRecordStop ==
    /\ Command("RECORD_STOP")
    /\ c2s' = Tail(c2s)
    /\ spc' = IF kRunning THEN "joinCapture" ELSE "read"
    /\ kRunning' = FALSE
    /\ UNCHANGED <<voice, receiver, sync, s2c, chunk, capturing, playing, ringVars, kpc,
                   kActive, playback>>

CaptureJoined ==
    /\ spc = "joinCapture" /\ kpc = "ended"
    /\ spc' = "read" /\ kpc' = "none"
    /\ UNCHANGED <<voice, receiver, sync, c2s, s2c, chunk, capturing, playing, ringVars,
                   kRunning, kActive, playback>>

OnPlayStart ==
    /\ Command("PLAY_START")
    /\ c2s' = Tail(c2s)
    /\ RingClear
    /\ playing' = Head(c2s).arg /\ heard' = <<>>
    /\ IF ~pActive /\ ~pRunning
       THEN pRunning' = TRUE /\ ppc' = "opening" /\ draining' = FALSE
       ELSE UNCHANGED <<pRunning, ppc, draining>>
    /\ UNCHANGED <<voice, receiver, sync, s2c, spc, chunk, capturing, capture, pActive,
                   hand>>

OnPlayData ==
    /\ Command("PLAY_DATA")
    /\ c2s' = Tail(c2s)
    /\ spc' = "write" /\ chunk' = Head(c2s).arg
    /\ UNCHANGED <<voice, receiver, sync, s2c, capturing, playing, ringVars, capture,
                   playback>>

\* play_ring_write: it looks again every 5 ms while the ring is full.
RingWrite ==
    /\ spc = "write" /\ (flushing \/ Free > 0)
    /\ spc' = "read"
    /\ IF flushing THEN UNCHANGED <<ring, wr>>
       ELSE ring' = [ring EXCEPT ![wr] = chunk] /\ wr' = SlotAfter(wr)
    /\ UNCHANGED <<voice, receiver, sync, c2s, s2c, chunk, capturing, playing, rd,
                   flushing, capture, playback>>

\* PLAY_STOP drains, PLAY_FLUSH stops: tell the playback thread and join it, if one
\* was started; then clear the ring and report.
OnPlayStop ==
    /\ Command("PLAY_STOP")
    /\ c2s' = Tail(c2s)
    /\ spc' = "joinDrain"
    /\ draining' = pRunning
    /\ UNCHANGED <<voice, receiver, sync, s2c, chunk, capturing, playing, ringVars,
                   capture, ppc, pRunning, pActive, hand, heard>>

OnPlayFlush ==
    /\ Command("PLAY_FLUSH")
    /\ c2s' = Tail(c2s)
    /\ spc' = "joinFlush"
    /\ flushing' = TRUE
    /\ pRunning' = FALSE
    /\ UNCHANGED <<voice, receiver, sync, s2c, chunk, capturing, playing, ring, rd, wr,
                   capture, ppc, pActive, draining, hand, heard>>

PlaybackJoined ==
    /\ spc \in {"joinDrain", "joinFlush"} /\ ppc \in {"none", "ended"}
    /\ Len(s2c) < SockCap
    /\ s2c' = Append(s2c, [type |-> "PLAY_DONE", arg |-> playing])
    /\ spc' = "read" /\ ppc' = "none"
    /\ pRunning' = FALSE /\ draining' = FALSE
    /\ RingClear
    /\ UNCHANGED <<voice, receiver, sync, c2s, chunk, capturing, playing, capture,
                   pActive, hand, heard>>

-----------------------------------------------------------------------------
\* The capture thread.
CaptureOpens ==
    /\ kpc = "opening"
    /\ \/ kpc' = "loop" /\ kActive' = TRUE
       \/ "device" \in day.faults /\ kpc' = "ended" /\ UNCHANGED kActive
    /\ UNCHANGED <<voice, receiver, sync, c2s, s2c, server, ringVars, kRunning, playback>>

\* A frame is read from the device and sent, which blocks while the socket is full.
CaptureFrame ==
    \/ /\ kpc = "loop" /\ kRunning
       /\ kpc' = "frame"
       /\ UNCHANGED <<voice, receiver, sync, c2s, s2c, server, ringVars, kRunning,
                      kActive, playback>>
    \/ /\ kpc = "frame" /\ Len(s2c) < SockCap
       /\ s2c' = Append(s2c, [type |-> "AUDIO_DATA", arg |-> capturing])
       /\ kpc' = "loop"
       /\ UNCHANGED <<voice, receiver, sync, c2s, server, ringVars, kRunning, kActive,
                      playback>>

\* The loop ends when it is told to, or when the device cannot be recovered;
\* s_running is not touched.
CaptureEnds ==
    /\ kpc = "loop" /\ (~kRunning \/ "device" \in day.faults)
    /\ kpc' = "ended" /\ kActive' = FALSE
    /\ UNCHANGED <<voice, receiver, sync, c2s, s2c, server, ringVars, kRunning, playback>>

\* The playback thread.
PlaybackOpens ==
    /\ ppc = "opening"
    /\ \/ ppc' = "loop" /\ pActive' = TRUE
       \/ "device" \in day.faults /\ ppc' = "ended" /\ UNCHANGED pActive
    /\ UNCHANGED <<voice, receiver, sync, c2s, s2c, server, ringVars, capture, pRunning,
                   draining, hand, heard>>

\* play_ring_read, then what was got is looked at.
RingRead ==
    /\ ppc = "loop" /\ pRunning
    /\ IF Avail > 0
       THEN ppc' = "play" /\ hand' = ring[rd] /\ rd' = SlotAfter(rd)
       ELSE ppc' = "empty" /\ UNCHANGED <<hand, rd>>
    /\ UNCHANGED <<voice, receiver, sync, c2s, s2c, server, ring, wr, flushing, capture,
                   pRunning, pActive, draining, heard>>

\* snd_pcm_writei fails after an underrun, that is whenever the ring has been empty
\* for longer than the device's buffer lasts: the device is prepared again, and the
\* chunk is not written a second time.
PlayChunk ==
    /\ ppc = "play"
    /\ heard' \in {Append(heard, hand), Append(heard, Silence)}
    /\ ppc' = "loop"
    /\ UNCHANGED <<voice, receiver, sync, c2s, s2c, server, ringVars, capture, pRunning,
                   pActive, draining, hand>>

NothingToPlay ==
    /\ ppc = "empty"
    /\ ppc' = IF draining THEN "closing" ELSE "loop"
    /\ UNCHANGED <<voice, receiver, sync, c2s, s2c, server, ringVars, capture, pRunning,
                   pActive, draining, hand, heard>>

PlaybackEnds ==
    /\ ppc = "closing" \/ (ppc = "loop" /\ ~pRunning)
    /\ ppc' = "ended" /\ pActive' = FALSE
    /\ UNCHANGED <<voice, receiver, sync, c2s, s2c, server, ringVars, capture, pRunning,
                   draining, hand, heard>>

\* The audio process dies; what it has sent can still be read.
Crash ==
    /\ "crash" \in day.faults /\ spc # "dead"
    /\ spc' = "dead" /\ kpc' = "none" /\ ppc' = "none"
    /\ c2s' = <<>>
    /\ UNCHANGED <<voice, receiver, sync, s2c, chunk, capturing, playing, ringVars,
                   kRunning, kActive, pRunning, pActive, draining, hand, heard>>

-----------------------------------------------------------------------------
SameDay == UNCHANGED day

PlayStep == SameDay /\
    (\/ PlayStart \/ PlayPcm \/ PlayEnd \/ AckSleep \/ AckReturn \/ AckTimeout
     \/ VoiceEnds)

ReceiverStep ==
    SameDay /\ (ReceiveData \/ CallbackReturns \/ ReceiveDone \/ ReceiveEof)

ServerStep == SameDay /\
    (\/ OnRecordStart \/ OnRecordStop \/ CaptureJoined \/ OnPlayStart \/ OnPlayData
     \/ RingWrite \/ OnPlayStop \/ OnPlayFlush \/ PlaybackJoined)

CaptureStep == SameDay /\ (CaptureOpens \/ CaptureFrame \/ CaptureEnds)

PlaybackStep == SameDay /\
    (PlaybackOpens \/ RingRead \/ PlayChunk \/ NothingToPlay \/ PlaybackEnds)

\* The bound on recordings is reached, or the voice thread has ended.
Rest ==
    /\ cpc = "exit" \/ (cpc = "recordStart" /\ captures = day.captures)
    /\ UNCHANGED vars

Next ==
    \/ SameDay /\ (RecordStart \/ RecordStop)
    \/ PlayStep
    \/ ReceiverStep \/ ServerStep \/ CaptureStep \/ PlaybackStep
    \/ SameDay /\ Crash
    \/ Rest

Spec == Init /\ [][Next]_vars

\* Every thread runs, and the device gives sound and takes or refuses it; a write to
\* the socket waits as long as nobody reads.  How long a recording lasts is up to the
\* user.
FairSpec ==
    /\ Spec
    /\ WF_vars(PlayStep) /\ WF_vars(ReceiverStep) /\ WF_vars(ServerStep)
    /\ WF_vars(CaptureStep) /\ WF_vars(PlaybackStep)

(***************************************************************************)
(* Properties.                                                             *)
(***************************************************************************)

Chunks == {<<0, 0>>} \cup ((1 .. day.captures) \X (1 .. MaxChunks))

\* Each variable stays in its range.
TypeOK ==
    /\ cpc \in {"recordStart", "recording", "playStart", "play", "wait", "asleep",
                "exit"}
    /\ phase \in {"wake", "prompt", "listen", "answer"}
    /\ captures \in 0 .. day.captures /\ plays \in 0 .. captures
    /\ sent \in 0 .. MaxChunks
    /\ cb \in BOOLEAN /\ ack \in BOOLEAN /\ connected \in BOOLEAN
    /\ rpc.frame \in 0 .. captures /\ recorded \subseteq 1 .. captures
    /\ doneOf \in 0 .. plays
    /\ Len(c2s) <= SockCap /\ Len(s2c) <= SockCap
    /\ spc \in {"read", "write", "joinCapture", "joinDrain", "joinFlush", "dead"}
    /\ chunk \in Chunks /\ capturing \in 0 .. captures /\ playing \in 0 .. plays
    /\ \A i \in 0 .. RING - 1 : ring[i] \in Chunks
    /\ rd \in 0 .. RING - 1 /\ wr \in 0 .. RING - 1
    /\ kpc \in {"none", "opening", "loop", "frame", "ended"}
    /\ ppc \in {"none", "opening", "loop", "empty", "play", "closing", "ended"}
    /\ hand \in Chunks

\* What comes out of the loudspeaker is the current prompt or answer, from its
\* beginning and in order; a chunk is missing where the device refused it, after an
\* underrun for one, and nowhere else: nothing of an earlier one is left in the ring,
\* nothing comes twice, and the ring never runs over.
HeardInOrder == \A i \in 1 .. Len(heard) : heard[i] \in {<<playing, i>>, Silence}

\* "Stop recording to avoid contaminating STT": the question's buffer holds frames
\* of the recording made for it, though frames of the one before it may still have
\* been in the socket or in the callback when that was stopped: the prompt's PLAY_DONE
\* comes after them, unless the wait for it times out.
RecordingFresh ==
    phase = "listen" /\ "timeout" \notin day.faults
    => recorded \subseteq IF cpc = "recordStart" THEN {} ELSE {captures}

\* Neither direction mixes what belongs to two turns.
SoundIntact == HeardInOrder /\ RecordingFresh

\* The microphone and the loudspeaker are never open at the same time.
HalfDuplex ==
    ~(kpc \in {"loop", "frame"} /\ ppc \in {"loop", "empty", "play", "closing"})

\* Playing a prompt or an answer never hangs the voice thread, whatever the sizes
\* of the socket's buffers and of the ring, unless a device fails.
PlayReturns ==
    cpc \in {"playStart", "play", "wait", "asleep"} /\ "device" \notin day.faults
    ~> cpc \in {"recordStart", "exit"}

\* "Graceful drain: wait for ring buffer empty + ALSA drain, then stop": when
\* play_stop has been carried out, every chunk that was sent has been offered to the
\* device, which may have refused it.
DrainEmptiesRing ==
    [][PlaybackJoined /\ spc = "joinDrain" => Len(heard) = sent]_vars

\* "Unblocked by s_play_flushing flag (set by PLAY_FLUSH)".
FlushUnblocks ==
    spc = "write" /\ (\E i \in 1 .. Len(c2s) : c2s[i].type = "PLAY_FLUSH")
    ~> spc # "write"

\* "Block until audio process finishes drain + sends ACK": the PLAY_DONE that ends
\* a wait is that of the play it is waiting for.  It is, as long as no wait times
\* out before its PLAY_DONE has come.
AckIsOwn == [][AckReturn /\ ack /\ "timeout" \notin day.faults => doneOf = plays]_vars
=============================================================================
