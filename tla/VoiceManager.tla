---------------------------- MODULE VoiceManager ----------------------------
(***************************************************************************)
(* The voice assistant's state machine (src/src/voice/voice_manager.c):    *)
(* the voice thread with the threads it shares its flags with - the GPIO   *)
(* poll thread (button_cb), the audio receiver (audio_data_cb), the main   *)
(* loop (voice_manager_on_response, voice_manager_stop) and, behind the    *)
(* message bus, the agent.                                                 *)
(*                                                                         *)
(* vpc is where the voice thread is.  A section under s_evt_mutex or       *)
(* s_resp_mutex is one step, and so is a blocking call into the audio      *)
(* service or the STT/TTS clients; state the thread reads or writes        *)
(* outside a mutex is read or written in a step of its own.  Questions are *)
(* numbered by round, and an answer says which question it is to.          *)
(***************************************************************************)
EXTENDS Integers, Sequences

CONSTANTS
    MaxTriggers,   \* bound: button presses, and twice the times the wake word is
                   \* said, which may start two rounds
    MaxCron,       \* bound: messages to the "voice" channel nobody asked for
    PcmCap,        \* PCM_BUF_SIZE in frames
    MinFrames      \* 3200 bytes in frames: a shorter recording is ignored

ASSUME VoiceAssumption ==
    /\ MaxTriggers \in Nat /\ MaxCron \in Nat
    /\ PcmCap \in Nat /\ MinFrames \in Nat

VARIABLES
    s_running, s_state,
    s_btn_pressed, s_btn_wake_event, s_wake_detected, s_interrupt,
    s_response_text,   \* the answer that waits for the voice thread, or None
    s_pcm_len,         \* frames in the recording buffer
    cb,                \* audio_data_cb is registered with the audio service
    cbState,           \* the state audio_data_cb sampled; "called" before that,
                       \* "out" when the receiver is not in it
    keyword,           \* the detector's stream holds a detected keyword
    connected,         \* the audio process can be reached
    vpc, woke_by_btn,
    heldBy,            \* the thread stands in a call without a limit of its own:
                       \* "audio", a write to the socket, or "speech", a stream
                       \* of the speech service; else "nobody"
    resp,              \* the answer being spoken, or None
    mpc,               \* main: "loop", or its place in voice_manager_stop
    pending,           \* messages the agent has not answered yet
    round,             \* questions so far
    presses, keywords, crons, wakes,   \* how often each has happened
    pressedTalking     \* the button was pressed since s_interrupt was last
                       \* cleared, and before it was looked at

flags == <<s_btn_pressed, s_btn_wake_event, s_wake_detected, s_interrupt>>
capture == <<cb, cbState, keyword, connected>>
talk == <<woke_by_btn, resp, round, wakes, pressedTalking>>
world == <<s_running, mpc, pending, crons, presses, keywords>>
data == <<s_response_text, s_pcm_len>>
vars == <<flags, data, capture, talk, world, s_state, vpc, heldBy>>

None == [to |-> -1, since |-> -1]

Init ==
    /\ s_running = TRUE
    /\ s_state = "WAKE_LISTENING"
    /\ s_btn_pressed = FALSE
    /\ s_btn_wake_event = FALSE
    /\ s_wake_detected = FALSE
    /\ s_interrupt = FALSE
    /\ s_response_text = None
    /\ s_pcm_len = 0
    /\ cb = FALSE
    /\ cbState = "out"
    /\ keyword = FALSE
    /\ connected = TRUE
    /\ vpc = "top" /\ heldBy = "nobody"
    /\ woke_by_btn = FALSE
    /\ resp = None
    /\ mpc = "loop"
    /\ pending = <<>>
    /\ round = 0
    /\ presses = 0 /\ keywords = 0 /\ crons = 0 /\ wakes = 0
    /\ pressedTalking = FALSE

Go(from, to) == vpc = from /\ vpc' = to

\* A step that only moves the voice thread; one that also enters state st.
Move(from, to) ==
    Go(from, to) /\ UNCHANGED <<flags, data, capture, talk, world,
                                s_state>>

Enter(from, to, st) ==
    /\ Go(from, to)
    /\ s_state' = st
    /\ UNCHANGED <<flags, data, capture, talk, world>>

\* A step that moves the voice thread and (un)registers the audio callback.
Capture(from, to, on) ==
    /\ Go(from, to)
    /\ cb' = on
    /\ UNCHANGED <<flags, data, cbState, keyword, connected, talk, world,
                   s_state>>

-----------------------------------------------------------------------------
\* The voice thread: waiting to be woken.

LoopEnds == ~s_running /\ Move("top", "exit")

\* record_start registers the callback before it sends the command, so it stays
\* registered when the send fails; the thread then ends for good.
StartWakeCapture ==
    /\ s_running
    /\ Go("top", IF connected THEN "reset" ELSE "exit")
    /\ s_state' = "WAKE_LISTENING"
    /\ cb' = TRUE
    /\ UNCHANGED <<flags, data, cbState, keyword, connected, talk, world>>

ResetDetectorAndButton ==
    /\ Go("reset", "wait")
    /\ keyword' = FALSE
    /\ s_btn_wake_event' = FALSE
    /\ UNCHANGED <<s_btn_pressed, s_wake_detected, s_interrupt, data, cb, cbState,
                   connected, talk, world, s_state>>

ResetDetector ==
    /\ Go("reset", "wait")
    /\ keyword' = FALSE
    /\ UNCHANGED <<flags, data, cb, cbState, connected, talk, world, s_state>>

Woken == ~s_running \/ s_wake_detected \/ s_btn_wake_event

SleepUnlessDetected == s_running /\ ~s_wake_detected /\ Move("wait", "asleep")

Sleep == ~Woken /\ Move("wait", "asleep")

\* wait_wake_event returns and takes both events; when the program is stopping
\* the thread stops the capture and ends.
Wake ==
    /\ Woken
    /\ Go("wait", IF s_running THEN "recordStop" ELSE "exit")
    /\ woke_by_btn' = s_btn_wake_event
    /\ s_btn_wake_event' = FALSE
    /\ s_wake_detected' = FALSE
    /\ cb' = (cb /\ s_running)
    /\ wakes' = IF s_running THEN wakes + 1 ELSE wakes
    /\ UNCHANGED <<s_btn_pressed, s_interrupt, data, cbState, keyword, connected,
                   s_state, resp, round, pressedTalking, world>>

RecordStop == Capture("recordStop", "prompt", FALSE)

\* play_wake_prompt returns: played, timed out or nothing to play.
PromptDone == Move("prompt", "listen")

-----------------------------------------------------------------------------
\* The voice thread: recording and recognition.

StartListening ==
    /\ Go("listen", "sttOpen")
    /\ s_state' = "LISTENING"
    /\ s_pcm_len' = 0
    /\ UNCHANGED <<flags, s_response_text, capture, talk, world>>

SttOpenFails == Move("sttOpen", "top")

StartRecording == Capture("sttOpen", IF connected THEN "listening" ELSE "top", TRUE)

\* Push to talk ends with the button's release, the wake word's recording with
\* silence after enough speech; either ends when the program stops.
StopListening ==
    /\ ~s_running \/ IF woke_by_btn THEN ~s_btn_pressed ELSE s_pcm_len > 0
    /\ Move("listening", "recordEnd")

\* 15 s have passed, or a chunk could not be sent.
GiveUpListening == Move("listening", "recordEnd")

RecordEnd == Capture("recordEnd", "judge", FALSE)

\* A recording that is too short is ignored, with s_state still LISTENING.
TooShort == s_pcm_len < MinFrames /\ Move("judge", "top")

SendRest == s_pcm_len >= MinFrames /\ Enter("judge", "finish", "RECOGNIZING")

NothingRecognized == Move("finish", "top")

Recognized == Enter("finish", "clear", "THINKING")

-----------------------------------------------------------------------------
\* The voice thread: asking the agent.

ClearForgotten ==
    /\ Go("clear", "push")
    /\ round' = round + 1
    /\ UNCHANGED <<flags, data, capture, woke_by_btn, resp, wakes, pressedTalking,
                   world, s_state>>

\* A new round begins: an answer still in the slot is discarded.
ClearStale ==
    /\ Go("clear", "push")
    /\ s_response_text' = None
    /\ round' = round + 1
    /\ UNCHANGED <<flags, s_pcm_len, capture, woke_by_btn, resp, wakes,
                   pressedTalking, world, s_state>>

Ask ==
    /\ Go("push", "response")
    /\ pending' = Append(pending, round)
    /\ UNCHANGED <<flags, data, capture, talk, s_state, s_running, mpc, crons,
                   presses, keywords>>

BusRefuses == Move("push", "top")

SleepForResponse ==
    s_running /\ s_response_text = None /\ Move("response", "responseAsleep")

\* Thirty seconds without an answer.
ResponseTimeout == Move("responseAsleep", "responseLate")

\* The wait ends: with an answer, because of the stop, or late.  Whatever is in
\* the slot is taken.
TakeResponse ==
    /\ \/ vpc = "response" /\ (~s_running \/ s_response_text # None)
       \/ vpc = "responseLate"
    /\ s_response_text' = None
    /\ IF s_running /\ s_response_text # None
       THEN vpc' = "speak" /\ resp' = s_response_text
       ELSE vpc' = "top" /\ resp' = None
    /\ UNCHANGED <<flags, s_pcm_len, capture, woke_by_btn, round, wakes,
                   pressedTalking, world, s_state>>

-----------------------------------------------------------------------------
\* The voice thread: speaking.

StartSpeaking ==
    /\ Go("speak", "clearInterrupt")
    /\ s_state' = "SPEAKING"
    /\ UNCHANGED <<flags, data, capture, talk, world>>

\* Without the mutex, and after the state has changed: a press in between is lost.
ClearInterrupt ==
    /\ Go("clearInterrupt", "synthesize")
    /\ s_interrupt' = FALSE
    /\ pressedTalking' = FALSE
    /\ UNCHANGED <<s_btn_pressed, s_btn_wake_event, s_wake_detected, data,
                   capture, woke_by_btn, resp, round, wakes, world, s_state>>

\* xfyun_tts_synthesize returns: all sent to the audio process, failed or aborted.
Synthesized == Move("synthesize", "ending")

ChooseEnding == Move("ending", IF s_interrupt THEN "flush" ELSE "drain")

\* play_flush drops what is buffered; play_stop plays it to the end.
Silent(from) ==
    /\ Go(from, "top")
    /\ resp' = None
    /\ UNCHANGED <<flags, data, capture, woke_by_btn, round, wakes,
                   pressedTalking, world, s_state>>

Flushed == Silent("flush")
Drained == Silent("drain")

-----------------------------------------------------------------------------
\* Where the voice thread sends a command or sound to the audio process: ipc_send
\* writes without a time limit, and the thread that should read may be waiting for
\* room in its ring (AudioIpc).
Writes ==
    \/ vpc \in {"top", "recordStop", "prompt", "sttOpen", "recordEnd", "synthesize",
               "flush", "drain"}
    \/ vpc = "wait" /\ ~s_running

\* A call does not return for now.  In xfyun_stt_stream_finish and in
\* xfyun_tts_synthesize each frame that comes begins the 30 s of silence anew.
Held ==
    /\ heldBy = "nobody"
    /\ \/ Writes /\ connected /\ heldBy' = "audio"
       \/ vpc \in {"finish", "synthesize"} /\ heldBy' = "speech"
    /\ UNCHANGED <<flags, data, capture, talk, world, s_state, vpc>>

-----------------------------------------------------------------------------
\* The other threads.

\* pthread_cond_signal on s_evt_cond, on s_resp_cond: only the voice thread waits.
SignalEvent == vpc' = IF vpc = "asleep" THEN "wait" ELSE vpc
SignalResponse == vpc' = IF vpc = "responseAsleep" THEN "response" ELSE vpc

PressOnlyWakes ==
    /\ mpc \in {"loop", "event", "response", "gpio"}
    /\ ~s_btn_pressed /\ presses + 2 * keywords < MaxTriggers
    /\ presses' = presses + 1
    /\ s_btn_pressed' = TRUE
    /\ s_btn_wake_event' = TRUE
    /\ pressedTalking' = (pressedTalking \/ vpc \in {"synthesize", "ending"})
    /\ SignalEvent
    /\ UNCHANGED <<s_wake_detected, s_interrupt, data, capture, woke_by_btn, resp,
                   round, wakes, s_running, mpc, pending, crons, keywords,
                   s_state>>

\* button_cb(1), until gpio_button_stop has joined its thread.
Press ==
    /\ mpc \in {"loop", "event", "response", "gpio"}
    /\ ~s_btn_pressed /\ presses + 2 * keywords < MaxTriggers
    /\ presses' = presses + 1
    /\ s_btn_pressed' = TRUE
    /\ s_btn_wake_event' = TRUE
    /\ s_interrupt' = (s_interrupt \/ s_state = "SPEAKING")
    /\ pressedTalking' = (pressedTalking \/ vpc \in {"synthesize", "ending"})
    /\ SignalEvent
    /\ UNCHANGED <<s_wake_detected, data, capture, woke_by_btn, resp, round,
                   wakes, s_running, mpc, pending, crons, keywords, s_state>>

Release ==
    /\ mpc \in {"loop", "event", "response", "gpio"}
    /\ s_btn_pressed
    /\ s_btn_pressed' = FALSE
    /\ SignalEvent
    /\ UNCHANGED <<s_btn_wake_event, s_wake_detected, s_interrupt,
                   s_response_text, s_pcm_len, capture, talk, world, s_state>>

\* The receiver has a frame and finds the callback registered.
CallbackCall ==
    /\ cb /\ connected /\ cbState = "out"
    /\ cbState' = "called"
    /\ UNCHANGED <<flags, data, cb, keyword, connected, talk, world, s_state,
                   vpc>>

\* audio_data_cb, now running, samples s_state: by now the thread may have
\* unregistered the callback and gone on.
CallbackEnter ==
    /\ cbState = "called"
    /\ cbState' = s_state
    /\ UNCHANGED <<flags, data, cb, keyword, connected, talk, world, s_state,
                   vpc>>

\* In WAKE_LISTENING the frame goes to the detector; the keyword, once heard,
\* stays in the detector's result until the next reset.
CallbackDetect(heard) ==
    /\ cbState = "WAKE_LISTENING"
    /\ cbState' = "out"
    /\ heard => presses + 2 * keywords + 1 < MaxTriggers
    /\ keywords' = IF heard THEN keywords + 1 ELSE keywords
    /\ keyword' = (keyword \/ heard)
    /\ IF keyword' THEN s_wake_detected' = TRUE /\ SignalEvent
                   ELSE UNCHANGED <<s_wake_detected, vpc>>
    /\ UNCHANGED <<s_btn_pressed, s_btn_wake_event, s_interrupt, data, cb,
                   connected, talk, s_running, mpc, pending, crons, presses,
                   s_state>>

\* In LISTENING it is appended if there is room; the end of speech is signalled.
CallbackAppend ==
    /\ cbState = "LISTENING"
    /\ cbState' = "out"
    /\ s_pcm_len' = IF s_pcm_len < PcmCap THEN s_pcm_len + 1 ELSE s_pcm_len
    /\ SignalEvent \/ UNCHANGED vpc
    /\ UNCHANGED <<flags, s_response_text, cb, keyword, connected, talk, world,
                   s_state>>

CallbackIgnore ==
    /\ cbState \notin {"out", "called", "WAKE_LISTENING", "LISTENING"}
    /\ cbState' = "out"
    /\ UNCHANGED <<flags, data, cb, keyword, connected, talk, world, s_state,
                   vpc>>

\* The audio process dies, and a write to it fails.
AudioProcessDies ==
    /\ connected
    /\ connected' = FALSE
    /\ heldBy' = IF heldBy = "audio" THEN "nobody" ELSE heldBy
    /\ UNCHANGED <<flags, data, cb, cbState, keyword, talk, world, s_state, vpc>>

\* A cron job or another tool sends the agent a message for the voice channel.
CronAsks ==
    /\ mpc = "loop" /\ crons < MaxCron
    /\ crons' = crons + 1
    /\ pending' = Append(pending, 0)
    /\ UNCHANGED <<flags, data, capture, talk, s_running, mpc, presses, keywords,
                   s_state, vpc>>

\* The agent answers in turn and the main loop calls voice_manager_on_response.
Answer ==
    /\ mpc = "loop" /\ pending # <<>>
    /\ pending' = Tail(pending)
    /\ s_response_text' = [to |-> Head(pending), since |-> round]
    /\ SignalResponse
    /\ UNCHANGED <<flags, s_pcm_len, capture, talk, s_running, mpc, crons,
                   presses, keywords, s_state>>

\* No memory in the agent, or the outbound queue was full: no answer comes.
AnswerLost ==
    /\ pending # <<>>
    /\ pending' = Tail(pending)
    /\ UNCHANGED <<flags, data, capture, talk, s_running, mpc, crons, presses,
                   keywords, s_state, vpc>>

-----------------------------------------------------------------------------
\* voice_manager_stop, on the main thread.

StopFlag ==
    /\ mpc = "loop"
    /\ s_running' = FALSE
    /\ mpc' = "event"
    /\ UNCHANGED <<flags, data, capture, talk, pending, crons, presses, keywords,
                   s_state, vpc>>

StopSignalsNobody ==
    /\ mpc \in {"event", "response"}
    /\ mpc' = IF mpc = "event" THEN "response" ELSE "gpio"
    /\ UNCHANGED <<flags, data, capture, talk, s_running, pending, crons, presses,
                   keywords, s_state, vpc>>

StopSignals ==
    /\ mpc \in {"event", "response"}
    /\ IF mpc = "event" THEN mpc' = "response" /\ SignalEvent
                        ELSE mpc' = "gpio" /\ SignalResponse
    /\ UNCHANGED <<flags, data, capture, talk, s_running, pending, crons, presses,
                   keywords, s_state>>

\* gpio_button_stop and pthread_join(s_thread).
StopJoins ==
    /\ \/ mpc = "gpio" /\ mpc' = "join"
       \/ mpc = "join" /\ vpc = "exit" /\ mpc' = "free"
    /\ UNCHANGED <<flags, data, capture, talk, s_running, pending, crons, presses,
                   keywords, s_state, vpc>>

StopFrees ==
    /\ mpc = "free"
    /\ mpc' = "done"
    /\ s_response_text' = None
    /\ UNCHANGED <<flags, s_pcm_len, capture, talk, s_running, pending, crons,
                   presses, keywords, s_state, vpc>>

\* A step ends the call the thread is in, whether or not it was held there.
VoiceStep ==
    /\ heldBy' = "nobody"
    /\ \/ LoopEnds \/ StartWakeCapture \/ ResetDetector \/ Sleep \/ Wake \/ RecordStop
       \/ PromptDone \/ StartListening \/ SttOpenFails \/ StartRecording
       \/ StopListening \/ GiveUpListening \/ RecordEnd \/ TooShort \/ SendRest
       \/ NothingRecognized \/ Recognized \/ ClearStale \/ Ask \/ BusRefuses
       \/ SleepForResponse \/ ResponseTimeout \/ TakeResponse \/ StartSpeaking
       \/ ClearInterrupt \/ Synthesized \/ ChooseEnding \/ Flushed \/ Drained

CallbackStep ==
    /\ UNCHANGED heldBy
    /\ \/ CallbackEnter
       \/ \E heard \in BOOLEAN : CallbackDetect(heard)
       \/ CallbackAppend \/ CallbackIgnore

StopStep == UNCHANGED heldBy /\ (StopSignals \/ StopJoins \/ StopFrees)

\* The program ends some time after the voice manager has.
Ended == mpc = "done" /\ UNCHANGED vars

Next ==
    \/ VoiceStep \/ Held
    \/ CallbackStep \/ AudioProcessDies
    \/ UNCHANGED heldBy /\ (Press \/ Release \/ CallbackCall)
    \/ UNCHANGED heldBy /\ (CronAsks \/ Answer \/ AnswerLost)
    \/ UNCHANGED heldBy /\ StopFlag
    \/ StopStep \/ Ended

Spec == Init /\ [][Next]_vars

\* The voice thread goes on where nothing holds it: play_stop, play_flush, the wait for
\* the answer, the 15 s of listening, the requests and a push to the bus end by their
\* timeouts.  A call it is held in need not return.  The receiver gets through its
\* callback, and the stop goes on once it has begun.  Nothing obliges the user, the
\* agent, the speech service or the audio process to do anything.
FairSpec ==
    /\ Spec
    /\ WF_vars(heldBy = "nobody" /\ VoiceStep)
    /\ WF_vars(CallbackStep) /\ WF_vars(StopStep)

(***************************************************************************)
(* Properties.                                                             *)
(***************************************************************************)

States == {"WAKE_LISTENING", "LISTENING", "RECOGNIZING", "THINKING", "SPEAKING"}
Answers == [to : 0 .. MaxTriggers, since : 0 .. MaxTriggers] \cup {None}

\* Each variable stays in its range; there are no more rounds than triggers, and
\* a keyword triggers at most twice.
TypeOK ==
    /\ s_running \in BOOLEAN /\ s_state \in States
    /\ s_btn_pressed \in BOOLEAN /\ s_btn_wake_event \in BOOLEAN
    /\ s_wake_detected \in BOOLEAN /\ s_interrupt \in BOOLEAN
    /\ s_response_text \in Answers /\ resp \in Answers
    /\ s_pcm_len \in 0 .. PcmCap
    /\ cb \in BOOLEAN /\ cbState \in States \cup {"out", "called"}
    /\ keyword \in BOOLEAN /\ connected \in BOOLEAN
    /\ vpc \in {"top", "reset", "wait", "asleep", "recordStop", "prompt", "listen",
                "sttOpen", "listening", "recordEnd", "judge", "finish", "clear",
                "push", "response", "responseAsleep", "responseLate", "speak",
                "clearInterrupt", "synthesize", "ending", "flush", "drain", "exit"}
    /\ heldBy \in {"nobody", "audio", "speech"}
    /\ mpc \in {"loop", "event", "response", "gpio", "join", "free", "done"}
    /\ woke_by_btn \in BOOLEAN /\ pressedTalking \in BOOLEAN
    /\ \A i \in 1 .. Len(pending) : pending[i] \in 0 .. round
    /\ round <= wakes /\ wakes \in 0 .. MaxTriggers

\* The voice thread never sleeps on work: asleep for a wakeup there is no event,
\* asleep for an answer there is none, and if the program is stopping the signal
\* that will wake it is still to come.
NeverSleepsOnWork ==
    /\ vpc = "asleep" => /\ ~s_wake_detected /\ ~s_btn_wake_event
                         /\ s_running \/ mpc = "event"
    /\ vpc = "responseAsleep" => /\ s_response_text = None
                                 /\ s_running \/ mpc \in {"event", "response"}

\* What is spoken came after the round was counted and the slot cleared, which is just
\* before the question is pushed: an answer that was already waiting is discarded.
NothingStaleSpoken == resp # None => resp.since = round

\* "Stop recording to avoid contaminating STT": the callback is not registered while
\* the prompt or the answer plays, nor while STT and the agent work, so no frame is
\* delivered then but the one the receiver may have in hand.
CaptureIsolated ==
    cb => vpc \in {"top", "reset", "wait", "asleep", "recordStop", "listening",
                   "recordEnd", "exit"}

\* A press is answered, in whatever state it comes: the thread starts a push to
\* talk round - unless the program stops, the audio process is gone, or the thread
\* stands for ever in a write that process does not read or a stream the speech
\* service does not end.
PressAnswered ==
    []<>(heldBy = "nobody")
    => (s_btn_wake_event ~> \/ vpc = "recordStop" /\ woke_by_btn
                            \/ ~s_running \/ ~connected)

\* voice_manager_stop returns, wherever the voice thread is, but for the same two
\* calls: it sets s_running and signals, which neither of them looks at.
StopReturns == []<>(heldBy = "nobody") => ((mpc # "loop") ~> (mpc = "done"))

\* "During SPEAKING: press interrupts TTS playback": a press while the answer is
\* synthesized, up to the moment s_interrupt is looked at, cuts the answer off.
PressInterrupts == [][Drained => ~pressedTalking]_vars

\* The answer spoken is the answer to the question just asked.
RightAnswer == resp # None => resp.to = round
=============================================================================
