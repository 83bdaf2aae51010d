------------------------- MODULE VoiceManagerProofs -------------------------
(***************************************************************************)
(* Theorems about VoiceManager, for any number of presses, wake words and  *)
(* unasked-for messages and any length of recording: no wakeup is lost, no *)
(* answer is stale, a trigger starts one round, and when the answer spoken *)
(* is that to the question asked.                                          *)
(***************************************************************************)
EXTENDS VoiceManager, TLAPS

\* Main has cleared s_running exactly when it is inside voice_manager_stop, and an
\* answer is in the voice thread's hand only while it speaks.
Speaking == {"speak", "clearInterrupt", "synthesize", "ending", "flush", "drain"}
Asking == {"push", "response", "responseAsleep", "responseLate"}

StopInv == s_running <=> mpc = "loop"

AnswerInv ==
    /\ vpc \in Asking /\ s_response_text # None => s_response_text.since = round
    /\ resp # None => vpc \in Speaking /\ resp.since = round

\* A press while the answer is synthesized has set s_interrupt, and a drain is only
\* chosen without it.
PressInv ==
    /\ vpc \in Speaking \ {"speak"} => s_state = "SPEAKING"
    /\ vpc \in {"synthesize", "ending"} /\ pressedTalking => s_interrupt
    /\ vpc = "drain" => ~pressedTalking

\* The inductive invariant: the properties and what they rest on.
VoiceInv == StopInv /\ NeverSleepsOnWork /\ AnswerInv /\ CaptureIsolated /\ PressInv

LEMMA InitVoiceInv == Init => VoiceInv
BY DEF Init, VoiceInv, StopInv, NeverSleepsOnWork, AnswerInv, CaptureIsolated,
       PressInv, Speaking

LEMMA NextVoiceInv == VoiceInv /\ [Next]_vars => VoiceInv'
<1> SUFFICES ASSUME VoiceInv, [Next]_vars PROVE VoiceInv'
  OBVIOUS
<1> USE DEF VoiceInv, StopInv, NeverSleepsOnWork, AnswerInv, CaptureIsolated,
            PressInv, Speaking, Asking, Go, flags, data, capture, talk, world
<1>1. CASE LoopEnds \/ StartWakeCapture \/ ResetDetector \/ Sleep \/ Wake
  BY <1>1 DEF LoopEnds, StartWakeCapture, ResetDetector, Sleep, Wake, Woken, Move
<1>2. CASE RecordStop \/ PromptDone \/ StartListening \/ SttOpenFails
           \/ StartRecording \/ StopListening \/ GiveUpListening \/ RecordEnd
           \/ TooShort \/ SendRest \/ NothingRecognized \/ Recognized
  BY <1>2 DEF RecordStop, PromptDone, StartListening, SttOpenFails, StartRecording,
              StopListening, GiveUpListening, RecordEnd, TooShort, SendRest,
              NothingRecognized, Recognized, Move, Enter, Capture
<1>3. CASE ClearStale \/ Ask \/ BusRefuses \/ SleepForResponse \/ ResponseTimeout
           \/ TakeResponse
  BY <1>3 DEF ClearStale, Ask, BusRefuses, SleepForResponse, ResponseTimeout,
              TakeResponse, Move, None
<1>4. CASE StartSpeaking \/ ClearInterrupt \/ Synthesized \/ ChooseEnding \/ Flushed
           \/ Drained
  BY <1>4 DEF StartSpeaking, ClearInterrupt, Synthesized, ChooseEnding, Flushed,
              Drained, Silent, Move
<1>5. CASE Press
  <2>1. vpc' # "asleep" /\ (vpc' = vpc \/ (vpc = "asleep" /\ vpc' = "wait"))
    BY <1>5 DEF Press, SignalEvent
  <2>2. UNCHANGED <<s_running, mpc, round, resp, s_response_text, s_state, cb>>
    BY <1>5 DEF Press
  <2>3. vpc' \in {"synthesize", "ending"} /\ pressedTalking' => s_interrupt'
    BY <1>5, <2>1 DEF Press
  <2>4. vpc' = "drain" => ~pressedTalking'
    BY <1>5, <2>1 DEF Press
  <2>5. QED
    BY <2>1, <2>2, <2>3, <2>4
<1>11. CASE Release
  BY <1>11 DEF Release, SignalEvent
<1>6. CASE CallbackCall \/ CallbackStep \/ AudioProcessDies \/ Held
  BY <1>6 DEF Held, CallbackCall, CallbackStep, CallbackEnter, CallbackDetect,
              CallbackAppend, CallbackIgnore, AudioProcessDies, SignalEvent
<1>7. CASE CronAsks \/ Answer \/ AnswerLost
  BY <1>7 DEF CronAsks, Answer, AnswerLost, SignalResponse
<1>8. CASE StopFlag \/ StopStep
  BY <1>8 DEF StopFlag, StopStep, StopSignals, StopJoins, StopFrees, SignalEvent,
              SignalResponse
<1>9. CASE UNCHANGED vars
  BY <1>9 DEF vars
<1>10. QED
  BY <1>1, <1>2, <1>3, <1>4, <1>5, <1>6, <1>7, <1>8, <1>9, <1>11
  DEF Next, VoiceStep, Ended

\* The inductive invariant of the four theorems that follow holds always.
THEOREM VoiceInvariant == Spec => []VoiceInv
BY InitVoiceInv, NextVoiceInv, PTL DEF Spec

\* However the button, the receiver, the main loop and the stop interleave with the
\* voice thread, its two waits lose no wakeup.
THEOREM VoiceNeverSleepsOnWork == Spec => []NeverSleepsOnWork
<1>1. VoiceInv => NeverSleepsOnWork
  BY DEF VoiceInv
<1>2. QED
  BY <1>1, VoiceInvariant, PTL

\* Whatever the agent's delays, an answer that was waiting when a question was
\* asked is never spoken as its answer.
THEOREM VoiceNothingStale == Spec => []NothingStaleSpoken
<1>1. VoiceInv => NothingStaleSpoken
  BY DEF VoiceInv, AnswerInv, NothingStaleSpoken
<1>2. QED
  BY <1>1, VoiceInvariant, PTL

\* The microphone is off for the assistant while it plays, recognizes or thinks.
THEOREM VoiceCaptureIsolated == Spec => []CaptureIsolated
<1>1. VoiceInv => CaptureIsolated
  BY DEF VoiceInv
<1>2. QED
  BY <1>1, VoiceInvariant, PTL

\* A press between the start of the synthesis and the look at s_interrupt cuts the
\* answer off.
THEOREM VoicePressInterrupts == Spec => PressInterrupts
<1>1. VoiceInv /\ [Next]_vars => [Drained => ~pressedTalking]_vars
  BY DEF VoiceInv, PressInv, Drained, Silent, Go
<1>2. QED
  BY <1>1, VoiceInvariant, PTL DEF Spec, PressInterrupts

-----------------------------------------------------------------------------
(***************************************************************************)
(* How often the thread can be woken, and with it the type invariant.      *)
(***************************************************************************)

\* What is still to come of the triggers so far: one round from a press not yet
\* taken, two from a keyword in the detector while the thread waits - it is woken,
\* and woken again by the next frame unless the detector is reset first -, one from
\* a keyword found outside the wait.
One(b) == IF b THEN 1 ELSE 0
ToCome ==
    One(s_btn_wake_event)
    + IF vpc \in {"wait", "asleep"} /\ keyword THEN 2 ELSE One(keyword \/ s_wake_detected)

\* A round is counted when its question is asked, after the wakeup was.
Unasked == {"recordStop", "prompt", "listen", "sttOpen", "listening", "recordEnd",
            "judge", "finish", "clear"}

CountInv ==
    /\ presses \in Nat /\ keywords \in Nat /\ wakes \in Nat /\ round \in Nat
    /\ wakes + ToCome <= presses + 2 * keywords
    /\ presses + 2 * keywords <= MaxTriggers
    /\ round <= wakes /\ wakes <= MaxTriggers
    /\ vpc \in Unasked => round < wakes

\* The parts of TypeOK that are not in CountInv; what is pending was asked already.
FlagsOK ==
    /\ s_running \in BOOLEAN
    /\ s_btn_pressed \in BOOLEAN /\ s_btn_wake_event \in BOOLEAN
    /\ s_wake_detected \in BOOLEAN /\ s_interrupt \in BOOLEAN
    /\ cb \in BOOLEAN /\ keyword \in BOOLEAN /\ connected \in BOOLEAN
    /\ woke_by_btn \in BOOLEAN /\ pressedTalking \in BOOLEAN

PlacesOK ==
    /\ s_state \in States /\ cbState \in States \cup {"out", "called"}
    /\ vpc \in {"top", "reset", "wait", "asleep", "recordStop", "prompt", "listen",
                "sttOpen", "listening", "recordEnd", "judge", "finish", "clear",
                "push", "response", "responseAsleep", "responseLate", "speak",
                "clearInterrupt", "synthesize", "ending", "flush", "drain", "exit"}
    /\ heldBy \in {"nobody", "audio", "speech"}
    /\ mpc \in {"loop", "event", "response", "gpio", "join", "free", "done"}

DataOK ==
    /\ s_response_text \in Answers /\ resp \in Answers
    /\ s_pcm_len \in 0 .. PcmCap
    /\ pending \in Seq(0 .. MaxTriggers)
    /\ \A k \in 1 .. Len(pending) : pending[k] <= round

WellTyped == FlagsOK /\ PlacesOK /\ CountInv /\ DataOK

LEMMA InitTyped == Init => WellTyped
<1> SUFFICES ASSUME Init PROVE WellTyped
  OBVIOUS
<1>1. FlagsOK
  BY Zenon DEF Init, FlagsOK
<1>2. PlacesOK
  BY DEF Init, PlacesOK, States
<1>3. CountInv
  BY VoiceAssumption DEF Init, CountInv, ToCome, One, Unasked
<1>4. DataOK
  BY VoiceAssumption DEF Init, DataOK, Answers
<1>5. QED
  BY <1>1, <1>2, <1>3, <1>4 DEF WellTyped

LEMMA FlagsStay == FlagsOK /\ [Next]_vars => FlagsOK'
<1> SUFFICES ASSUME FlagsOK, [Next]_vars PROVE FlagsOK'
  OBVIOUS
<1> USE DEF FlagsOK, Go, flags, data, capture, talk, world
<1>1. CASE LoopEnds \/ Sleep \/ PromptDone
  BY <1>1 DEF LoopEnds, Sleep, PromptDone, Move
<1>2. CASE SttOpenFails \/ StopListening \/ GiveUpListening
  BY <1>2 DEF SttOpenFails, StopListening, GiveUpListening, Move
<1>3. CASE TooShort \/ NothingRecognized \/ BusRefuses
  BY <1>3 DEF TooShort, NothingRecognized, BusRefuses, Move
<1>4. CASE SleepForResponse \/ ResponseTimeout
  BY <1>4 DEF SleepForResponse, ResponseTimeout, Move
<1>5. CASE Synthesized \/ ChooseEnding
  BY <1>5 DEF Synthesized, ChooseEnding, Move
<1>6. CASE RecordStop \/ StartRecording \/ RecordEnd
  BY <1>6 DEF RecordStop, StartRecording, RecordEnd, Capture
<1>7. CASE SendRest \/ Recognized
  BY <1>7 DEF SendRest, Recognized, Enter
<1>8. CASE StartWakeCapture
  BY <1>8 DEF StartWakeCapture
<1>9. CASE ResetDetector
  BY <1>9 DEF ResetDetector
<1>10. CASE Wake
  BY <1>10 DEF Wake
<1>11. CASE StartListening
  BY <1>11 DEF StartListening
<1>12. CASE ClearStale \/ Ask
  BY <1>12 DEF ClearStale, Ask
<1>13. CASE TakeResponse
  BY <1>13 DEF TakeResponse
<1>14. CASE StartSpeaking \/ ClearInterrupt
  BY <1>14 DEF StartSpeaking, ClearInterrupt
<1>15. CASE Flushed \/ Drained
  BY <1>15 DEF Flushed, Drained, Silent
<1>16. CASE Press
  BY <1>16 DEF Press
<1>17. CASE Release
  BY <1>17 DEF Release
<1>18. CASE CallbackCall \/ CallbackEnter
  BY <1>18 DEF CallbackCall, CallbackEnter
<1>19. ASSUME NEW heard \in BOOLEAN, CallbackDetect(heard) PROVE FlagsOK'
  BY <1>19 DEF CallbackDetect
<1>20. CASE CallbackAppend \/ CallbackIgnore
  BY <1>20 DEF CallbackAppend, CallbackIgnore
<1>21. CASE AudioProcessDies \/ Held
  BY <1>21 DEF AudioProcessDies, Held
<1>22. CASE CronAsks \/ Answer \/ AnswerLost
  BY <1>22 DEF CronAsks, Answer, AnswerLost
<1>23. CASE StopFlag
  BY <1>23 DEF StopFlag
<1>24. CASE StopSignals
  BY <1>24 DEF StopSignals
<1>25. CASE StopJoins
  BY <1>25 DEF StopJoins
<1>26. CASE StopFrees
  BY <1>26 DEF StopFrees
<1>27. CASE UNCHANGED vars
  BY <1>27 DEF vars
<1>28. QED
  BY <1>1, <1>2, <1>3, <1>4, <1>5, <1>6, <1>7, <1>8, <1>9, <1>10, <1>11, <1>12,
     <1>13, <1>14, <1>15, <1>16, <1>17, <1>18, <1>19, <1>20, <1>21, <1>22, <1>23,
     <1>24, <1>25, <1>26, <1>27
  DEF Next, VoiceStep, CallbackStep, StopStep, Ended

LEMMA HeldStays ==
    heldBy \in {"nobody", "audio", "speech"} /\ [Next]_vars
    => heldBy' \in {"nobody", "audio", "speech"}
BY DEF Next, VoiceStep, Held, CallbackStep, AudioProcessDies, StopStep, Ended, vars

LEMMA PlacesStay == PlacesOK /\ [Next]_vars => PlacesOK'
<1> SUFFICES ASSUME PlacesOK, [Next]_vars PROVE PlacesOK'
  OBVIOUS
<1>0. heldBy' \in {"nobody", "audio", "speech"}
  BY HeldStays DEF PlacesOK
<1> USE DEF PlacesOK, Go, flags, data, capture, talk, world, States
<1>1. CASE LoopEnds \/ StartWakeCapture \/ ResetDetector \/ Sleep \/ Wake
  BY <1>0, <1>1 DEF LoopEnds, StartWakeCapture, ResetDetector, Sleep, Wake, Move
<1>2. CASE RecordStop \/ PromptDone \/ StartListening \/ SttOpenFails
           \/ StartRecording \/ StopListening
  BY <1>0, <1>2 DEF RecordStop, PromptDone, StartListening, SttOpenFails, StartRecording,
              StopListening, Move, Capture
<1>3. CASE GiveUpListening \/ RecordEnd \/ TooShort \/ SendRest \/ NothingRecognized
           \/ Recognized
  BY <1>0, <1>3 DEF GiveUpListening, RecordEnd, TooShort, SendRest, NothingRecognized,
              Recognized, Move, Enter, Capture
<1>4. CASE ClearStale \/ Ask \/ BusRefuses \/ SleepForResponse \/ ResponseTimeout
           \/ TakeResponse
  BY <1>0, <1>4 DEF ClearStale, Ask, BusRefuses, SleepForResponse, ResponseTimeout,
              TakeResponse, Move
<1>5. CASE StartSpeaking \/ ClearInterrupt \/ Synthesized \/ ChooseEnding \/ Flushed
           \/ Drained
  BY <1>0, <1>5 DEF StartSpeaking, ClearInterrupt, Synthesized, ChooseEnding, Flushed,
              Drained, Silent, Move
<1>6. CASE Press \/ Release
  BY <1>0, <1>6 DEF Press, Release, SignalEvent
<1>7. CASE CallbackCall \/ CallbackStep \/ AudioProcessDies \/ Held
  BY <1>0, <1>7 DEF Held, CallbackCall, CallbackStep, CallbackEnter, CallbackDetect,
              CallbackAppend, CallbackIgnore, AudioProcessDies, SignalEvent
<1>8. CASE CronAsks \/ Answer \/ AnswerLost
  BY <1>0, <1>8 DEF CronAsks, Answer, AnswerLost, SignalResponse
<1>9. CASE StopFlag \/ StopStep
  BY <1>0, <1>9 DEF StopFlag, StopStep, StopSignals, StopJoins, StopFrees, SignalEvent,
              SignalResponse
<1>10. CASE UNCHANGED vars
  BY <1>0, <1>10 DEF vars
<1>11. QED
  BY <1>1, <1>2, <1>3, <1>4, <1>5, <1>6, <1>7, <1>8, <1>9, <1>10
  DEF Next, VoiceStep, Ended

LEMMA CountsStay == FlagsOK /\ CountInv /\ [Next]_vars => CountInv'
<1> SUFFICES ASSUME FlagsOK, CountInv, [Next]_vars PROVE CountInv'
  OBVIOUS
<1> USE VoiceAssumption
    DEF CountInv, ToCome, One, Unasked, Go, flags, data, capture, talk, world
<1> s_btn_wake_event \in BOOLEAN /\ s_wake_detected \in BOOLEAN /\ keyword \in BOOLEAN
  BY DEF FlagsOK
<1>1. CASE LoopEnds \/ StartWakeCapture \/ Sleep
  BY <1>1 DEF LoopEnds, StartWakeCapture, Sleep, Woken, Move
<1>2. CASE ResetDetector
  BY <1>2 DEF ResetDetector
<1>3. CASE Wake
  BY <1>3 DEF Wake, Woken
<1>4. CASE RecordStop \/ PromptDone \/ StartListening \/ SttOpenFails
           \/ StartRecording \/ StopListening
  BY <1>4 DEF RecordStop, PromptDone, StartListening, SttOpenFails, StartRecording,
              StopListening, Move, Capture
<1>5. CASE GiveUpListening \/ RecordEnd \/ TooShort \/ SendRest \/ NothingRecognized
           \/ Recognized
  BY <1>5 DEF GiveUpListening, RecordEnd, TooShort, SendRest, NothingRecognized,
              Recognized, Move, Enter, Capture
<1>6. CASE ClearStale \/ Ask \/ BusRefuses \/ SleepForResponse \/ ResponseTimeout
           \/ TakeResponse
  BY <1>6 DEF ClearStale, Ask, BusRefuses, SleepForResponse, ResponseTimeout,
              TakeResponse, Move
<1>7. CASE StartSpeaking \/ ClearInterrupt \/ Synthesized \/ ChooseEnding \/ Flushed
           \/ Drained
  BY <1>7 DEF StartSpeaking, ClearInterrupt, Synthesized, ChooseEnding, Flushed,
              Drained, Silent, Move
<1>8. CASE Press
  BY <1>8 DEF Press, SignalEvent
<1>9. CASE Release
  BY <1>9 DEF Release, SignalEvent
<1>10. CASE CallbackCall \/ CallbackEnter \/ CallbackAppend \/ CallbackIgnore
            \/ AudioProcessDies \/ Held
  BY <1>10 DEF Held, CallbackCall, CallbackEnter, CallbackAppend, CallbackIgnore,
               AudioProcessDies, SignalEvent
<1>11. ASSUME NEW heard \in BOOLEAN, CallbackDetect(heard) PROVE CountInv'
  <2>1. CASE heard
    BY <1>11, <2>1 DEF CallbackDetect, SignalEvent
  <2>2. CASE ~heard
    BY <1>11, <2>2 DEF CallbackDetect, SignalEvent
  <2>3. QED
    BY <2>1, <2>2
<1>12. CASE CronAsks \/ Answer \/ AnswerLost
  BY <1>12 DEF CronAsks, Answer, AnswerLost, SignalResponse
<1>13. CASE StopFlag \/ StopStep
  BY <1>13 DEF StopFlag, StopStep, StopSignals, StopJoins, StopFrees, SignalEvent,
               SignalResponse
<1>14. CASE UNCHANGED vars
  BY <1>14 DEF vars
<1>15. QED
  BY <1>1, <1>2, <1>3, <1>4, <1>5, <1>6, <1>7, <1>8, <1>9, <1>10, <1>11, <1>12,
     <1>13, <1>14
  DEF Next, VoiceStep, CallbackStep, Ended

LEMMA DataStays == FlagsOK /\ CountInv /\ CountInv' /\ DataOK /\ [Next]_vars => DataOK'
<1> SUFFICES ASSUME FlagsOK, CountInv, CountInv', DataOK, [Next]_vars PROVE DataOK'
  OBVIOUS
<1> USE VoiceAssumption DEF DataOK
<1>1. round \in 0 .. MaxTriggers /\ round' \in 0 .. MaxTriggers
  BY DEF CountInv
<1>2. CASE UNCHANGED <<s_response_text, resp, s_pcm_len, pending, round>>
  BY <1>2
<1>3. CASE StartListening
  BY <1>3 DEF StartListening, flags, capture, talk, world
<1>4. CASE ClearStale
  <2>1. round' = round + 1 /\ UNCHANGED <<resp, s_pcm_len, pending>>
        /\ s_response_text' = None
    BY <1>4 DEF ClearStale, world
  <2>2. \A k \in 1 .. Len(pending) : pending[k] <= round + 1
    BY <1>1
  <2>3. QED
    BY <2>1, <2>2 DEF Answers
<1>5. CASE Ask \/ CronAsks
  <2>1. PICK n \in {0, round} : pending' = Append(pending, n)
    BY <1>5 DEF Ask, CronAsks
  <2>2. UNCHANGED <<s_response_text, resp, s_pcm_len, round>>
    BY <1>5 DEF Ask, CronAsks, data, talk
  <2>3. n \in 0 .. MaxTriggers /\ n <= round
    BY <1>1, <2>1
  <2>4. pending' \in Seq(0 .. MaxTriggers)
    BY <2>1, <2>3
  <2>5. \A k \in 1 .. Len(pending') : pending'[k] <= round'
    BY <2>1, <2>2, <2>3
  <2>6. QED
    BY <2>2, <2>4, <2>5
<1>6. CASE Answer \/ AnswerLost
  <2>1. pending # <<>> /\ pending' = Tail(pending) /\ UNCHANGED <<resp, s_pcm_len, round>>
    BY <1>6 DEF Answer, AnswerLost, talk, data
  <2>2. s_response_text' = s_response_text
        \/ s_response_text' = [to |-> Head(pending), since |-> round]
    BY <1>6 DEF Answer, AnswerLost, data
  <2>3. /\ Head(pending) \in 0 .. MaxTriggers /\ Tail(pending) \in Seq(0 .. MaxTriggers)
        /\ \A k \in 1 .. Len(Tail(pending)) : Tail(pending)[k] <= round
    BY <2>1
  <2>4. s_response_text' \in Answers
    BY <1>1, <2>2, <2>3 DEF Answers
  <2>5. QED
    BY <2>1, <2>3, <2>4
<1>7. CASE TakeResponse \/ Flushed \/ Drained
  <2>1. resp' \in {None, s_response_text} /\ s_response_text' \in {None, s_response_text}
    BY <1>7 DEF TakeResponse, Flushed, Drained, Silent, data
  <2>2. UNCHANGED <<s_pcm_len, pending, round>>
    BY <1>7 DEF TakeResponse, Flushed, Drained, Silent, data, world
  <2>3. QED
    BY <2>1, <2>2 DEF Answers
<1>8. CASE CallbackAppend
  BY <1>8 DEF CallbackAppend, talk, world
<1>9. CASE StopFrees
  BY <1>9 DEF StopFrees, talk, Answers
<1>10. QED
  <2> USE DEF flags, data, capture, talk, world, Go
  <2>1. CASE LoopEnds \/ StartWakeCapture \/ ResetDetector \/ Sleep \/ Wake
    BY <1>2, <2>1 DEF LoopEnds, StartWakeCapture, ResetDetector, Sleep, Wake, Move
  <2>2. CASE RecordStop \/ PromptDone \/ SttOpenFails \/ StartRecording
             \/ StopListening \/ GiveUpListening
    BY <1>2, <2>2 DEF RecordStop, PromptDone, SttOpenFails, StartRecording,
                      StopListening, GiveUpListening, Move, Capture
  <2>3. CASE RecordEnd \/ TooShort \/ SendRest \/ NothingRecognized \/ Recognized
    BY <1>2, <2>3 DEF RecordEnd, TooShort, SendRest, NothingRecognized, Recognized,
                      Move, Enter, Capture
  <2>4. CASE BusRefuses \/ SleepForResponse \/ ResponseTimeout
    BY <1>2, <2>4 DEF BusRefuses, SleepForResponse, ResponseTimeout, Move
  <2>5. CASE StartSpeaking \/ ClearInterrupt \/ Synthesized \/ ChooseEnding
    BY <1>2, <2>5 DEF StartSpeaking, ClearInterrupt, Synthesized, ChooseEnding, Move
  <2>6. CASE Press \/ Release \/ CallbackCall \/ AudioProcessDies \/ Held
    BY <1>2, <2>6 DEF Held, Press, Release, CallbackCall, AudioProcessDies
  <2>7. CASE CallbackEnter \/ CallbackIgnore \/ \E heard \in BOOLEAN : CallbackDetect(heard)
    BY <1>2, <2>7 DEF CallbackEnter, CallbackIgnore, CallbackDetect
  <2>8. CASE StopFlag \/ StopSignals \/ StopJoins
    BY <1>2, <2>8 DEF StopFlag, StopSignals, StopJoins
  <2>9. CASE UNCHANGED vars
    BY <1>2, <2>9 DEF vars
  <2>10. QED
    BY <1>3, <1>4, <1>5, <1>6, <1>7, <1>8, <1>9,
       <2>1, <2>2, <2>3, <2>4, <2>5, <2>6, <2>7, <2>8, <2>9
    DEF Next, VoiceStep, CallbackStep, StopStep, Ended

LEMMA NextTyped == WellTyped /\ [Next]_vars => WellTyped'
BY FlagsStay, PlacesStay, CountsStay, DataStays DEF WellTyped

\* A trigger starts one round, a keyword at most two - the second when a frame found
\* it again before the detector was reset -, and no question is asked without one.
THEOREM VoiceRoundsBounded == Spec => [](round <= wakes /\ wakes <= presses + 2 * keywords)
<1>1. WellTyped => round <= wakes /\ wakes <= presses + 2 * keywords
  <2> SUFFICES ASSUME WellTyped PROVE round <= wakes /\ wakes <= presses + 2 * keywords
    OBVIOUS
  <2>1. ToCome \in Nat
    BY DEF ToCome, One
  <2>2. QED
    BY <2>1 DEF WellTyped, CountInv
<1>2. QED
  BY <1>1, InitTyped, NextTyped, PTL DEF Spec

\* The types hold always, among them that a question's recording never outgrows its
\* buffer (s_pcm_len, voice_manager.c:261) and there are no more rounds than triggers.
THEOREM VoiceTypeCorrect == Spec => []TypeOK
<1>1. WellTyped => TypeOK
  <2> SUFFICES ASSUME WellTyped PROVE TypeOK
    OBVIOUS
  <2>1. round <= wakes /\ wakes \in 0 .. MaxTriggers
    BY VoiceAssumption DEF WellTyped, CountInv
  <2>2. \A k \in 1 .. Len(pending) : pending[k] \in 0 .. round
    <3>1. /\ pending \in Seq(0 .. MaxTriggers) /\ round \in Nat
          /\ \A k \in 1 .. Len(pending) : pending[k] <= round
      BY DEF WellTyped, DataOK, CountInv
    <3>2. QED
      BY <3>1, VoiceAssumption
  <2>3. QED
    BY <2>1, <2>2 DEF WellTyped, FlagsOK, PlacesOK, DataOK, TypeOK
<1>2. QED
  BY <1>1, InitTyped, NextTyped, PTL DEF Spec

-----------------------------------------------------------------------------
(***************************************************************************)
(* When the answer spoken is the answer to the question: RightAnswer is    *)
(* false of Spec, and these are the two steps that make it so.             *)
(***************************************************************************)

\* No wait for an answer reaches its 30 s, and nobody else asks the agent for
\* something it will say to the "voice" channel.
Undisturbed == [][~ResponseTimeout /\ ~CronAsks]_vars

\* A question lives from "push" to the end of its wait: then there is at most one
\* message under way, it or its answer - until the program stops.
Listening == vpc \in {"response", "responseAsleep"}

OneQuestion ==
    /\ resp # None => vpc \in Speaking /\ resp.to = round
    /\ s_running =>
         /\ vpc # "responseLate"
         /\ \/ pending = <<>> /\ s_response_text = None
            \/ Listening /\ pending = <<round>> /\ s_response_text = None
            \/ Listening /\ pending = <<>> /\ s_response_text.to = round

LEMMA OnlyOne == \A x : Head(<<x>>) = x /\ Tail(<<x>>) = <<>>
OBVIOUS

LEMMA NextOneQuestion ==
    OneQuestion /\ StopInv /\ [Next]_vars /\ [~ResponseTimeout /\ ~CronAsks]_vars => OneQuestion'
<1> SUFFICES ASSUME OneQuestion, StopInv, [Next]_vars, [~ResponseTimeout /\ ~CronAsks]_vars
             PROVE OneQuestion'
  OBVIOUS
<1> USE DEF OneQuestion, StopInv, Listening, Speaking, Go, flags, data, capture, talk, world
<1>1. CASE LoopEnds \/ StartWakeCapture \/ ResetDetector \/ Sleep \/ Wake
  BY <1>1 DEF LoopEnds, StartWakeCapture, ResetDetector, Sleep, Wake, Move
<1>2. CASE RecordStop \/ PromptDone \/ StartListening \/ SttOpenFails
           \/ StartRecording \/ StopListening
  BY <1>2 DEF RecordStop, PromptDone, StartListening, SttOpenFails, StartRecording,
              StopListening, Move, Capture
<1>3. CASE GiveUpListening \/ RecordEnd \/ TooShort \/ SendRest \/ NothingRecognized
           \/ Recognized
  BY <1>3 DEF GiveUpListening, RecordEnd, TooShort, SendRest, NothingRecognized,
              Recognized, Move, Enter, Capture
<1>4. CASE ClearStale \/ BusRefuses \/ SleepForResponse
  BY <1>4 DEF ClearStale, BusRefuses, SleepForResponse, Move
<1>5. CASE Ask
  <2>1. s_running => pending' = <<round>>
    BY <1>5 DEF Ask
  <2>2. QED
    BY <1>5, <2>1 DEF Ask
<1>6. CASE TakeResponse
  BY <1>6 DEF TakeResponse
<1>7. CASE StartSpeaking \/ ClearInterrupt \/ Synthesized \/ ChooseEnding \/ Flushed
           \/ Drained
  BY <1>7 DEF StartSpeaking, ClearInterrupt, Synthesized, ChooseEnding, Flushed,
              Drained, Silent, Move
<1>8. CASE Press \/ Release
  BY <1>8 DEF Press, Release, SignalEvent
<1>9. CASE CallbackCall \/ CallbackStep \/ AudioProcessDies \/ Held
  BY <1>9 DEF Held, CallbackCall, CallbackStep, CallbackEnter, CallbackDetect,
              CallbackAppend, CallbackIgnore, AudioProcessDies, SignalEvent
<1>10. CASE Answer \/ AnswerLost
  <2>1. (Listening /\ pending = <<round>> /\ s_response_text = None) \/ ~s_running
    BY <1>10 DEF Answer, AnswerLost
  <2>2. CASE ~s_running
    BY <1>10, <2>2 DEF Answer, AnswerLost, SignalResponse
  <2>3. CASE s_running
    <3>1. Head(pending) = round /\ Tail(pending) = <<>>
      BY <2>1, <2>3, OnlyOne
    <3>2. /\ pending' = <<>> /\ UNCHANGED <<round, resp>>
          /\ Listening' /\ (resp # None => vpc' \in Speaking)
      BY <1>10, <2>1, <2>3, <3>1 DEF Answer, AnswerLost, SignalResponse
    <3>3. s_response_text' = None \/ s_response_text' = [to |-> round, since |-> round]
      BY <1>10, <2>1, <2>3, <3>1 DEF Answer, AnswerLost
    <3>4. QED
      BY <3>2, <3>3
  <2>4. QED
    BY <2>2, <2>3
<1>11. CASE StopFlag \/ StopStep
  BY <1>11 DEF StopFlag, StopStep, StopSignals, StopJoins, StopFrees, SignalEvent,
               SignalResponse
<1>12. CASE UNCHANGED vars
  BY <1>12 DEF vars
<1>13. CASE vars' # vars /\ (ResponseTimeout \/ CronAsks)
  BY <1>13
<1>14. QED
  BY <1>1, <1>2, <1>3, <1>4, <1>5, <1>6, <1>7, <1>8, <1>9, <1>10, <1>11, <1>12, <1>13
  DEF Next, VoiceStep, Ended

\* The wrong answer is spoken only after a wait that reached its 30 s or a message
\* nobody asked for: in a run without either the answer spoken is always that to the
\* question just asked, however presses, wake words, frames, lost answers and a stop
\* come in between.
THEOREM VoiceRightAnswerUndisturbed == Spec /\ Undisturbed => []RightAnswer
<1>1. Init => OneQuestion
  BY DEF Init, OneQuestion
<1>2. OneQuestion => RightAnswer
  BY DEF OneQuestion, RightAnswer
<1>3. VoiceInv => StopInv
  BY DEF VoiceInv
<1>4. QED
  BY <1>1, <1>2, <1>3, NextOneQuestion, VoiceInvariant, PTL DEF Spec, Undisturbed
=============================================================================
