------------------------------ MODULE SinkKeys -------------------------------
(***************************************************************************)
(* HdmiCecSink: the queue of key presses, threadSendKeyEvent, and the      *)
(* detection of an audio system that reports its status by itself          *)
(* (HdmiCecSinkImplementation.cpp).                                        *)
(*                                                                         *)
(* Threads, each with a program counter in pc:                             *)
(*   - "sender": threadSendKeyEvent;                                       *)
(*   - "cec": the reader thread of libCEC, for <Report Audio Status>;      *)
(*   - "timer": the thread of m_audioStatusDetectionTimer;                 *)
(*   - the resetters: the threads that forget the audio status, in         *)
(*     removeDevice(5) (poll and hot plug threads) and in CECDisable;      *)
(*   - "destructor": its last part, after CECDisable.                      *)
(* API calls push under m_sendKeyEventMutex and are one step each.  The    *)
(* sender holds that mutex only while it waits, so its accesses to the     *)
(* queue and to the flags are steps of their own.  Operations of the queue *)
(* are atomic and plain variables sequentially consistent: what a data     *)
(* race may do to a std::queue is left out.  Sending is left out too; a    *)
(* call of sendGiveAudioStatusMsg counts as asking.                        *)
(***************************************************************************)
EXTENDS Naturals, Sequences

CONSTANTS
  Keys,        \* the keys that API calls push in this instance
  Resetters,   \* the threads that may run the reset at the same time
  MaxKeys      \* bound: the number of keys that API calls push

Workers == {"sender", "cec", "timer", "destructor"}
Threads == Workers \cup Resetters

\* VOLUME_UP and VOLUME_DOWN are alike; a released key is one of the others.
AllKeys == {"VOLUME", "MUTE", "OTHER"}

ASSUME ConstantsAssumption ==
  /\ Keys \subseteq AllKeys
  /\ Resetters \cap Workers = {}
  /\ MaxKeys \in Nat

VARIABLES
  pc,
  queue,                      \* m_SendKeyQueue, the key codes
  pushed,                     \* how many keys were pushed
  keyInfo,                    \* the key that the sender has taken, or "none"
  m_sendKeyEventThreadRun, m_sendKeyEventThreadExit,
  m_isAudioStatusInfoUpdated, m_audioStatusReceived,
  m_audioStatusTimerStarted,
  scheduled, isActive,        \* m_audioStatusDetectionTimer
  owed,      \* history: a volume key went out, its status was not asked for
  overlap    \* history: a reset has met a callback or a message handler

Timer == INSTANCE TpTimer

keyVars    == <<queue, pushed, keyInfo>>
threadVars == <<m_sendKeyEventThreadRun, m_sendKeyEventThreadExit>>
statusVars == <<m_isAudioStatusInfoUpdated, m_audioStatusReceived,
                m_audioStatusTimerStarted>>
timerVars  == <<scheduled, isActive>>
history    == <<owed, overlap>>
vars == <<pc, keyVars, threadVars, statusVars, timerVars, history>>

Step(t, from, to) == pc[t] = from /\ pc' = [pc EXCEPT ![t] = to]

(***************************************************************************)
(* SendKeyPressEvent, SendUserControlPressed and SendUserControlReleased.  *)
(***************************************************************************)
PushKey(key) ==
  /\ pushed < MaxKeys /\ pc["destructor"] = "idle"
  /\ queue' = Append(queue, key) /\ pushed' = pushed + 1
  /\ m_sendKeyEventThreadRun' = TRUE
  /\ UNCHANGED <<pc, keyInfo, m_sendKeyEventThreadExit, statusVars, timerVars,
                 history>>

(***************************************************************************)
(* threadSendKeyEvent                                                      *)
(***************************************************************************)
\* Mutant of SenderLoop: the loop does not test the exit flag.
SenderLoopForever ==
  /\ Step("sender", "loop", "wait")
  /\ keyInfo' = "none"
  /\ UNCHANGED <<queue, pushed, threadVars, statusVars, timerVars, history>>

SenderLoop ==
  /\ IF m_sendKeyEventThreadExit
     THEN Step("sender", "loop", "ended") /\ UNCHANGED keyInfo
     ELSE Step("sender", "loop", "wait") /\ keyInfo' = "none"
  /\ UNCHANGED <<queue, pushed, threadVars, statusVars, timerVars, history>>

\* Whoever sets the flag notifies under the mutex, so waiting is a guard.
SenderWait ==
  /\ m_sendKeyEventThreadRun
  /\ Step("sender", "wait", "checkExit")
  /\ UNCHANGED <<keyVars, threadVars, statusVars, timerVars, history>>

SenderCheckExit ==
  /\ IF m_sendKeyEventThreadExit
     THEN Step("sender", "checkExit", "ended")
          /\ m_sendKeyEventThreadRun' = FALSE
     ELSE Step("sender", "checkExit", "checkQueue")
          /\ UNCHANGED m_sendKeyEventThreadRun
  /\ UNCHANGED <<keyVars, m_sendKeyEventThreadExit, statusVars, timerVars,
                 history>>

\* Mutant of SenderCheckQueue: no test for an empty queue.
SenderCheckQueueAlways ==
  /\ Step("sender", "checkQueue", "pop")
  /\ UNCHANGED <<keyVars, threadVars, statusVars, timerVars, history>>

SenderCheckQueue ==
  /\ Step("sender", "checkQueue", IF queue = <<>> THEN "goIdle" ELSE "pop")
  /\ UNCHANGED <<keyVars, threadVars, statusVars, timerVars, history>>

SenderGoesIdle ==
  /\ Step("sender", "goIdle", "loop")
  /\ m_sendKeyEventThreadRun' = FALSE
  /\ UNCHANGED <<keyVars, m_sendKeyEventThreadExit, statusVars, timerVars,
                 history>>

\* Mutant of SendKey: the run flag falls after every key.
SendKeyAndRest ==
  /\ Step("sender", "pop", "sent")
  /\ keyInfo' = Head(queue) /\ queue' = Tail(queue)
  /\ m_sendKeyEventThreadRun' = FALSE
  /\ UNCHANGED <<pushed, m_sendKeyEventThreadExit, statusVars, timerVars,
                 history>>

SendKey ==
  /\ Step("sender", "pop", "sent")
  /\ keyInfo' = Head(queue) /\ queue' = Tail(queue)
  /\ UNCHANGED <<pushed, threadVars, statusVars, timerVars, history>>

\* The status is wanted after the last keys of a burst and every second one.
StatusWanted ==
  /\ Len(queue) <= 1 \/ Len(queue) % 2 = 0
  /\ keyInfo \in {"VOLUME", "MUTE"}

\* A mute key is followed by the question at once.
SenderAfterKey ==
  /\ IF StatusWanted /\ keyInfo = "VOLUME"
     THEN Step("sender", "sent", "readUpdated") /\ owed' = TRUE
     ELSE /\ Step("sender", "sent", "loop")
          /\ owed' = IF StatusWanted THEN FALSE ELSE owed
  /\ UNCHANGED <<keyVars, threadVars, statusVars, timerVars, overlap>>

SenderReadsUpdated ==
  /\ Step("sender", "readUpdated",
          IF m_isAudioStatusInfoUpdated THEN "readReceived" ELSE "checkTimer")
  /\ UNCHANGED <<keyVars, threadVars, statusVars, timerVars, history>>

SenderReadsReceived ==
  /\ Step("sender", "readReceived", "loop")
  /\ owed' = IF m_audioStatusReceived THEN owed ELSE FALSE
  /\ UNCHANGED <<keyVars, threadVars, statusVars, timerVars, overlap>>

SenderChecksTimer ==
  /\ Step("sender", "checkTimer", IF isActive THEN "loop" ELSE "setStarted")
  /\ UNCHANGED <<keyVars, threadVars, statusVars, timerVars, history>>

SenderSetsStarted ==
  /\ Step("sender", "setStarted", "startTimer")
  /\ m_audioStatusTimerStarted' = TRUE
  /\ UNCHANGED <<keyVars, threadVars, m_isAudioStatusInfoUpdated,
                 m_audioStatusReceived, timerVars, history>>

SenderStartsTimer ==
  /\ Step("sender", "startTimer", "loop")
  /\ Timer!Start
  /\ UNCHANGED <<keyVars, threadVars, statusVars, history>>

SenderStep ==
  SenderLoop \/ SenderWait \/ SenderCheckExit \/ SenderCheckQueue
  \/ SenderGoesIdle \/ SendKey \/ SenderAfterKey \/ SenderReadsUpdated
  \/ SenderReadsReceived \/ SenderChecksTimer \/ SenderSetsStarted
  \/ SenderStartsTimer

(***************************************************************************)
(* Forgetting the status, in removeDevice of the audio system and in       *)
(* CECDisable: the timer is stopped, then the flags fall one by one.  With *)
(* the audio system gone no status is owed.                                *)
(***************************************************************************)
Busy(t) == pc[t] # "idle"

\* The history of a step in which thread t meets the threads of others.
Meets(others) == overlap' = (overlap \/ \E u \in others : Busy(u))

ResetStatus(r) ==
  /\ \/ Step(r, "idle", "resetUpdated") /\ Timer!StopIfActive
        /\ UNCHANGED statusVars
     \/ Step(r, "resetUpdated", "resetReceived")
        /\ m_isAudioStatusInfoUpdated' = FALSE
        /\ UNCHANGED <<m_audioStatusReceived, m_audioStatusTimerStarted,
                       timerVars>>
     \/ Step(r, "resetReceived", "resetStarted")
        /\ m_audioStatusReceived' = FALSE
        /\ UNCHANGED <<m_isAudioStatusInfoUpdated, m_audioStatusTimerStarted,
                       timerVars>>
     \/ Step(r, "resetStarted", "idle")
        /\ m_audioStatusTimerStarted' = FALSE
        /\ UNCHANGED <<m_isAudioStatusInfoUpdated, m_audioStatusReceived,
                       timerVars>>
  /\ owed' = FALSE /\ Meets({"cec", "timer"})
  /\ UNCHANGED <<keyVars, threadVars>>

(***************************************************************************)
(* Process_ReportAudioStatus_msg                                           *)
(***************************************************************************)
ReceiveReport ==
  /\ Step("cec", "idle", IF m_audioStatusTimerStarted THEN "setReceived" ELSE "idle")
  /\ UNCHANGED <<keyVars, threadVars, statusVars, timerVars, history>>

ReportReceived ==
  /\ Step("cec", "setReceived", "setUpdated")
  /\ m_audioStatusReceived' = TRUE
  /\ UNCHANGED <<m_isAudioStatusInfoUpdated, m_audioStatusTimerStarted,
                 timerVars>>

ReportUpdates ==
  /\ Step("cec", "setUpdated", "clearStarted")
  /\ m_isAudioStatusInfoUpdated' = TRUE
  /\ UNCHANGED <<m_audioStatusReceived, m_audioStatusTimerStarted, timerVars>>

ReportEndsDetection ==
  \/ Step("cec", "clearStarted", "stopTimer")
     /\ m_audioStatusTimerStarted' = FALSE
     /\ UNCHANGED <<m_isAudioStatusInfoUpdated, m_audioStatusReceived, timerVars>>
  \/ Step("cec", "stopTimer", "idle") /\ Timer!StopIfActive
     /\ UNCHANGED statusVars

ProcessReport ==
  /\ ReportReceived \/ ReportUpdates \/ ReportEndsDetection
  /\ Meets(Resetters)
  /\ UNCHANGED <<keyVars, threadVars, owed>>

(***************************************************************************)
(* The timer: audioStatusTimerFunction, then TpTimer's own stop().         *)
(***************************************************************************)
TimerExpires ==
  /\ Step("timer", "idle", "callback")
  /\ Timer!Expire
  /\ UNCHANGED <<statusVars, owed>>

CallbackClearsStarted ==
  /\ Step("timer", "callback", "callbackUpdates")
  /\ m_audioStatusTimerStarted' = FALSE
  /\ UNCHANGED <<m_isAudioStatusInfoUpdated, m_audioStatusReceived, timerVars,
                 owed>>

CallbackUpdates ==
  /\ Step("timer", "callbackUpdates", "callbackAsks")
  /\ m_isAudioStatusInfoUpdated' = TRUE
  /\ UNCHANGED <<m_audioStatusReceived, m_audioStatusTimerStarted, timerVars,
                 owed>>

\* Mutant of CallbackAsks: the callback sends no <Give Audio Status>.
CallbackForgetsToAsk ==
  /\ Step("timer", "callbackAsks", "afterCallback")
  /\ UNCHANGED <<statusVars, timerVars, owed>>

CallbackAsks ==
  /\ Step("timer", "callbackAsks", "afterCallback")
  /\ owed' = FALSE
  /\ UNCHANGED <<statusVars, timerVars>>

TimerStopsItself ==
  /\ Step("timer", "afterCallback", "idle")
  /\ Timer!StopIfActive
  /\ UNCHANGED <<statusVars, owed>>

TimerStep ==
  /\ TimerExpires \/ CallbackClearsStarted \/ CallbackUpdates \/ CallbackAsks
     \/ TimerStopsItself
  /\ Meets(Resetters)
  /\ UNCHANGED <<keyVars, threadVars>>

(***************************************************************************)
(* The destructor: the exit flag rises before the mutex is taken.          *)
(***************************************************************************)
SetExit ==
  /\ Step("destructor", "idle", "setRun")
  /\ m_sendKeyEventThreadExit' = TRUE
  /\ UNCHANGED <<keyVars, m_sendKeyEventThreadRun, statusVars, timerVars,
                 history>>

\* Mutant of WakeForExit: the sender is notified, the run flag is forgotten.
WakeForExitWithoutRun ==
  /\ Step("destructor", "setRun", "join")
  /\ UNCHANGED <<keyVars, threadVars, statusVars, timerVars, history>>

WakeForExit ==
  /\ Step("destructor", "setRun", "join")
  /\ m_sendKeyEventThreadRun' = TRUE
  /\ UNCHANGED <<keyVars, m_sendKeyEventThreadExit, statusVars, timerVars,
                 history>>

JoinSender ==
  /\ pc["sender"] = "ended"
  /\ Step("destructor", "join", "joined")
  /\ UNCHANGED <<keyVars, threadVars, statusVars, timerVars, history>>

(***************************************************************************)
(* Configure has started the thread.  It does not initialise the run flag. *)
(***************************************************************************)
Init ==
  /\ pc = [t \in Threads |-> IF t = "sender" THEN "loop" ELSE "idle"]
  /\ queue = <<>> /\ pushed = 0 /\ keyInfo = "none"
  /\ m_sendKeyEventThreadRun \in BOOLEAN /\ m_sendKeyEventThreadExit = FALSE
  /\ m_isAudioStatusInfoUpdated = FALSE /\ m_audioStatusReceived = FALSE
  /\ m_audioStatusTimerStarted = FALSE
  /\ Timer!TimerInit
  /\ owed = FALSE /\ overlap = FALSE

Next ==
  \/ \E key \in Keys : PushKey(key)
  \/ SenderStep
  \/ \E r \in Resetters : ResetStatus(r)
  \/ ReceiveReport \/ ProcessReport
  \/ TimerStep
  \/ SetExit \/ WakeForExit \/ JoinSender

Spec == Init /\ [][Next]_vars

\* Every thread that can run is run, and a pending timer expires.  Nothing is
\* assumed of callers, of the audio system and of resets that have not begun.
FairSpec ==
  /\ Spec
  /\ WF_vars(SenderStep) /\ WF_vars(ProcessReport) /\ WF_vars(TimerStep)
  /\ \A r \in Resetters : WF_vars(Busy(r) /\ ResetStatus(r))
  /\ WF_vars(WakeForExit) /\ WF_vars(JoinSender)

-------------------------------------------------------------------------------
(***************************************************************************)
(* Properties                                                              *)
(***************************************************************************)
SenderLabels ==
  {"loop", "wait", "checkExit", "checkQueue", "goIdle", "pop", "sent",
   "readUpdated", "readReceived", "checkTimer", "setStarted", "startTimer",
   "ended"}
CecLabels   == {"idle", "setReceived", "setUpdated", "clearStarted", "stopTimer"}
TimerLabels == {"idle", "callback", "callbackUpdates", "callbackAsks",
                "afterCallback"}
ResetLabels == {"idle", "resetUpdated", "resetReceived", "resetStarted"}
ExitLabels  == {"idle", "setRun", "join", "joined"}
Labels == SenderLabels \cup CecLabels \cup TimerLabels \cup ResetLabels
          \cup ExitLabels

ThreadsOK ==
  /\ pc \in [Threads -> Labels]
  /\ pc["sender"] \in SenderLabels /\ pc["cec"] \in CecLabels
  /\ pc["timer"] \in TimerLabels /\ pc["destructor"] \in ExitLabels
  /\ \A r \in Resetters : pc[r] \in ResetLabels

KeysOK ==
  /\ queue \in Seq(Keys) /\ keyInfo \in AllKeys \cup {"none"} /\ pushed \in 0..MaxKeys
  /\ pc["sender"] = "pop" => queue # <<>>

FlagsOK ==
  /\ m_sendKeyEventThreadRun \in BOOLEAN /\ m_sendKeyEventThreadExit \in BOOLEAN
  /\ m_isAudioStatusInfoUpdated \in BOOLEAN /\ m_audioStatusReceived \in BOOLEAN
  /\ m_audioStatusTimerStarted \in BOOLEAN
  /\ Timer!TimerTypeOK
  /\ owed \in BOOLEAN /\ overlap \in BOOLEAN

\* Every variable holds a value of its kind, every thread is at a step of its
\* own code, and the sender, which tests the queue without the mutex, never
\* takes a key from an empty queue.
TypeOK == ThreadsOK /\ KeysOK /\ FlagsOK

\* The destructor does not wait for ever: when it joins the sender, the sender
\* is not asleep with the run flag down, although the exit flag rises outside
\* the mutex and the sender lowers the run flag outside it.
NoSleepAfterExit ==
  pc["destructor"] = "join" =>
    m_sendKeyEventThreadExit
    /\ (pc["sender"] = "wait" => m_sendKeyEventThreadRun)

\* The sender ends once the destructor has told it to.
SenderEnds == m_sendKeyEventThreadExit ~> pc["sender"] = "ended"

\* A sender that is awake empties the queue, whatever is pushed meanwhile: a
\* lost wake-up delays keys until the next call, which brings all of them out.
AwakeSenderDelivers ==
  pc["sender"] = "wait" /\ m_sendKeyEventThreadRun
    ~> queue = <<>> \/ m_sendKeyEventThreadExit

\* After a volume key the television learns the volume: it asks for it, or it
\* knows an audio system that reports by itself.  The exception is exact: once
\* a reset has run into the timer's callback or the report's handler, the late
\* stop() of either may revoke the timer that the next key has started.
StatusLearned == owed ~> ~owed \/ m_audioStatusReceived \/ overlap

\* The sender waits for a message to be added to the queue: it does not sleep
\* while there is one.
NoKeyStranded ==
  pc["sender"] = "wait" /\ ~m_sendKeyEventThreadRun => queue = <<>>
==============================================================================
