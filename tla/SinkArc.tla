------------------------------- MODULE SinkArc -------------------------------
(***************************************************************************)
(* HdmiCecSink: switching CEC on and off, and the Audio Return Channel     *)
(* state machine that runs on top of it (HdmiCecSinkImplementation.cpp).   *)
(*                                                                         *)
(* Threads, each with a program counter in pc:                             *)
(*   - the API threads: JSON-RPC and COM-RPC calls SetEnabled and          *)
(*     SetupARCRouting, and once the destructor ("shutdown");              *)
(*   - "cec": the reader thread of libCEC, which runs the message handlers *)
(*     one after the other;                                                *)
(*   - "pwr": the power manager's notification, onPowerModeChanged;        *)
(*   - "hpd": the IARM thread that runs onHdmiHotPlug;                     *)
(*   - "timer": the thread of m_arcStartStopTimer;                         *)
(*   - "arc": threadArcRouting;                                            *)
(*   - "poll": threadRun, here only its start, its use of the connection   *)
(*     and its end (its state is pollThread).                              *)
(* A label names the next step.  A step reads or writes at most what the   *)
(* code does between two points where another thread can get in; a block   *)
(* under m_arcRoutingStateMutex is one step.                               *)
(***************************************************************************)
EXTENDS Naturals

CONSTANTS
  ApiThreads,     \* the worker threads that run API calls
  ApiOps,         \* the calls of this instance
  CecMessages,    \* the messages the audio system sends in this instance
  PowerModes,     \* the power modes, initial and told to onPowerModeChanged
  PortStates      \* the states of the ARC port, likewise of onHdmiHotPlug

AllApiOps == {"startArc", "stopArc", "enable", "disable", "shutdown"}
AllCecMessages == {"InitiateArc", "TerminateArc", "SystemAudioOff"}
Workers == {"cec", "pwr", "hpd", "timer", "arc"}

ASSUME ConstantsAssumption ==
  /\ ApiThreads \cap (Workers \cup {"none"}) = {}
  /\ ApiOps \subseteq AllApiOps
  /\ CecMessages \subseteq AllCecMessages
  /\ PowerModes \subseteq {"ON", "OFF"}
  /\ PortStates \subseteq BOOLEAN

Threads == ApiThreads \cup Workers

VARIABLES
  pc,                 \* the next step of every thread
  want,               \* what a thread in startArc or stopArc asks for
  closer,             \* the thread that runs the destructor, or "none"
  cecSettingEnabled, cecEnableStatus, libcecInitStatus,
  enableMutex,        \* the holder of m_enableMutex, or "none"
  connection,         \* smConnection # NULL
  listening,          \* the frame listener is attached to the connection
  pollThread,         \* threadRun; "none" when m_pollThread is not joinable
  m_pollThreadExit,
  arcState,           \* m_currentArcRoutingState
  sem,                \* the count of m_semSignaltoArcRoutingThread
  scheduled, isActive,  \* m_arcStartStopTimer
  powerOn,            \* powerState = DEVICE_POWER_STATE_ON
  portConnected,      \* hdmiInputs[HdmiArcPortID].m_isConnected
  arcPortKnown,       \* HdmiArcPortID # -1
  seen,               \* threadArcRouting's copy of the state
  unseen              \* history: a signalled state awaits its copy

Timer == INSTANCE TpTimer

settingVars == <<closer, cecSettingEnabled, cecEnableStatus, enableMutex>>
linkVars    == <<libcecInitStatus, connection, listening, pollThread,
                 m_pollThreadExit>>
arcVars     == <<arcState, sem, seen, unseen>>
timerVars   == <<scheduled, isActive>>
envVars     == <<powerOn, portConnected, arcPortKnown>>
vars == <<pc, want, settingVars, linkVars, arcVars, timerVars, envVars>>

ArcStates == {"REQUEST_INITIATION", "INITIATED", "REQUEST_TERMINATION",
              "TERMINATED", "EXIT"}
PollStates == {"none", "starting", "running", "ended"}

\* Thread t goes from one label to another.
Step(t, from, to) == pc[t] = from /\ pc' = [pc EXCEPT ![t] = to]

(***************************************************************************)
(* The semaphore is binary: a release at 1 is absorbed.                    *)
(***************************************************************************)
\* Mutant of Release: a counting semaphore.
ReleaseCounting == sem' = sem + 1

Release == sem' = 1
Acquire == sem = 1 /\ sem' = 0

\* A write of the state that is followed by a release.
SetState(s)  == arcState' = s /\ unseen' = TRUE
\* A write of the state that wakes nobody.
ResetState   == arcState' = "TERMINATED" /\ UNCHANGED unseen

(***************************************************************************)
(* startArc and stopArc, called by API threads, by the message handler of  *)
(* <Set System Audio Mode>, by the power notification and by CECDisable,   *)
(* which waits for TERMINATED when stopArc returns.                        *)
(***************************************************************************)
ReturnLabel(t) == IF enableMutex = t THEN "spin" ELSE "idle"

CallArc(t, from, request) ==
  /\ Step(t, from, "checkEnabled")
  /\ want' = [want EXCEPT ![t] = request]

ReturnArc(t, from) ==
  /\ Step(t, from, ReturnLabel(t))
  /\ want' = [want EXCEPT ![t] = "none"]

CheckEnabled(t) ==
  /\ \/ ~cecEnableStatus /\ ReturnArc(t, "checkEnabled")
     \/ cecEnableStatus /\ want[t] = "start"
        /\ Step(t, "checkEnabled", "request") /\ UNCHANGED want
     \/ cecEnableStatus /\ want[t] = "stop"
        /\ Step(t, "checkEnabled", "checkState") /\ UNCHANGED want
  /\ UNCHANGED <<settingVars, linkVars, arcVars, timerVars, envVars>>

\* Only stopArc: nothing to do when a termination is under way or done.
CheckState(t) ==
  /\ IF arcState \in {"REQUEST_TERMINATION", "TERMINATED"}
     THEN ReturnArc(t, "checkState")
     ELSE Step(t, "checkState", "request") /\ UNCHANGED want
  /\ UNCHANGED <<settingVars, linkVars, arcVars, timerVars, envVars>>

Request(t) ==
  /\ Step(t, "request", "release")
  /\ SetState(IF want[t] = "start" THEN "REQUEST_INITIATION"
                                   ELSE "REQUEST_TERMINATION")
  /\ UNCHANGED <<want, settingVars, linkVars, sem, seen, timerVars,
                 envVars>>

\* Mutant of SignalRequest: the state is set and the release forgotten.
SignalRequestForgotten(t) ==
  /\ Step(t, "release", "stopTimer")
  /\ UNCHANGED <<want, settingVars, linkVars, arcVars, timerVars, envVars>>

SignalRequest(t) ==
  /\ Step(t, "release", "stopTimer")
  /\ Release
  /\ UNCHANGED <<want, settingVars, linkVars, arcState, seen, unseen,
                 timerVars, envVars>>

RestartTimer(t) ==
  /\ \/ Step(t, "stopTimer", "startTimer") /\ Timer!StopIfActive
        /\ UNCHANGED want
     \/ ReturnArc(t, "startTimer") /\ Timer!Start
  /\ UNCHANGED <<settingVars, linkVars, arcVars, envVars>>

ArcRequestStep(t) ==
  CheckEnabled(t) \/ CheckState(t) \/ Request(t) \/ SignalRequest(t)
  \/ RestartTimer(t)

(***************************************************************************)
(* API calls.  The destructor starts when no other call runs.              *)
(***************************************************************************)
SetupARCRouting(t, op) ==
  /\ closer = "none" /\ op \in ApiOps \cap {"startArc", "stopArc"}
  /\ CallArc(t, "idle", IF op = "startArc" THEN "start" ELSE "stop")
  /\ UNCHANGED <<settingVars, linkVars, arcVars, timerVars, envVars>>

SetEnabled(t, op) ==
  /\ closer = "none" /\ op \in ApiOps \cap {"enable", "disable"}
  /\ Step(t, "idle", IF op = "enable" THEN "enableLock" ELSE "disableLock")
  /\ cecSettingEnabled' = (op = "enable")
  /\ UNCHANGED <<want, closer, cecEnableStatus, enableMutex, linkVars, arcVars,
                 timerVars, envVars>>

Shutdown(t) ==
  /\ "shutdown" \in ApiOps /\ closer = "none"
  /\ \A u \in ApiThreads : pc[u] = "idle"
  /\ pc["pwr"] = "idle"
  /\ Step(t, "idle", "disableLock")
  /\ closer' = t
  /\ UNCHANGED <<want, cecSettingEnabled, cecEnableStatus, enableMutex,
                 linkVars, arcVars, timerVars, envVars>>

(***************************************************************************)
(* CECEnable                                                               *)
(***************************************************************************)
\* Mutant of LockMutex: CECEnable and CECDisable without the lock guard.
LockMutexDropped(t) == enableMutex' = t

LockMutex(t)   == enableMutex = "none" /\ enableMutex' = t
UnlockMutex(t) == enableMutex' = "none"

EnableLock(t) ==
  /\ \/ enableMutex = "none" /\ cecEnableStatus
        /\ Step(t, "enableLock", "idle") /\ UNCHANGED enableMutex
     \/ LockMutex(t) /\ ~cecEnableStatus /\ Step(t, "enableLock", "open")
  /\ UNCHANGED <<want, closer, cecSettingEnabled, cecEnableStatus, linkVars,
                 arcVars, timerVars, envVars>>

\* LibCCEC init, the new connection and the new poll thread.
EnableOpen(t) ==
  /\ Step(t, "open", "enabled")
  /\ libcecInitStatus' = libcecInitStatus + 1
  /\ connection' = TRUE
  /\ pollThread' = "starting" /\ m_pollThreadExit' = FALSE
  /\ UNCHANGED <<want, settingVars, listening, arcVars, timerVars, envVars>>

EnableDone(t) ==
  /\ Step(t, "enabled", "idle")
  /\ cecEnableStatus' = TRUE
  /\ UnlockMutex(t)
  /\ UNCHANGED <<want, closer, cecSettingEnabled, linkVars, arcVars, timerVars,
                 envVars>>

EnableStep(t) ==
  EnableLock(t) \/ EnableOpen(t) \/ EnableDone(t)

(***************************************************************************)
(* CECDisable, and the rest of the destructor when it is the caller.       *)
(***************************************************************************)
AfterDisable(t) == IF closer = t THEN "setExit" ELSE "idle"

DisableLock(t) ==
  /\ \/ enableMutex = "none" /\ ~cecEnableStatus
        /\ Step(t, "disableLock", AfterDisable(t)) /\ UNCHANGED enableMutex
     \/ LockMutex(t) /\ cecEnableStatus /\ Step(t, "disableLock", "arcActive")
  /\ UNCHANGED <<want, closer, cecSettingEnabled, cecEnableStatus, linkVars,
                 arcVars, timerVars, envVars>>

DisableStopArc(t) ==
  /\ \/ arcState # "TERMINATED" /\ CallArc(t, "arcActive", "stop")
     \/ arcState = "TERMINATED" /\ Step(t, "arcActive", "disabled")
        /\ UNCHANGED want
  /\ UNCHANGED <<settingVars, linkVars, arcVars, timerVars, envVars>>

\* while (m_currentArcRoutingState != ARC_STATE_ARC_TERMINATED) usleep
DisableSpin(t) ==
  /\ arcState = "TERMINATED"
  /\ Step(t, "spin", "disabled")
  /\ UNCHANGED <<want, settingVars, linkVars, arcVars, timerVars, envVars>>

DisableOff(t) ==
  /\ cecEnableStatus' = FALSE
  /\ IF connection
     THEN Step(t, "disabled", "joinPoll") /\ m_pollThreadExit' = TRUE
     ELSE Step(t, "disabled", "finish") /\ UNCHANGED m_pollThreadExit
  /\ UNCHANGED <<want, closer, cecSettingEnabled, enableMutex,
                 libcecInitStatus, connection, listening, pollThread, arcVars,
                 timerVars, envVars>>

\* Mutant of DisableJoin: the poll thread is detached.
DisableDetach(t) ==
  /\ Step(t, "joinPoll", "finish")
  /\ UNCHANGED <<want, settingVars, linkVars, arcVars, timerVars, envVars>>

DisableJoin(t) ==
  /\ pollThread = "ended"
  /\ Step(t, "joinPoll", "finish")
  /\ pollThread' = "none"
  /\ UNCHANGED <<want, settingVars, libcecInitStatus, connection, listening,
                 m_pollThreadExit, arcVars, timerVars, envVars>>

\* The connection is closed and deleted, the state is written without
\* m_arcRoutingStateMutex and without a release, and libCEC is terminated.
DisableFinish(t) ==
  /\ Step(t, "finish", AfterDisable(t))
  /\ connection' = FALSE /\ listening' = FALSE
  /\ ResetState
  /\ libcecInitStatus' = IF libcecInitStatus = 1 THEN 0 ELSE libcecInitStatus
  /\ UnlockMutex(t)
  /\ UNCHANGED <<want, closer, cecSettingEnabled, cecEnableStatus, pollThread,
                 m_pollThreadExit, sem, seen, timerVars, envVars>>

DisableStep(t) ==
  DisableLock(t) \/ DisableStopArc(t) \/ DisableSpin(t) \/ DisableOff(t)
  \/ DisableJoin(t) \/ DisableFinish(t)

ExitSet(t) ==
  /\ Step(t, "setExit", "signalExit")
  /\ SetState("EXIT")
  /\ UNCHANGED <<want, settingVars, linkVars, sem, seen, timerVars,
                 envVars>>

ExitSignal(t) ==
  /\ Step(t, "signalExit", "joinArc")
  /\ Release
  /\ UNCHANGED <<want, settingVars, linkVars, arcState, seen, unseen,
                 timerVars, envVars>>

\* Mutant of ExitJoin: the routing thread is not joined.
ExitDetach(t) ==
  /\ Step(t, "joinArc", "closed")
  /\ UNCHANGED <<want, settingVars, linkVars, arcVars, timerVars, envVars>>

ExitJoin(t) ==
  /\ pc["arc"] = "exited"
  /\ Step(t, "joinArc", "closed")
  /\ UNCHANGED <<want, settingVars, linkVars, arcVars, timerVars, envVars>>

ExitStep(t) == ExitSet(t) \/ ExitSignal(t) \/ ExitJoin(t)

\* The object is gone: no handler and no notification reaches it.
Alive == closer # "none" => pc[closer] # "closed"

(***************************************************************************)
(* The message handlers, on libCEC's reader thread.                        *)
(***************************************************************************)
Receive(message) ==
  /\ Alive /\ listening /\ message \in CecMessages
  /\ UNCHANGED <<want, settingVars, linkVars, arcState, sem, seen, unseen,
                 timerVars, envVars>>

\* From address 5 with the physical address of the ARC port.
ReceiveInitiateArc ==
  /\ Receive("InitiateArc") /\ arcPortKnown /\ cecSettingEnabled
  /\ Step("cec", "idle", "initiateTimer")

\* Mutant of ReceiveTerminateArc: it gets the test of cecSettingEnabled that
\* Process_InitiateArc has.
ReceiveTerminateArcIfSet ==
  /\ Receive("TerminateArc") /\ cecSettingEnabled
  /\ Step("cec", "idle", "terminateTimer")

ReceiveTerminateArc ==
  /\ Receive("TerminateArc")
  /\ Step("cec", "idle", "terminateTimer")

ReceiveSystemAudioOff ==
  /\ Receive("SystemAudioOff") /\ cecSettingEnabled
  /\ Step("cec", "idle", "systemAudioOff")

ProcessInitiateArc ==
  /\ \/ Step("cec", "initiateTimer", "initiatePower") /\ Timer!StopIfActive
     \/ Step("cec", "initiatePower", IF powerOn THEN "initiated" ELSE "idle")
        /\ UNCHANGED timerVars
  /\ UNCHANGED <<want, settingVars, linkVars, arcVars, envVars>>

\* The state changes and the semaphore is released under the lock.
SetInitiated ==
  /\ Step("cec", "initiated", "idle")
  /\ SetState("INITIATED") /\ Release
  /\ UNCHANGED <<want, settingVars, linkVars, seen, timerVars, envVars>>

ProcessTerminateArc ==
  /\ Step("cec", "terminateTimer", "terminated") /\ Timer!StopIfActive
  /\ UNCHANGED <<want, settingVars, linkVars, arcVars, envVars>>

\* Mutant of SetTerminated: the state is set and the release forgotten.
SetTerminatedSilently ==
  /\ Step("cec", "terminated", "idle")
  /\ SetState("TERMINATED")
  /\ UNCHANGED <<want, settingVars, linkVars, sem, seen, timerVars, envVars>>

SetTerminated ==
  /\ Step("cec", "terminated", "idle")
  /\ SetState("TERMINATED") /\ Release
  /\ UNCHANGED <<want, settingVars, linkVars, seen, timerVars, envVars>>

ProcessSystemAudioOff ==
  /\ IF arcState = "INITIATED"
     THEN CallArc("cec", "systemAudioOff", "stop")
     ELSE Step("cec", "systemAudioOff", "idle") /\ UNCHANGED want
  /\ UNCHANGED <<settingVars, linkVars, arcVars, timerVars, envVars>>

CecStep ==
  ProcessInitiateArc \/ SetInitiated \/ ProcessTerminateArc \/ SetTerminated
  \/ ProcessSystemAudioOff \/ ArcRequestStep("cec")

(***************************************************************************)
(* Power notifications (unregistered first thing in the destructor) and    *)
(* hot plug of the ARC port.                                               *)
(***************************************************************************)
PowerModeChanged(mode) ==
  /\ closer = "none"
  /\ Step("pwr", "idle", IF mode = "OFF" THEN "poweredOff" ELSE "idle")
  /\ powerOn' = (mode = "ON")
  /\ UNCHANGED <<want, settingVars, linkVars, arcVars, timerVars,
                 portConnected, arcPortKnown>>

PowerOffStopsArc ==
  /\ IF arcState \in {"REQUEST_INITIATION", "INITIATED"}
     THEN CallArc("pwr", "poweredOff", "stop")
     ELSE Step("pwr", "poweredOff", "idle") /\ UNCHANGED want
  /\ UNCHANGED <<settingVars, linkVars, arcVars, timerVars, envVars>>

PowerStep == PowerOffStopsArc \/ ArcRequestStep("pwr")

\* updateArcState of a known ARC port, up to its write.  Only this thread
\* writes portConnected, so the event is where the state is read.
HotPlug(connected) ==
  /\ Alive
  /\ portConnected' = connected
  /\ Step("hpd", "idle",
          IF arcPortKnown /\ arcState # "TERMINATED" /\ ~connected
          THEN "resetArc" ELSE "idle")
  /\ UNCHANGED <<want, settingVars, linkVars, arcVars, timerVars, powerOn,
                 arcPortKnown>>

\* The ARC port is unplugged: the timer keeps running.
ResetArcState ==
  /\ Step("hpd", "resetArc", "idle")
  /\ ResetState
  /\ UNCHANGED <<want, settingVars, linkVars, sem, seen, timerVars,
                 envVars>>

(***************************************************************************)
(* The timer's thread: arcStartStopTimerFunction, then the stop() that a   *)
(* single-shot TpTimer gives itself.                                       *)
(***************************************************************************)
TimerExpires ==
  /\ Alive
  /\ Step("timer", "idle", "callback")
  /\ Timer!Expire
  /\ UNCHANGED <<want, settingVars, linkVars, arcVars, envVars>>

TimerCallback ==
  /\ Step("timer", "callback", "afterCallback")
  /\ ResetState
  /\ UNCHANGED <<want, settingVars, linkVars, sem, seen, timerVars,
                 envVars>>

TimerStopsItself ==
  /\ Step("timer", "afterCallback", "idle")
  /\ Timer!StopIfActive
  /\ UNCHANGED <<want, settingVars, linkVars, arcVars, envVars>>

TimerStep == TimerExpires \/ TimerCallback \/ TimerStopsItself

(***************************************************************************)
(* threadArcRouting                                                        *)
(***************************************************************************)
\* getHdmiArcPortID: the id stays -1 when the IARM call fails.
GetArcPort ==
  /\ Step("arc", "start", "acquire")
  /\ arcPortKnown' \in BOOLEAN
  /\ UNCHANGED <<want, settingVars, linkVars, arcVars, timerVars, powerOn,
                 portConnected>>

AcquireSemaphore ==
  /\ Step("arc", "acquire", "copy")
  /\ Acquire
  /\ UNCHANGED <<want, settingVars, linkVars, arcState, seen, unseen,
                 timerVars, envVars>>

\* The copy under the lock; then the message for the copied state goes out if
\* there is a connection, which changes nothing here.
CopyState ==
  /\ Step("arc", "copy", IF arcState = "EXIT" THEN "exited" ELSE "acquire")
  /\ seen' = arcState /\ unseen' = FALSE
  /\ UNCHANGED <<want, settingVars, linkVars, arcState, sem, timerVars,
                 envVars>>

ArcStep == GetArcPort \/ AcquireSemaphore \/ CopyState

(***************************************************************************)
(* threadRun: it attaches the listener once a logical address is allocated *)
(* and ends when told to, or by itself when the allocation fails.  A hot   *)
(* plug or power event before its first look at m_pollNextState makes it   *)
(* skip the allocation, so that it runs without a listener.                *)
(***************************************************************************)
PollAllocates ==
  /\ pollThread = "starting"
  /\ \/ pollThread' = "running" /\ listening' \in BOOLEAN
     \/ pollThread' = "ended" /\ UNCHANGED listening
  /\ UNCHANGED <<pc, want, settingVars, libcecInitStatus, connection,
                 m_pollThreadExit, arcVars, timerVars, envVars>>

PollExits ==
  /\ pollThread \in {"starting", "running"} /\ m_pollThreadExit
  /\ pollThread' = "ended"
  /\ UNCHANGED <<pc, want, settingVars, libcecInitStatus, connection, listening,
                 m_pollThreadExit, arcVars, timerVars, envVars>>

PollStep == PollAllocates \/ PollExits

(***************************************************************************)
(* Configure has finished: the setting is loaded from its file and CEC is  *)
(* on if it says so; the poll and ARC threads may not have run yet.        *)
(***************************************************************************)
Init ==
  /\ pc = [t \in Threads |-> IF t = "arc" THEN "start" ELSE "idle"]
  /\ want = [t \in Threads |-> "none"]
  /\ closer = "none" /\ enableMutex = "none"
  /\ cecSettingEnabled \in BOOLEAN
  /\ cecEnableStatus = cecSettingEnabled /\ connection = cecSettingEnabled
  /\ libcecInitStatus = (IF cecSettingEnabled THEN 1 ELSE 0)
  /\ listening = FALSE
  /\ pollThread = (IF cecSettingEnabled THEN "starting" ELSE "none")
  /\ m_pollThreadExit = FALSE
  /\ arcState = "TERMINATED" /\ seen = "TERMINATED"
  /\ sem = 0 /\ unseen = FALSE
  /\ Timer!TimerInit
  /\ powerOn \in {mode = "ON" : mode \in PowerModes}
  /\ portConnected \in PortStates /\ arcPortKnown = FALSE

ApiCall(t) ==
  \/ \E op \in ApiOps : SetupARCRouting(t, op) \/ SetEnabled(t, op)
  \/ Shutdown(t)

ApiStep(t) == ArcRequestStep(t) \/ EnableStep(t) \/ DisableStep(t) \/ ExitStep(t)

Environment ==
  \/ \E t \in ApiThreads : ApiCall(t)
  \/ ReceiveInitiateArc \/ ReceiveTerminateArc \/ ReceiveSystemAudioOff
  \/ \E mode \in PowerModes : PowerModeChanged(mode)
  \/ \E connected \in PortStates : HotPlug(connected)

Next ==
  \/ Environment
  \/ \E t \in ApiThreads : ApiStep(t)
  \/ CecStep \/ PowerStep \/ ResetArcState \/ TimerStep \/ ArcStep \/ PollStep

Spec == Init /\ [][Next]_vars

\* Every thread that can run is run, and a pending timer expires.  Nothing is
\* assumed of callers, power, cables and the audio system.
ThreadFairness ==
  /\ \A t \in ApiThreads : WF_vars(ApiStep(t))
  /\ WF_vars(CecStep) /\ WF_vars(PowerStep) /\ WF_vars(ResetArcState)
  /\ WF_vars(TimerStep) /\ WF_vars(ArcStep) /\ WF_vars(PollStep)

FairSpec == Spec /\ ThreadFairness

-------------------------------------------------------------------------------
(***************************************************************************)
(* Properties                                                              *)
(***************************************************************************)
ArcLabels ==
  {"checkEnabled", "checkState", "request", "release", "stopTimer",
   "startTimer"}
ApiLabels ==
  {"idle", "enableLock", "open", "enabled",
   "disableLock", "arcActive", "spin", "disabled", "joinPoll", "finish",
   "setExit", "signalExit", "joinArc", "closed"} \cup ArcLabels
CecLabels ==
  {"idle", "initiateTimer", "initiatePower", "initiated", "terminateTimer",
   "terminated", "systemAudioOff"} \cup ArcLabels
PwrLabels   == {"idle", "poweredOff"} \cup ArcLabels
HpdLabels   == {"idle", "resetArc"}
TimerLabels == {"idle", "callback", "afterCallback"}
RouteLabels == {"start", "acquire", "copy", "exited"}
Labels == ApiLabels \cup CecLabels \cup PwrLabels \cup HpdLabels
          \cup TimerLabels \cup RouteLabels

\* Every thread is at a step of its own code.
ThreadsOK ==
  /\ pc \in [Threads -> Labels]
  /\ \A t \in ApiThreads : pc[t] \in ApiLabels
  /\ pc["cec"] \in CecLabels /\ pc["pwr"] \in PwrLabels
  /\ pc["hpd"] \in HpdLabels /\ pc["timer"] \in TimerLabels
  /\ pc["arc"] \in RouteLabels

SettingOK ==
  /\ want \in [Threads -> {"none", "start", "stop"}]
  /\ closer \in ApiThreads \cup {"none"}
  /\ enableMutex \in ApiThreads \cup {"none"}
  /\ cecSettingEnabled \in BOOLEAN /\ cecEnableStatus \in BOOLEAN
LinkOK ==
  /\ libcecInitStatus \in Nat
  /\ connection \in BOOLEAN /\ listening \in BOOLEAN
  /\ pollThread \in PollStates /\ m_pollThreadExit \in BOOLEAN
RouteOK ==
  /\ arcState \in ArcStates /\ seen \in ArcStates
  /\ sem \in {0, 1} /\ unseen \in BOOLEAN
EnvironmentOK ==
  /\ powerOn \in BOOLEAN /\ portConnected \in BOOLEAN
  /\ arcPortKnown \in BOOLEAN

VariablesOK ==
  SettingOK /\ LinkOK /\ RouteOK /\ Timer!TimerTypeOK /\ EnvironmentOK

\* Every variable holds a value of its kind, and every thread is at a step of
\* its own code.
TypeOK == ThreadsOK /\ VariablesOK

\* No wake-up of threadArcRouting is lost, although the semaphore is binary,
\* the state is one variable for all requests and the thread copies it only
\* after the semaphore: as long as a signalled state has not been copied, the
\* semaphore is up, or the routing thread holds it and is about to copy, or
\* the thread that wrote the state is about to release.
NoLostSignal ==
  unseen =>
    \/ sem = 1
    \/ pc["arc"] = "copy"
    \/ \E t \in Threads : pc[t] \in {"release", "signalExit"}

\* CECEnable and CECDisable of any number of threads leave no half-open link:
\* whenever nobody is inside them, CEC is reported enabled exactly when there
\* is a connection, a poll thread to join and one initialisation of libCEC.
LinkConsistent ==
  enableMutex = "none" =>
    /\ cecEnableStatus = connection
    /\ connection = (pollThread # "none")
    /\ libcecInitStatus = (IF connection THEN 1 ELSE 0)

\* The poll thread never outlives the connection it uses without a test, and
\* m_pollThread is joined before a new thread is assigned to it.
PollThreadOwned ==
  /\ pollThread \in {"starting", "running"} => connection
  /\ \A t \in ApiThreads : pc[t] = "open" => pollThread = "none"

\* When the destructor is through, the poll and routing threads have ended,
\* the connection is closed and libCEC terminated, whatever arrived while it
\* ran.
ShutdownClean ==
  \A t \in ApiThreads : pc[t] = "closed" =>
    /\ pc["arc"] = "exited"
    /\ pollThread = "none" /\ ~connection /\ ~listening
    /\ libcecInitStatus = 0 /\ enableMutex = "none"

\* The routing thread sees the requests through a mailbox that forgets nothing.
Mailbox == INSTANCE ArcMailbox
  WITH Values <- ArcStates, Quiet <- "TERMINATED", Stop <- "EXIT",
       current <- arcState, pending <- unseen, taken <- seen

MailboxImplemented == Mailbox!MailSpec

\* The check of cecSettingEnabled in Process_InitiateArc keeps an <Initiate
\* ARC> that arrives during CECDisable from being honoured: once CECDisable
\* has asked for the end of ARC or seen it ended, ARC is not initiated again.
NoInitiationWhileDisabling ==
  [][(\E t \in ApiThreads :
        pc[t] \in {"spin", "disabled", "joinPoll", "finish"})
     /\ arcState # "INITIATED" => arcState' # "INITIATED"]_vars

\* stopArc starts a timer to get the state TERMINATED: when every thread is
\* idle and the termination is still awaited, the timer runs.
TerminationTimed ==
  /\ arcState = "REQUEST_TERMINATION"
  /\ \A t \in Threads \ {"arc"} : pc[t] \in {"idle", "spin"}
  /\ pc["arc"] = "acquire" /\ sem = 0
  => scheduled
==============================================================================
