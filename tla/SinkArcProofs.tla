---------------------------- MODULE SinkArcProofs ----------------------------
(***************************************************************************)
(* Proofs about SinkArc, for every set of API threads and every choice of  *)
(* calls, messages and events.                                             *)
(***************************************************************************)
EXTENDS SinkArc, TLAPS

\* The initial state is well typed.
LEMMA InitTypeOK == Init => TypeOK
<1> SUFFICES ASSUME Init PROVE TypeOK
  OBVIOUS
<1> USE DEF Init
<1>1. /\ pc \in [Threads -> Labels]
      /\ \A t \in ApiThreads : pc[t] \in ApiLabels
      /\ pc["cec"] \in CecLabels /\ pc["pwr"] \in PwrLabels
      /\ pc["hpd"] \in HpdLabels /\ pc["timer"] \in TimerLabels
      /\ pc["arc"] \in RouteLabels
  BY ConstantsAssumption
  DEF Threads, Workers, Labels, ApiLabels, CecLabels, PwrLabels, HpdLabels,
      TimerLabels, RouteLabels
<1>2. want \in [Threads -> {"none", "start", "stop"}]
  OBVIOUS
<1>3. /\ closer \in ApiThreads \cup {"none"}
      /\ enableMutex \in ApiThreads \cup {"none"}
  OBVIOUS
<1>4. /\ cecSettingEnabled \in BOOLEAN /\ cecEnableStatus \in BOOLEAN
      /\ libcecInitStatus \in Nat
      /\ connection \in BOOLEAN /\ listening \in BOOLEAN
      /\ pollThread \in PollStates /\ m_pollThreadExit \in BOOLEAN
  BY DEF PollStates
<1>5. /\ arcState \in ArcStates /\ seen \in ArcStates
      /\ sem \in {0, 1} /\ unseen \in BOOLEAN
      /\ Timer!TimerTypeOK
  BY DEF ArcStates, Timer!TimerInit, Timer!TimerTypeOK
<1>6. powerOn \in BOOLEAN
  OBVIOUS
<1>7. portConnected \in BOOLEAN /\ arcPortKnown \in BOOLEAN
  BY ConstantsAssumption
<1>8. QED
  BY <1>1, <1>2, <1>3, <1>4, <1>5, <1>6, <1>7
  DEF TypeOK, ThreadsOK, VariablesOK, SettingOK, LinkOK, RouteOK,
      EnvironmentOK

\* Every step leaves every thread at a step of its own code.
LEMMA StepThreadsOK == TypeOK /\ [Next]_vars => ThreadsOK'
<1> SUFFICES ASSUME TypeOK, [Next]_vars PROVE ThreadsOK'
  OBVIOUS
<1> USE ConstantsAssumption
    DEF TypeOK, ThreadsOK, Labels, ApiLabels, CecLabels, PwrLabels, HpdLabels,
        TimerLabels, RouteLabels, ArcLabels, Threads, Workers, Step
<1>0. enableMutex \in ApiThreads \cup {"none"}
  BY DEF VariablesOK, SettingOK
<1>1. ASSUME NEW t \in ApiThreads \cup {"cec", "pwr"}, ArcRequestStep(t)
      PROVE  ThreadsOK'
  <2>1. CASE CheckEnabled(t)
    BY <1>0, <2>1 DEF CheckEnabled, ReturnArc, ReturnLabel
  <2>2. CASE CheckState(t)
    BY <1>0, <2>2 DEF CheckState, ReturnArc, ReturnLabel
  <2>3. CASE Request(t)
    BY <2>3 DEF Request
  <2>4. CASE SignalRequest(t)
    BY <2>4 DEF SignalRequest
  <2>5. CASE RestartTimer(t)
    BY <1>0, <2>5 DEF RestartTimer, ReturnArc, ReturnLabel
  <2>6. QED
    BY <1>1, <2>1, <2>2, <2>3, <2>4, <2>5 DEF ArcRequestStep
<1>2. ASSUME NEW t \in ApiThreads, Shutdown(t)
      PROVE  ThreadsOK'
  BY <1>2 DEF Shutdown
<1>3. ASSUME NEW t \in ApiThreads, NEW op \in ApiOps,
             SetupARCRouting(t, op) \/ SetEnabled(t, op)
      PROVE  ThreadsOK'
  <2>1. CASE SetupARCRouting(t, op)
    BY <2>1 DEF SetupARCRouting, CallArc
  <2>2. CASE SetEnabled(t, op)
    BY <2>2 DEF SetEnabled
  <2>3. QED
    BY <1>3, <2>1, <2>2
<1>4. ASSUME NEW t \in ApiThreads, EnableStep(t)
      PROVE  ThreadsOK'
  <2>1. CASE EnableLock(t)
    BY <2>1 DEF EnableLock
  <2>2. CASE EnableOpen(t)
    BY <2>2 DEF EnableOpen
  <2>3. CASE EnableDone(t)
    BY <2>3 DEF EnableDone
  <2>4. QED
    BY <1>4, <2>1, <2>2, <2>3 DEF EnableStep
<1>5. ASSUME NEW t \in ApiThreads, DisableStep(t)
      PROVE  ThreadsOK'
  <2>1. CASE DisableLock(t)
    BY <2>1 DEF DisableLock, AfterDisable
  <2>2. CASE DisableStopArc(t)
    BY <2>2 DEF DisableStopArc, CallArc
  <2>3. CASE DisableSpin(t)
    BY <2>3 DEF DisableSpin
  <2>4. CASE DisableOff(t)
    BY <2>4 DEF DisableOff
  <2>5. CASE DisableJoin(t)
    BY <2>5 DEF DisableJoin
  <2>6. CASE DisableFinish(t)
    BY <2>6 DEF DisableFinish, AfterDisable
  <2>7. QED
    BY <1>5, <2>1, <2>2, <2>3, <2>4, <2>5, <2>6 DEF DisableStep
<1>6. ASSUME NEW t \in ApiThreads, ExitStep(t)
      PROVE  ThreadsOK'
  <2>1. CASE ExitSet(t)
    BY <2>1 DEF ExitSet
  <2>2. CASE ExitSignal(t)
    BY <2>2 DEF ExitSignal
  <2>3. CASE ExitJoin(t)
    BY <2>3 DEF ExitJoin
  <2>4. QED
    BY <1>6, <2>1, <2>2, <2>3 DEF ExitStep
<1>7. CASE ReceiveInitiateArc \/ ReceiveTerminateArc \/ ReceiveSystemAudioOff
  BY <1>7 DEF ReceiveInitiateArc, ReceiveTerminateArc,
            ReceiveSystemAudioOff, Receive
<1>8. CASE ProcessInitiateArc
  BY <1>8 DEF ProcessInitiateArc
<1>9. CASE SetInitiated
  BY <1>9 DEF SetInitiated
<1>10. CASE ProcessTerminateArc
  BY <1>10 DEF ProcessTerminateArc
<1>11. CASE SetTerminated
  BY <1>11 DEF SetTerminated
<1>12. CASE ProcessSystemAudioOff
  BY <1>12 DEF ProcessSystemAudioOff, CallArc
<1>13. ASSUME NEW mode \in PowerModes, PowerModeChanged(mode)
      PROVE  ThreadsOK'
  BY <1>13 DEF PowerModeChanged
<1>14. CASE PowerOffStopsArc
  BY <1>14 DEF PowerOffStopsArc, CallArc
<1>15. ASSUME NEW connected \in PortStates, HotPlug(connected)
      PROVE  ThreadsOK'
  BY <1>15 DEF HotPlug
<1>16. CASE ResetArcState
  BY <1>16 DEF ResetArcState
<1>17. CASE TimerStep
  <2>1. CASE TimerExpires
    BY <2>1 DEF TimerExpires
  <2>2. CASE TimerCallback
    BY <2>2 DEF TimerCallback
  <2>3. CASE TimerStopsItself
    BY <2>3 DEF TimerStopsItself
  <2>4. QED
    BY <1>17, <2>1, <2>2, <2>3 DEF TimerStep
<1>18. CASE ArcStep
  <2>1. CASE GetArcPort
    BY <2>1 DEF GetArcPort
  <2>2. CASE AcquireSemaphore
    BY <2>2 DEF AcquireSemaphore
  <2>3. CASE CopyState
    BY <2>3 DEF CopyState
  <2>4. QED
    BY <1>18, <2>1, <2>2, <2>3 DEF ArcStep
<1>19. CASE PollStep
  <2>1. CASE PollAllocates
    BY <2>1 DEF PollAllocates
  <2>2. CASE PollExits
    BY <2>2 DEF PollExits
  <2>3. QED
    BY <1>19, <2>1, <2>2 DEF PollStep
<1>20. CASE UNCHANGED vars
  BY <1>20 DEF vars
<1>21. QED
  BY <1>1, <1>2, <1>3, <1>4, <1>5, <1>6, <1>7, <1>8, <1>9, <1>10, <1>11, <1>12,
     <1>13, <1>14, <1>15, <1>16, <1>17, <1>18, <1>19, <1>20
  DEF Next, Environment, ApiCall, ApiStep, CecStep, PowerStep

\* Every step keeps every variable in its type.
LEMMA StepVariablesOK == TypeOK /\ [Next]_vars => VariablesOK'
<1> SUFFICES ASSUME TypeOK, [Next]_vars PROVE VariablesOK'
  OBVIOUS
<1> USE ConstantsAssumption
    DEF TypeOK, VariablesOK, SettingOK, LinkOK, RouteOK, EnvironmentOK,
        ArcStates, PollStates, Timer!TimerTypeOK, Timer!timerVars,
        settingVars, linkVars, arcVars, timerVars, envVars
<1>1. ASSUME NEW t \in ApiThreads \cup {"cec", "pwr"}, ArcRequestStep(t)
      PROVE  VariablesOK'
  <2>1. CASE CheckEnabled(t)
    BY <2>1 DEF CheckEnabled, ReturnArc
  <2>2. CASE CheckState(t)
    BY <2>2 DEF CheckState, ReturnArc
  <2>3. CASE Request(t)
    BY <2>3 DEF Request, SetState
  <2>4. CASE SignalRequest(t)
    BY <2>4 DEF SignalRequest, Release
  <2>5. CASE RestartTimer(t)
    <3>1. Timer!TimerTypeOK'
      BY <2>5 DEF RestartTimer, ReturnArc, Timer!StopIfActive, Timer!Start
    <3>2. SettingOK' /\ LinkOK' /\ RouteOK' /\ EnvironmentOK'
      BY <2>5 DEF RestartTimer, ReturnArc, Timer!StopIfActive, Timer!Start
    <3>3. QED
      BY <3>1, <3>2
  <2>6. QED
    BY <1>1, <2>1, <2>2, <2>3, <2>4, <2>5 DEF ArcRequestStep
<1>2. ASSUME NEW t \in ApiThreads, Shutdown(t)
      PROVE  VariablesOK'
  BY <1>2 DEF Shutdown
<1>3. ASSUME NEW t \in ApiThreads, NEW op \in ApiOps,
             SetupARCRouting(t, op) \/ SetEnabled(t, op)
      PROVE  VariablesOK'
  <2>1. CASE SetupARCRouting(t, op)
    <3>1. SettingOK'
      BY <2>1 DEF SetupARCRouting, CallArc
    <3>2. LinkOK' /\ RouteOK' /\ Timer!TimerTypeOK' /\ EnvironmentOK'
      BY <2>1 DEF SetupARCRouting, CallArc
    <3>3. QED
      BY <3>1, <3>2
  <2>2. CASE SetEnabled(t, op)
    BY <2>2 DEF SetEnabled
  <2>3. QED
    BY <1>3, <2>1, <2>2
<1>4. ASSUME NEW t \in ApiThreads, EnableStep(t)
      PROVE  VariablesOK'
  <2>1. CASE EnableLock(t)
    BY <2>1 DEF EnableLock, LockMutex
  <2>2. CASE EnableOpen(t)
    <3>1. LinkOK'
      <4>1. libcecInitStatus' \in Nat
        BY <2>2 DEF EnableOpen
      <4>2. QED
        BY <2>2, <4>1 DEF EnableOpen
    <3>2. SettingOK' /\ RouteOK' /\ Timer!TimerTypeOK' /\ EnvironmentOK'
      BY <2>2 DEF EnableOpen
    <3>3. QED
      BY <3>1, <3>2
  <2>3. CASE EnableDone(t)
    BY <2>3 DEF EnableDone, UnlockMutex
  <2>4. QED
    BY <1>4, <2>1, <2>2, <2>3 DEF EnableStep
<1>5. ASSUME NEW t \in ApiThreads, DisableStep(t)
      PROVE  VariablesOK'
  <2>1. CASE DisableLock(t)
    BY <2>1 DEF DisableLock, LockMutex
  <2>2. CASE DisableStopArc(t)
    BY <2>2 DEF DisableStopArc, CallArc
  <2>3. CASE DisableSpin(t)
    BY <2>3 DEF DisableSpin
  <2>4. CASE DisableOff(t)
    <3>1. LinkOK'
      BY <2>4 DEF DisableOff
    <3>2. SettingOK'
      BY <2>4 DEF DisableOff
    <3>3. RouteOK' /\ Timer!TimerTypeOK' /\ EnvironmentOK'
      BY <2>4 DEF DisableOff
    <3>4. QED
      BY <3>1, <3>2, <3>3
  <2>5. CASE DisableJoin(t)
    BY <2>5 DEF DisableJoin
  <2>6. CASE DisableFinish(t)
    <3>1. LinkOK'
      BY <2>6 DEF DisableFinish, ResetState, UnlockMutex
    <3>2. SettingOK' /\ RouteOK' /\ Timer!TimerTypeOK' /\ EnvironmentOK'
      BY <2>6 DEF DisableFinish, ResetState, UnlockMutex
    <3>3. QED
      BY <3>1, <3>2
  <2>7. QED
    BY <1>5, <2>1, <2>2, <2>3, <2>4, <2>5, <2>6 DEF DisableStep
<1>6. ASSUME NEW t \in ApiThreads, ExitStep(t)
      PROVE  VariablesOK'
  <2>1. CASE ExitSet(t)
    BY <2>1 DEF ExitSet, SetState
  <2>2. CASE ExitSignal(t)
    BY <2>2 DEF ExitSignal, Release
  <2>3. CASE ExitJoin(t)
    BY <2>3 DEF ExitJoin
  <2>4. QED
    BY <1>6, <2>1, <2>2, <2>3 DEF ExitStep
<1>7. CASE ReceiveInitiateArc \/ ReceiveTerminateArc \/ ReceiveSystemAudioOff
  BY <1>7 DEF ReceiveInitiateArc, ReceiveTerminateArc,
            ReceiveSystemAudioOff, Receive
<1>8. CASE ProcessInitiateArc
  <2>1. Timer!TimerTypeOK'
    BY <1>8 DEF ProcessInitiateArc, Timer!StopIfActive
  <2>2. SettingOK' /\ LinkOK' /\ RouteOK' /\ EnvironmentOK'
    BY <1>8 DEF ProcessInitiateArc, Timer!StopIfActive
  <2>3. QED
    BY <2>1, <2>2
<1>9. CASE SetInitiated
  BY <1>9 DEF SetInitiated, SetState, Release
<1>10. CASE ProcessTerminateArc
  <2>1. Timer!TimerTypeOK'
    BY <1>10 DEF ProcessTerminateArc, Timer!StopIfActive
  <2>2. SettingOK' /\ LinkOK' /\ RouteOK' /\ EnvironmentOK'
    BY <1>10 DEF ProcessTerminateArc, Timer!StopIfActive
  <2>3. QED
    BY <2>1, <2>2
<1>11. CASE SetTerminated
  BY <1>11 DEF SetTerminated, SetState, Release
<1>12. CASE ProcessSystemAudioOff
  BY <1>12 DEF ProcessSystemAudioOff, CallArc
<1>13. ASSUME NEW mode \in PowerModes, PowerModeChanged(mode)
      PROVE  VariablesOK'
  BY <1>13 DEF PowerModeChanged
<1>14. CASE PowerOffStopsArc
  BY <1>14 DEF PowerOffStopsArc, CallArc
<1>15. ASSUME NEW connected \in PortStates, HotPlug(connected)
      PROVE  VariablesOK'
  BY <1>15 DEF HotPlug
<1>16. CASE ResetArcState
  BY <1>16 DEF ResetArcState, ResetState
<1>17. CASE TimerStep
  <2>1. CASE TimerExpires
    <3>1. Timer!TimerTypeOK'
      BY <2>1 DEF TimerExpires, Timer!Expire
    <3>2. SettingOK' /\ LinkOK' /\ RouteOK' /\ EnvironmentOK'
      BY <2>1 DEF TimerExpires, Timer!Expire
    <3>3. QED
      BY <3>1, <3>2
  <2>2. CASE TimerCallback
    BY <2>2 DEF TimerCallback, ResetState
  <2>3. CASE TimerStopsItself
    <3>1. Timer!TimerTypeOK'
      BY <2>3 DEF TimerStopsItself, Timer!StopIfActive
    <3>2. SettingOK' /\ LinkOK' /\ RouteOK' /\ EnvironmentOK'
      BY <2>3 DEF TimerStopsItself, Timer!StopIfActive
    <3>3. QED
      BY <3>1, <3>2
  <2>4. QED
    BY <1>17, <2>1, <2>2, <2>3 DEF TimerStep
<1>18. CASE ArcStep
  <2>1. CASE GetArcPort
    BY <2>1 DEF GetArcPort
  <2>2. CASE AcquireSemaphore
    BY <2>2 DEF AcquireSemaphore, Acquire
  <2>3. CASE CopyState
    <3>1. RouteOK'
      BY <2>3 DEF CopyState
    <3>2. SettingOK' /\ LinkOK' /\ Timer!TimerTypeOK' /\ EnvironmentOK'
      BY <2>3 DEF CopyState
    <3>3. QED
      BY <3>1, <3>2
  <2>4. QED
    BY <1>18, <2>1, <2>2, <2>3 DEF ArcStep
<1>19. CASE PollStep
  <2>1. CASE PollAllocates
    <3>1. LinkOK'
      BY <2>1 DEF PollAllocates
    <3>2. SettingOK' /\ RouteOK' /\ Timer!TimerTypeOK' /\ EnvironmentOK'
      BY <2>1 DEF PollAllocates
    <3>3. QED
      BY <3>1, <3>2
  <2>2. CASE PollExits
    BY <2>2 DEF PollExits
  <2>3. QED
    BY <1>19, <2>1, <2>2 DEF PollStep
<1>20. CASE UNCHANGED vars
  BY <1>20 DEF vars
<1>21. QED
  BY <1>1, <1>2, <1>3, <1>4, <1>5, <1>6, <1>7, <1>8, <1>9, <1>10, <1>11, <1>12,
     <1>13, <1>14, <1>15, <1>16, <1>17, <1>18, <1>19, <1>20
  DEF Next, Environment, ApiCall, ApiStep, CecStep, PowerStep

\* Type correctness.
THEOREM TypeCorrect == Spec => []TypeOK
<1>1. Init => TypeOK
  BY InitTypeOK
<1>2. TypeOK /\ [Next]_vars => TypeOK'
  BY StepThreadsOK, StepVariablesOK DEF TypeOK
<1>3. QED
  BY <1>1, <1>2, PTL DEF Spec

\* A step of a thread that is not about to release or to copy, and that leaves
\* the semaphore and the history alone, loses no signal.
LEMMA QuietStep ==
  ASSUME TypeOK, NoLostSignal, NEW t \in Threads, NEW from, NEW to,
         Step(t, from, to), from \notin {"release", "signalExit", "copy"},
         UNCHANGED <<sem, unseen>>
  PROVE  NoLostSignal'
<1>1. \A u \in Threads : pc[u] \in {"release", "signalExit", "copy"}
                           => pc'[u] = pc[u]
  BY DEF Step, TypeOK, ThreadsOK
<1>2. "arc" \in Threads
  BY DEF Threads, Workers
<1>3. QED
  BY <1>1, <1>2 DEF NoLostSignal

\* Every step keeps the signal: the writers of the state release after it, the
\* routing thread copies after it acquires.
LEMMA StepNoLostSignal == TypeOK /\ NoLostSignal /\ [Next]_vars => NoLostSignal'
<1> SUFFICES ASSUME TypeOK, NoLostSignal, [Next]_vars PROVE NoLostSignal'
  OBVIOUS
<1> USE DEF arcVars
<1>0. /\ ApiThreads \subseteq Threads
      /\ {"cec", "pwr", "hpd", "timer", "arc"} \subseteq Threads
  BY DEF Threads, Workers
<1>1. ASSUME NEW t \in ApiThreads \cup {"cec", "pwr"}, ArcRequestStep(t)
      PROVE  NoLostSignal'
  <2>1. CASE CheckEnabled(t)
    BY <2>1, <1>0, QuietStep DEF CheckEnabled, ReturnArc
  <2>2. CASE CheckState(t)
    BY <2>2, <1>0, QuietStep DEF CheckState, ReturnArc
  <2>3. CASE Request(t)
    BY <2>3, <1>0 DEF Request, SetState, TypeOK, ThreadsOK, NoLostSignal, Step
  <2>4. CASE SignalRequest(t)
    BY <2>4, <1>0 DEF SignalRequest, Release, NoLostSignal
  <2>5. CASE RestartTimer(t)
    BY <2>5, <1>0, QuietStep DEF RestartTimer, ReturnArc
  <2>6. QED
    BY <1>1, <2>1, <2>2, <2>3, <2>4, <2>5 DEF ArcRequestStep
<1>2. ASSUME NEW t \in ApiThreads, Shutdown(t)
      PROVE  NoLostSignal'
  BY <1>2, <1>0, QuietStep DEF Shutdown
<1>3. ASSUME NEW t \in ApiThreads, NEW op \in ApiOps,
             SetupARCRouting(t, op) \/ SetEnabled(t, op)
      PROVE  NoLostSignal'
  BY <1>3, <1>0, QuietStep DEF SetupARCRouting, SetEnabled, CallArc
<1>4. ASSUME NEW t \in ApiThreads, EnableStep(t)
      PROVE  NoLostSignal'
  BY <1>4, <1>0, QuietStep DEF EnableStep, EnableLock, EnableOpen, EnableDone
<1>5. ASSUME NEW t \in ApiThreads, DisableStep(t)
      PROVE  NoLostSignal'
  <2>1. CASE DisableLock(t)
    BY <2>1, <1>0, QuietStep DEF DisableLock
  <2>2. CASE DisableStopArc(t)
    BY <2>2, <1>0, QuietStep DEF DisableStopArc, CallArc
  <2>3. CASE DisableSpin(t) \/ DisableOff(t) \/ DisableJoin(t)
    BY <2>3, <1>0, QuietStep DEF DisableSpin, DisableOff, DisableJoin
  <2>4. CASE DisableFinish(t)
    BY <2>4, <1>0, QuietStep DEF DisableFinish, ResetState
  <2>5. QED
    BY <1>5, <2>1, <2>2, <2>3, <2>4 DEF DisableStep
<1>6. ASSUME NEW t \in ApiThreads, ExitStep(t)
      PROVE  NoLostSignal'
  <2>1. CASE ExitSet(t)
    BY <2>1, <1>0 DEF ExitSet, SetState, TypeOK, ThreadsOK, NoLostSignal, Step
  <2>2. CASE ExitSignal(t)
    BY <2>2, <1>0 DEF ExitSignal, Release, NoLostSignal
  <2>3. CASE ExitJoin(t)
    BY <2>3, <1>0, QuietStep DEF ExitJoin
  <2>4. QED
    BY <1>6, <2>1, <2>2, <2>3 DEF ExitStep
<1>7. CASE ReceiveInitiateArc \/ ReceiveTerminateArc \/ ReceiveSystemAudioOff
  BY <1>7, <1>0, QuietStep DEF ReceiveInitiateArc, ReceiveTerminateArc,
                              ReceiveSystemAudioOff, Receive
<1>8. CASE ProcessInitiateArc \/ ProcessTerminateArc
  BY <1>8, <1>0, QuietStep DEF ProcessInitiateArc, ProcessTerminateArc
<1>9. CASE SetInitiated \/ SetTerminated
  BY <1>9, <1>0 DEF SetInitiated, SetTerminated, Release, NoLostSignal
<1>10. CASE ProcessSystemAudioOff \/ PowerOffStopsArc
  BY <1>10, <1>0, QuietStep DEF ProcessSystemAudioOff, PowerOffStopsArc, CallArc
<1>11. ASSUME NEW mode \in PowerModes, PowerModeChanged(mode)
      PROVE  NoLostSignal'
  BY <1>11, <1>0, QuietStep DEF PowerModeChanged
<1>12. ASSUME NEW connected \in PortStates, HotPlug(connected)
      PROVE  NoLostSignal'
  BY <1>12, <1>0, QuietStep DEF HotPlug
<1>13. CASE ResetArcState
  BY <1>13, <1>0, QuietStep DEF ResetArcState, ResetState
<1>14. CASE TimerStep
  BY <1>14, <1>0, QuietStep DEF TimerStep, TimerExpires, TimerCallback, TimerStopsItself,
                     ResetState
<1>15. CASE ArcStep
  <2>1. CASE GetArcPort
    BY <2>1, <1>0, QuietStep DEF GetArcPort
  <2>2. CASE AcquireSemaphore
    BY <2>2, <1>0 DEF AcquireSemaphore, TypeOK, ThreadsOK, NoLostSignal, Step
  <2>3. CASE CopyState
    BY <2>3, <1>0 DEF CopyState, NoLostSignal
  <2>4. QED
    BY <1>15, <2>1, <2>2, <2>3 DEF ArcStep
<1>16. CASE PollStep
  BY <1>16, <1>0 DEF PollStep, PollAllocates, PollExits, NoLostSignal
<1>17. CASE UNCHANGED vars
  BY <1>17, <1>0 DEF vars, NoLostSignal
<1>18. QED
  BY <1>1, <1>2, <1>3, <1>4, <1>5, <1>6, <1>7, <1>8, <1>9, <1>10, <1>11, <1>12,
     <1>13, <1>14, <1>15, <1>16, <1>17
  DEF Next, Environment, ApiCall, ApiStep, CecStep, PowerStep

\* Whatever the interleaving of API threads, message handlers, power and hot
\* plug, the routing thread is never left asleep with a request unseen.
THEOREM SignalNeverLost == Spec => []NoLostSignal
<1>1. Init => NoLostSignal
  BY DEF Init, NoLostSignal
<1>2. TypeOK /\ NoLostSignal /\ [Next]_vars => NoLostSignal'
  BY StepNoLostSignal
<1>3. QED
  BY <1>1, <1>2, TypeCorrect, PTL DEF Spec
------------------------------------------------------------------------------
(***************************************************************************)
(* The ARC state machine takes only the steps of ArcMailbox; the fairness  *)
(* of ArcMailbox is only model-checked.                                    *)
(***************************************************************************)

\* The routing thread has seen EXIT only when it has ended: it does not take
\* from the mailbox again.
StopIsLast == seen = "EXIT" => pc["arc"] = "exited"

MailStep == [Mailbox!MailNext]_(Mailbox!mailVars)

\* Only threadArcRouting moves its program counter and its copy.
RoutingQuiet == pc'["arc"] = pc["arc"] /\ seen' = seen

\* Every step outside the routing thread posts a state, writes TERMINATED
\* silently, or does not touch the mailbox.
LEMMA OthersPostOrReset ==
  ASSUME TypeOK, [Next]_vars
  PROVE  ArcStep \/ (MailStep /\ RoutingQuiet)
<1> USE ConstantsAssumption
    DEF RoutingQuiet, MailStep, Mailbox!mailVars, Mailbox!MailNext,
        Mailbox!Post, Mailbox!Reset, arcVars, SetState, ResetState, Step,
        ArcStates
<1>0. /\ pc \in [Threads -> Labels] /\ "arc" \in Threads
      /\ "arc" \notin ApiThreads
  BY DEF TypeOK, ThreadsOK, Threads, Workers
<1>1. ASSUME NEW t \in ApiThreads \cup {"cec", "pwr"}, ArcRequestStep(t)
      PROVE  MailStep /\ RoutingQuiet
  BY <1>0, <1>1 DEF ArcRequestStep, CheckEnabled, CheckState, Request,
     SignalRequest, RestartTimer, ReturnArc
<1>2. ASSUME NEW t \in ApiThreads, ApiCall(t)
      PROVE  MailStep /\ RoutingQuiet
  BY <1>0, <1>2 DEF ApiCall, SetupARCRouting, CallArc, SetEnabled, Shutdown
<1>3. ASSUME NEW t \in ApiThreads, EnableStep(t)
      PROVE  MailStep /\ RoutingQuiet
  BY <1>0, <1>3 DEF EnableStep, EnableLock, EnableOpen, EnableDone
<1>4. ASSUME NEW t \in ApiThreads, DisableStep(t)
      PROVE  MailStep /\ RoutingQuiet
  <2>1. CASE DisableLock(t) \/ DisableStopArc(t) \/ DisableSpin(t)
    BY <1>0, <2>1 DEF DisableLock, DisableStopArc, CallArc, DisableSpin
  <2>2. CASE DisableOff(t) \/ DisableJoin(t) \/ DisableFinish(t)
    BY <1>0, <2>2 DEF DisableOff, DisableJoin, DisableFinish
  <2>3. QED
    BY <1>4, <2>1, <2>2 DEF DisableStep
<1>5. ASSUME NEW t \in ApiThreads, ExitStep(t)
      PROVE  MailStep /\ RoutingQuiet
  BY <1>0, <1>5 DEF ExitStep, ExitSet, ExitSignal, ExitJoin
<1>6. CASE ReceiveInitiateArc \/ ReceiveTerminateArc \/ ReceiveSystemAudioOff
  BY <1>0, <1>6 DEF ReceiveInitiateArc, ReceiveTerminateArc,
     ReceiveSystemAudioOff, Receive
<1>7. CASE CecStep
  BY <1>0, <1>1, <1>7 DEF CecStep, ProcessInitiateArc, SetInitiated,
     ProcessTerminateArc, SetTerminated, ProcessSystemAudioOff, CallArc
<1>8. ASSUME NEW mode \in PowerModes, PowerModeChanged(mode)
      PROVE  MailStep /\ RoutingQuiet
  BY <1>0, <1>8 DEF PowerModeChanged
<1>9. CASE PowerStep
  BY <1>0, <1>1, <1>9 DEF PowerStep, PowerOffStopsArc, CallArc
<1>10. ASSUME NEW connected \in PortStates, HotPlug(connected)
       PROVE  MailStep /\ RoutingQuiet
  BY <1>0, <1>10 DEF HotPlug
<1>11. CASE ResetArcState \/ TimerStep
  BY <1>0, <1>11 DEF ResetArcState, TimerStep, TimerExpires, TimerCallback,
     TimerStopsItself
<1>12. CASE PollStep \/ UNCHANGED vars
  BY <1>12 DEF PollStep, PollAllocates, PollExits, vars
<1>13. QED
  BY <1>1, <1>2, <1>3, <1>4, <1>5, <1>6, <1>7, <1>8, <1>9, <1>10, <1>11, <1>12
  DEF Next, Environment, ApiStep

\* The routing thread takes the state of the moment, or nothing.
LEMMA RoutingTakes ==
  ASSUME TypeOK, StopIsLast, ArcStep
  PROVE  MailStep /\ StopIsLast'
<1> USE DEF StopIsLast, MailStep, Mailbox!mailVars, Mailbox!MailNext, Step
<1>0. pc \in [Threads -> Labels] /\ "arc" \in Threads
  BY DEF TypeOK, ThreadsOK, Threads, Workers
<1>1. CASE GetArcPort
  BY <1>0, <1>1 DEF GetArcPort, arcVars
<1>2. CASE AcquireSemaphore
  BY <1>0, <1>2 DEF AcquireSemaphore
<1>3. CASE CopyState
  BY <1>0, <1>3 DEF CopyState, Mailbox!Take
<1>4. QED
  BY <1>1, <1>2, <1>3 DEF ArcStep

\* The requests reach the routing thread through a mailbox: for any number of
\* threads, every step of the plugin posts a state, resets it, takes it or
\* leaves the mailbox alone, and nothing is taken after EXIT.
THEOREM MailboxSteps ==
  Spec => Mailbox!MailInit /\ [][Mailbox!MailNext]_(Mailbox!mailVars)
<1>1. Init => Mailbox!MailInit /\ StopIsLast
  BY DEF Init, Mailbox!MailInit, StopIsLast
<1>2. TypeOK /\ StopIsLast /\ [Next]_vars => MailStep /\ StopIsLast'
  BY OthersPostOrReset, RoutingTakes DEF RoutingQuiet, StopIsLast
<1>3. QED
  BY <1>1, <1>2, TypeCorrect, PTL DEF Spec, MailStep
==============================================================================
