-------------------------- MODULE SinkArcLinkProofs ---------------------------
(***************************************************************************)
(* Proofs that CECEnable, CECDisable and the destructor leave no half-open *)
(* link, for every set of API threads.                                     *)
(***************************************************************************)
EXTENDS SinkArcProofs

EnableSection  == {"open", "enabled"}
DisableSection == {"arcActive", "spin", "disabled", "joinPoll", "finish"}
ExitSection    == {"setExit", "signalExit", "joinArc", "closed"}

\* A thread at a step between lock and unlock holds m_enableMutex, and its
\* holder is at such a step, or in the stopArc that CECDisable calls.
MutexHeld ==
  \A t \in ApiThreads :
    /\ pc[t] \in EnableSection \cup DisableSection => enableMutex = t
    /\ enableMutex = t => pc[t] \in EnableSection \cup DisableSection \cup ArcLabels

\* What the link is when CEC is on (up) and when it is off (down).
LinkUp   == connection /\ pollThread # "none" /\ libcecInitStatus = 1
LinkDown == ~connection /\ pollThread = "none" /\ libcecInitStatus = 0

\* What the holder of m_enableMutex has done so far.
HolderProgress ==
  \A t \in ApiThreads :
    enableMutex = t =>
      /\ pc[t] = "open" => ~cecEnableStatus /\ LinkDown
      /\ pc[t] = "enabled" => ~cecEnableStatus /\ LinkUp
      /\ pc[t] \in {"arcActive", "spin", "disabled"} \cup ArcLabels
           => cecEnableStatus /\ LinkUp
      /\ pc[t] = "joinPoll" => ~cecEnableStatus /\ LinkUp
      /\ pc[t] = "finish" =>
           /\ ~cecEnableStatus /\ connection /\ pollThread = "none"
           /\ libcecInitStatus = 1

\* Without a holder the link is as cecEnableStatus says.
FreeLink ==
  enableMutex = "none" =>
    (cecEnableStatus /\ LinkUp) \/ (~cecEnableStatus /\ LinkDown)

ListenerAttached == listening => connection

\* Once the destructor runs, no other API thread does, and the link is down
\* when it comes to the exit of the routing thread.
DestructorAlone ==
  /\ closer # "none" =>
       /\ \A t \in ApiThreads \ {closer} : pc[t] = "idle"
       /\ pc[closer] \in {"disableLock"} \cup DisableSection \cup ArcLabels
                         \cup ExitSection
       /\ pc[closer] \in ArcLabels => enableMutex = closer
  /\ \A t \in ApiThreads :
       pc[t] \in ExitSection =>
         closer = t /\ enableMutex = "none" /\ ~cecEnableStatus

RoutingJoined ==
  \A t \in ApiThreads : pc[t] = "closed" => pc["arc"] = "exited"

LinkInvariant ==
  MutexHeld /\ HolderProgress /\ FreeLink /\ ListenerAttached
  /\ DestructorAlone /\ RoutingJoined

\* What a step changes that stays outside CECEnable, CECDisable and the
\* destructor: nothing that LinkInvariant is about.
LinkFrame ==
  /\ \A t \in ApiThreads : pc'[t] = pc[t]
  /\ pc["arc"] = "exited" => pc'["arc"] = "exited"
  /\ UNCHANGED <<closer, cecEnableStatus, enableMutex, libcecInitStatus,
                 connection, listening, pollThread>>

LEMMA FrameKeepsLink == TypeOK /\ LinkInvariant /\ LinkFrame => LinkInvariant'
<1> SUFFICES ASSUME TypeOK, LinkInvariant, LinkFrame PROVE LinkInvariant'
  OBVIOUS
<1> USE DEF LinkInvariant, LinkFrame, LinkUp, LinkDown
<1>1. MutexHeld'
  BY DEF MutexHeld
<1>2. HolderProgress'
  BY DEF HolderProgress
<1>3. FreeLink' /\ ListenerAttached'
  BY DEF FreeLink, ListenerAttached
<1>4. DestructorAlone'
  BY DEF DestructorAlone, TypeOK, VariablesOK, SettingOK
<1>5. RoutingJoined'
  BY DEF RoutingJoined
<1>6. QED
  BY <1>1, <1>2, <1>3, <1>4, <1>5

\* The handlers, the notifications, the timer and the routing thread are
\* outside.
LEMMA WorkersKeepFrame ==
  ASSUME TypeOK,
         \/ ArcRequestStep("cec") \/ ArcRequestStep("pwr")
         \/ ReceiveInitiateArc \/ ReceiveTerminateArc \/ ReceiveSystemAudioOff
         \/ \E mode \in PowerModes : PowerModeChanged(mode)
         \/ \E connected \in PortStates : HotPlug(connected)
         \/ CecStep \/ PowerStep \/ ResetArcState \/ TimerStep \/ ArcStep
  PROVE  LinkFrame
<1> USE ConstantsAssumption
    DEF LinkFrame, Step, Threads, Workers, settingVars, linkVars
<1>0. /\ pc \in [Threads -> Labels] /\ ApiThreads \cap Workers = {}
      /\ Workers \subseteq Threads
  BY DEF TypeOK, ThreadsOK
<1>1. ASSUME NEW t \in {"cec", "pwr"}, ArcRequestStep(t)
      PROVE  LinkFrame
  BY <1>0, <1>1 DEF ArcRequestStep, CheckEnabled, CheckState, Request,
     SignalRequest, RestartTimer, ReturnArc
<1>2. CASE ReceiveInitiateArc \/ ReceiveTerminateArc \/ ReceiveSystemAudioOff
  BY <1>0, <1>2 DEF ReceiveInitiateArc, ReceiveTerminateArc,
     ReceiveSystemAudioOff, Receive
<1>3. ASSUME NEW mode \in PowerModes, PowerModeChanged(mode)
      PROVE  LinkFrame
  BY <1>0, <1>3 DEF PowerModeChanged
<1>4. ASSUME NEW connected \in PortStates, HotPlug(connected)
      PROVE  LinkFrame
  BY <1>0, <1>4 DEF HotPlug
<1>5. CASE CecStep
  BY <1>0, <1>1, <1>5 DEF CecStep, ProcessInitiateArc, SetInitiated,
     ProcessTerminateArc, SetTerminated, ProcessSystemAudioOff, CallArc
<1>6. CASE PowerStep
  BY <1>0, <1>1, <1>6 DEF PowerStep, PowerOffStopsArc, CallArc
<1>7. CASE ResetArcState
  BY <1>0, <1>7 DEF ResetArcState
<1>8. CASE TimerStep
  BY <1>0, <1>8 DEF TimerStep, TimerExpires, TimerCallback, TimerStopsItself
<1>9. CASE ArcStep
  BY <1>0, <1>9 DEF ArcStep, GetArcPort, AcquireSemaphore, CopyState
<1>10. QED
  BY <1>1, <1>2, <1>3, <1>4, <1>5, <1>6, <1>7, <1>8, <1>9

\* The initial state: nobody is inside, and the link is as the setting says.
LEMMA InitLink == Init => LinkInvariant
<1> SUFFICES ASSUME Init PROVE LinkInvariant
  OBVIOUS
<1>1. \A t \in ApiThreads : pc[t] = "idle" /\ enableMutex # t
  BY ConstantsAssumption DEF Init, Threads, Workers
<1>2. MutexHeld /\ HolderProgress /\ RoutingJoined /\ DestructorAlone
  BY <1>1 DEF Init, MutexHeld, HolderProgress, RoutingJoined, DestructorAlone,
     EnableSection, DisableSection, ExitSection
<1>3. FreeLink /\ ListenerAttached
  BY DEF Init, FreeLink, ListenerAttached, LinkUp, LinkDown
<1>4. QED
  BY <1>2, <1>3 DEF LinkInvariant

\* A thread inside startArc or stopArc stays there or returns: to the wait of
\* CECDisable if it holds m_enableMutex, and to its caller otherwise.
LEMMA ArcCallKeepsLink ==
  ASSUME TypeOK, LinkInvariant, NEW t \in ApiThreads, ArcRequestStep(t)
  PROVE  LinkInvariant'
<1> USE DEF LinkInvariant, EnableSection, DisableSection, ExitSection,
            ArcLabels
<1>1. /\ pc \in [Threads -> Labels] /\ ApiThreads \subseteq Threads
      /\ "arc" \in Threads /\ "arc" \notin ApiThreads
      /\ closer \in ApiThreads \cup {"none"} /\ "none" \notin ApiThreads
      /\ enableMutex \in ApiThreads \cup {"none"}
  BY ConstantsAssumption
  DEF TypeOK, ThreadsOK, VariablesOK, SettingOK, Threads, Workers
<1>2. /\ pc[t] \in ArcLabels
      /\ \E to \in ArcLabels \cup {ReturnLabel(t)} : pc' = [pc EXCEPT ![t] = to]
      /\ UNCHANGED <<settingVars, linkVars>>
  BY DEF ArcRequestStep, CheckEnabled, CheckState, Request, SignalRequest,
     RestartTimer, ReturnArc, Step
<1>3. PICK to \in ArcLabels \cup {ReturnLabel(t)} : pc' = [pc EXCEPT ![t] = to]
  BY <1>2
<1>4. \A u \in Threads : pc'[u] = IF u = t THEN to ELSE pc[u]
  BY <1>1, <1>3
<1> USE <1>1, <1>2, <1>4 DEF ReturnLabel, settingVars, linkVars
<1>5. MutexHeld'
  BY DEF MutexHeld
<1>6. HolderProgress'
  BY DEF HolderProgress, LinkUp, LinkDown
<1>7. FreeLink' /\ ListenerAttached'
  BY DEF FreeLink, ListenerAttached, LinkUp, LinkDown
<1>8. DestructorAlone'
  BY DEF DestructorAlone
<1>9. RoutingJoined'
  BY DEF RoutingJoined
<1>10. QED
  BY <1>5, <1>6, <1>7, <1>8, <1>9

\* The entry points.
LEMMA EntryKeepsLink ==
  ASSUME TypeOK, LinkInvariant, NEW t \in ApiThreads, ApiCall(t)
  PROVE  LinkInvariant'
<1> USE DEF LinkInvariant, EnableSection, DisableSection, ExitSection, ArcLabels,
            Step, settingVars, linkVars
<1>0. /\ pc \in [Threads -> Labels] /\ ApiThreads \subseteq Threads
      /\ "arc" \in Threads /\ "arc" \notin ApiThreads
      /\ closer \in ApiThreads \cup {"none"} /\ "none" \notin ApiThreads
      /\ enableMutex \in ApiThreads \cup {"none"}
  BY ConstantsAssumption
  DEF TypeOK, ThreadsOK, VariablesOK, SettingOK, Threads, Workers
<1>1. ASSUME NEW op \in ApiOps, SetupARCRouting(t, op)
      PROVE  LinkInvariant'
  <2> USE <1>0, <1>1 DEF SetupARCRouting, CallArc
  <2>1. MutexHeld'
    BY DEF MutexHeld
  <2>2. HolderProgress'
    BY DEF MutexHeld, HolderProgress, FreeLink, LinkUp, LinkDown
  <2>3. FreeLink' /\ ListenerAttached'
    BY DEF MutexHeld, HolderProgress, FreeLink, ListenerAttached, LinkUp, LinkDown
  <2>4. DestructorAlone' /\ RoutingJoined'
    BY DEF MutexHeld, DestructorAlone, RoutingJoined
  <2>5. QED
    BY <2>1, <2>2, <2>3, <2>4
<1>2. ASSUME NEW op \in ApiOps, SetEnabled(t, op)
      PROVE  LinkInvariant'
  <2> USE <1>0, <1>2 DEF SetEnabled
  <2>1. MutexHeld'
    BY DEF MutexHeld
  <2>2. HolderProgress'
    BY DEF MutexHeld, HolderProgress, FreeLink, LinkUp, LinkDown
  <2>3. FreeLink' /\ ListenerAttached'
    BY DEF MutexHeld, HolderProgress, FreeLink, ListenerAttached, LinkUp, LinkDown
  <2>4. DestructorAlone' /\ RoutingJoined'
    BY DEF MutexHeld, DestructorAlone, RoutingJoined
  <2>5. QED
    BY <2>1, <2>2, <2>3, <2>4
<1>3. ASSUME Shutdown(t)
      PROVE  LinkInvariant'
  <2> USE <1>0, <1>3 DEF Shutdown
  <2>1. MutexHeld'
    BY DEF MutexHeld
  <2>2. HolderProgress'
    BY DEF MutexHeld, HolderProgress, FreeLink, LinkUp, LinkDown
  <2>3. FreeLink' /\ ListenerAttached'
    BY DEF MutexHeld, HolderProgress, FreeLink, ListenerAttached, LinkUp, LinkDown
  <2>4. DestructorAlone' /\ RoutingJoined'
    BY DEF MutexHeld, DestructorAlone, RoutingJoined
  <2>5. QED
    BY <2>1, <2>2, <2>3, <2>4
<1>4. QED
  BY <1>1, <1>2, <1>3 DEF ApiCall

\* CECEnable takes a link that is down and leaves it up.
LEMMA EnableKeepsLink ==
  ASSUME TypeOK, LinkInvariant, NEW t \in ApiThreads, EnableStep(t)
  PROVE  LinkInvariant'
<1> USE DEF LinkInvariant, EnableSection, DisableSection, ExitSection, ArcLabels,
            Step, settingVars, linkVars
<1>0. /\ pc \in [Threads -> Labels] /\ ApiThreads \subseteq Threads
      /\ "arc" \in Threads /\ "arc" \notin ApiThreads
      /\ closer \in ApiThreads \cup {"none"} /\ "none" \notin ApiThreads
      /\ enableMutex \in ApiThreads \cup {"none"}
  BY ConstantsAssumption
  DEF TypeOK, ThreadsOK, VariablesOK, SettingOK, Threads, Workers
<1>1. ASSUME EnableLock(t)
      PROVE  LinkInvariant'
  <2> USE <1>0, <1>1 DEF EnableLock, LockMutex
  <2>1. MutexHeld'
    BY DEF MutexHeld
  <2>2. HolderProgress'
    BY DEF MutexHeld, HolderProgress, FreeLink, LinkUp, LinkDown
  <2>3. FreeLink' /\ ListenerAttached'
    BY DEF MutexHeld, HolderProgress, FreeLink, ListenerAttached, LinkUp, LinkDown
  <2>4. DestructorAlone' /\ RoutingJoined'
    BY DEF MutexHeld, DestructorAlone, RoutingJoined
  <2>5. QED
    BY <2>1, <2>2, <2>3, <2>4
<1>2. ASSUME EnableOpen(t)
      PROVE  LinkInvariant'
  <2> USE <1>0, <1>2 DEF EnableOpen
  <2>1. MutexHeld'
    BY DEF MutexHeld
  <2>2. HolderProgress'
    BY DEF MutexHeld, HolderProgress, FreeLink, LinkUp, LinkDown
  <2>3. FreeLink' /\ ListenerAttached'
    BY DEF MutexHeld, HolderProgress, FreeLink, ListenerAttached, LinkUp, LinkDown
  <2>4. DestructorAlone' /\ RoutingJoined'
    BY DEF MutexHeld, DestructorAlone, RoutingJoined
  <2>5. QED
    BY <2>1, <2>2, <2>3, <2>4
<1>3. ASSUME EnableDone(t)
      PROVE  LinkInvariant'
  <2> USE <1>0, <1>3 DEF EnableDone, UnlockMutex
  <2>1. MutexHeld'
    BY DEF MutexHeld
  <2>2. HolderProgress'
    BY DEF MutexHeld, HolderProgress, FreeLink, LinkUp, LinkDown
  <2>3. FreeLink' /\ ListenerAttached'
    BY DEF MutexHeld, HolderProgress, FreeLink, ListenerAttached, LinkUp, LinkDown
  <2>4. DestructorAlone' /\ RoutingJoined'
    BY DEF MutexHeld, DestructorAlone, RoutingJoined
  <2>5. QED
    BY <2>1, <2>2, <2>3, <2>4
<1>4. QED
  BY <1>1, <1>2, <1>3 DEF EnableStep

\* CECDisable takes a link that is up and leaves it down.
LEMMA DisableKeepsLink ==
  ASSUME TypeOK, LinkInvariant, NEW t \in ApiThreads, DisableStep(t)
  PROVE  LinkInvariant'
<1> USE DEF LinkInvariant, EnableSection, DisableSection, ExitSection, ArcLabels,
            Step, settingVars, linkVars
<1>0. /\ pc \in [Threads -> Labels] /\ ApiThreads \subseteq Threads
      /\ "arc" \in Threads /\ "arc" \notin ApiThreads
      /\ closer \in ApiThreads \cup {"none"} /\ "none" \notin ApiThreads
      /\ enableMutex \in ApiThreads \cup {"none"}
  BY ConstantsAssumption
  DEF TypeOK, ThreadsOK, VariablesOK, SettingOK, Threads, Workers
<1>1. ASSUME DisableLock(t)
      PROVE  LinkInvariant'
  <2> USE <1>0, <1>1 DEF DisableLock, LockMutex, AfterDisable
  <2>1. MutexHeld'
    BY DEF MutexHeld
  <2>2. HolderProgress'
    BY DEF MutexHeld, HolderProgress, FreeLink, LinkUp, LinkDown
  <2>3. FreeLink' /\ ListenerAttached'
    BY DEF MutexHeld, HolderProgress, FreeLink, ListenerAttached, LinkUp, LinkDown
  <2>4. DestructorAlone' /\ RoutingJoined'
    BY DEF MutexHeld, DestructorAlone, RoutingJoined
  <2>5. QED
    BY <2>1, <2>2, <2>3, <2>4
<1>2. ASSUME DisableStopArc(t)
      PROVE  LinkInvariant'
  <2> USE <1>0, <1>2 DEF DisableStopArc, CallArc
  <2>1. MutexHeld'
    BY DEF MutexHeld
  <2>2. HolderProgress'
    BY DEF MutexHeld, HolderProgress, FreeLink, LinkUp, LinkDown
  <2>3. FreeLink' /\ ListenerAttached'
    BY DEF MutexHeld, HolderProgress, FreeLink, ListenerAttached, LinkUp, LinkDown
  <2>4. DestructorAlone' /\ RoutingJoined'
    BY DEF MutexHeld, DestructorAlone, RoutingJoined
  <2>5. QED
    BY <2>1, <2>2, <2>3, <2>4
<1>3. ASSUME DisableSpin(t)
      PROVE  LinkInvariant'
  <2> USE <1>0, <1>3 DEF DisableSpin
  <2>1. MutexHeld'
    BY DEF MutexHeld
  <2>2. HolderProgress'
    BY DEF MutexHeld, HolderProgress, FreeLink, LinkUp, LinkDown
  <2>3. FreeLink' /\ ListenerAttached'
    BY DEF MutexHeld, HolderProgress, FreeLink, ListenerAttached, LinkUp, LinkDown
  <2>4. DestructorAlone' /\ RoutingJoined'
    BY DEF MutexHeld, DestructorAlone, RoutingJoined
  <2>5. QED
    BY <2>1, <2>2, <2>3, <2>4
<1>4. ASSUME DisableOff(t)
      PROVE  LinkInvariant'
  <2> USE <1>0, <1>4 DEF DisableOff
  <2>1. MutexHeld'
    BY DEF MutexHeld
  <2>2. HolderProgress'
    BY DEF MutexHeld, HolderProgress, FreeLink, LinkUp, LinkDown
  <2>3. FreeLink' /\ ListenerAttached'
    BY DEF MutexHeld, HolderProgress, FreeLink, ListenerAttached, LinkUp, LinkDown
  <2>4. DestructorAlone' /\ RoutingJoined'
    BY DEF MutexHeld, DestructorAlone, RoutingJoined
  <2>5. QED
    BY <2>1, <2>2, <2>3, <2>4
<1>5. ASSUME DisableJoin(t)
      PROVE  LinkInvariant'
  <2> USE <1>0, <1>5 DEF DisableJoin
  <2>1. MutexHeld'
    BY DEF MutexHeld
  <2>2. HolderProgress'
    BY DEF MutexHeld, HolderProgress, FreeLink, LinkUp, LinkDown
  <2>3. FreeLink' /\ ListenerAttached'
    BY DEF MutexHeld, HolderProgress, FreeLink, ListenerAttached, LinkUp, LinkDown
  <2>4. DestructorAlone' /\ RoutingJoined'
    BY DEF MutexHeld, DestructorAlone, RoutingJoined
  <2>5. QED
    BY <2>1, <2>2, <2>3, <2>4
<1>6. ASSUME DisableFinish(t)
      PROVE  LinkInvariant'
  <2> USE <1>0, <1>6 DEF DisableFinish, UnlockMutex, AfterDisable
  <2>1. MutexHeld'
    BY DEF MutexHeld
  <2>2. HolderProgress'
    BY DEF MutexHeld, HolderProgress, FreeLink, LinkUp, LinkDown
  <2>3. FreeLink' /\ ListenerAttached'
    BY DEF MutexHeld, HolderProgress, FreeLink, ListenerAttached, LinkUp, LinkDown
  <2>4. DestructorAlone' /\ RoutingJoined'
    BY DEF MutexHeld, HolderProgress, DestructorAlone, RoutingJoined
  <2>5. QED
    BY <2>1, <2>2, <2>3, <2>4
<1>7. QED
  BY <1>1, <1>2, <1>3, <1>4, <1>5, <1>6 DEF DisableStep

\* The rest of the destructor leaves the link alone.
LEMMA ExitKeepsLink ==
  ASSUME TypeOK, LinkInvariant, NEW t \in ApiThreads, ExitStep(t)
  PROVE  LinkInvariant'
<1> USE DEF LinkInvariant, EnableSection, DisableSection, ExitSection, ArcLabels,
            Step, settingVars, linkVars
<1>0. /\ pc \in [Threads -> Labels] /\ ApiThreads \subseteq Threads
      /\ "arc" \in Threads /\ "arc" \notin ApiThreads
      /\ closer \in ApiThreads \cup {"none"} /\ "none" \notin ApiThreads
      /\ enableMutex \in ApiThreads \cup {"none"}
  BY ConstantsAssumption
  DEF TypeOK, ThreadsOK, VariablesOK, SettingOK, Threads, Workers
<1>1. ASSUME ExitSet(t)
      PROVE  LinkInvariant'
  <2> USE <1>0, <1>1 DEF ExitSet
  <2>1. MutexHeld'
    BY DEF MutexHeld
  <2>2. HolderProgress'
    BY DEF MutexHeld, HolderProgress, FreeLink, LinkUp, LinkDown
  <2>3. FreeLink' /\ ListenerAttached'
    BY DEF MutexHeld, HolderProgress, FreeLink, ListenerAttached, LinkUp, LinkDown
  <2>4. DestructorAlone' /\ RoutingJoined'
    BY DEF MutexHeld, DestructorAlone, RoutingJoined
  <2>5. QED
    BY <2>1, <2>2, <2>3, <2>4
<1>2. ASSUME ExitSignal(t)
      PROVE  LinkInvariant'
  <2> USE <1>0, <1>2 DEF ExitSignal
  <2>1. MutexHeld'
    BY DEF MutexHeld
  <2>2. HolderProgress'
    BY DEF MutexHeld, HolderProgress, FreeLink, LinkUp, LinkDown
  <2>3. FreeLink' /\ ListenerAttached'
    BY DEF MutexHeld, HolderProgress, FreeLink, ListenerAttached, LinkUp, LinkDown
  <2>4. DestructorAlone' /\ RoutingJoined'
    BY DEF MutexHeld, DestructorAlone, RoutingJoined
  <2>5. QED
    BY <2>1, <2>2, <2>3, <2>4
<1>3. ASSUME ExitJoin(t)
      PROVE  LinkInvariant'
  <2> USE <1>0, <1>3 DEF ExitJoin
  <2>1. MutexHeld'
    BY DEF MutexHeld
  <2>2. HolderProgress'
    BY DEF MutexHeld, HolderProgress, FreeLink, LinkUp, LinkDown
  <2>3. FreeLink' /\ ListenerAttached'
    BY DEF MutexHeld, HolderProgress, FreeLink, ListenerAttached, LinkUp, LinkDown
  <2>4. DestructorAlone' /\ RoutingJoined'
    BY DEF MutexHeld, DestructorAlone, RoutingJoined
  <2>5. QED
    BY <2>1, <2>2, <2>3, <2>4
<1>4. QED
  BY <1>1, <1>2, <1>3 DEF ExitStep

\* The poll thread only runs, and attaches the listener, while it is joinable,
\* and then there is a connection.
LEMMA PollKeepsLink ==
  ASSUME TypeOK, LinkInvariant, PollStep
  PROVE  LinkInvariant'
<1> USE DEF LinkInvariant, LinkUp, LinkDown, settingVars
<1>1. /\ pollThread # "none" /\ pollThread' # "none"
      /\ UNCHANGED <<pc, closer, cecEnableStatus, enableMutex, connection,
                     libcecInitStatus>>
  BY DEF PollStep, PollAllocates, PollExits
<1>2. connection
  <2>1. CASE enableMutex = "none"
    BY <1>1, <2>1 DEF FreeLink
  <2>2. CASE enableMutex \in ApiThreads
    BY <1>1, <2>2 DEF MutexHeld, HolderProgress, EnableSection, DisableSection
  <2>3. QED
    BY <2>1, <2>2 DEF TypeOK, VariablesOK, SettingOK
<1>3. MutexHeld' /\ DestructorAlone' /\ RoutingJoined'
  BY <1>1 DEF MutexHeld, DestructorAlone, RoutingJoined
<1>4. HolderProgress'
  BY <1>1 DEF HolderProgress
<1>5. FreeLink' /\ ListenerAttached'
  BY <1>1, <1>2 DEF FreeLink, ListenerAttached
<1>6. QED
  BY <1>3, <1>4, <1>5

\* LinkInvariant is inductive relative to TypeOK.
LEMMA StepLink == TypeOK /\ LinkInvariant /\ [Next]_vars => LinkInvariant'
<1> SUFFICES ASSUME TypeOK, LinkInvariant, [Next]_vars PROVE LinkInvariant'
  OBVIOUS
<1>1. CASE \E t \in ApiThreads : ApiCall(t)
  BY <1>1, EntryKeepsLink
<1>2. CASE \E t \in ApiThreads : ApiStep(t)
  BY <1>2, ArcCallKeepsLink, EnableKeepsLink, DisableKeepsLink, ExitKeepsLink
  DEF ApiStep
<1>3. CASE PollStep
  BY <1>3, PollKeepsLink
<1>4. CASE UNCHANGED vars
  <2>1. LinkFrame
    BY <1>4 DEF LinkFrame, vars, settingVars, linkVars
  <2>2. QED
    BY <2>1, FrameKeepsLink
<1>5. CASE \/ ReceiveInitiateArc \/ ReceiveTerminateArc \/ ReceiveSystemAudioOff
           \/ \E mode \in PowerModes : PowerModeChanged(mode)
           \/ \E connected \in PortStates : HotPlug(connected)
           \/ CecStep \/ PowerStep \/ ResetArcState \/ TimerStep \/ ArcStep
  BY <1>5, WorkersKeepFrame, FrameKeepsLink
<1>6. QED
  BY <1>1, <1>2, <1>3, <1>4, <1>5 DEF Next, Environment

\* LinkInvariant gives the three properties of the link.
LEMMA LinkInvariantSuffices ==
  TypeOK /\ LinkInvariant => LinkConsistent /\ PollThreadOwned /\ ShutdownClean
<1> SUFFICES ASSUME TypeOK, LinkInvariant
             PROVE  LinkConsistent /\ PollThreadOwned /\ ShutdownClean
  OBVIOUS
<1> USE DEF LinkInvariant, LinkUp, LinkDown, TypeOK, VariablesOK, SettingOK,
            LinkOK
<1>1. LinkConsistent
  BY DEF LinkConsistent, FreeLink
<1>2. pollThread \in {"starting", "running"} => connection
  BY DEF FreeLink, MutexHeld, HolderProgress, EnableSection, DisableSection
<1>3. \A t \in ApiThreads : pc[t] = "open" => pollThread = "none"
  BY DEF MutexHeld, HolderProgress, EnableSection
<1>4. ShutdownClean
  BY DEF ShutdownClean, DestructorAlone, RoutingJoined, FreeLink,
         ListenerAttached, ExitSection
<1>5. QED
  BY <1>1, <1>2, <1>3, <1>4 DEF PollThreadOwned

LEMMA LinkInvariantHolds == Spec => [](TypeOK /\ LinkInvariant)
<1>1. Spec => []LinkInvariant
  BY TypeCorrect, InitLink, StepLink, PTL DEF Spec
<1>2. QED
  BY <1>1, TypeCorrect, PTL

\* Whenever nobody is inside CECEnable or CECDisable, CEC is reported enabled
\* exactly when there is a connection, a poll thread and an initialised libCEC.
THEOREM LinkNeverHalfOpen == Spec => []LinkConsistent
BY LinkInvariantHolds, LinkInvariantSuffices, PTL

\* The poll thread never outlives its connection and is never overwritten.
THEOREM PollThreadNeverLost == Spec => []PollThreadOwned
BY LinkInvariantHolds, LinkInvariantSuffices, PTL

\* The destructor ends with both threads joined and nothing left open.
THEOREM DestructorCleansUp == Spec => []ShutdownClean
BY LinkInvariantHolds, LinkInvariantSuffices, PTL
==============================================================================
