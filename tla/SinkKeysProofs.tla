---------------------------- MODULE SinkKeysProofs ----------------------------
(***************************************************************************)
(* Proofs about SinkKeys, for every set of resetting threads and every     *)
(* number of keys.                                                         *)
(***************************************************************************)
EXTENDS SinkKeys, TLAPS

\* The initial state is well typed.
LEMMA InitTypeOK == Init => TypeOK
<1> SUFFICES ASSUME Init PROVE TypeOK
  OBVIOUS
<1> USE ConstantsAssumption DEF Init
<1>1. ThreadsOK
  BY DEF ThreadsOK, Threads, Workers, Labels, SenderLabels, CecLabels,
         TimerLabels, ResetLabels, ExitLabels
<1>2. KeysOK
  <2>1. <<>> \in Seq(Keys)
    OBVIOUS
  <2>2. pc["sender"] = "loop"
    BY DEF Threads, Workers
  <2>3. QED
    BY <2>1, <2>2 DEF KeysOK
<1>3. FlagsOK
  BY DEF FlagsOK, Timer!TimerInit, Timer!TimerTypeOK
<1>4. QED
  BY <1>1, <1>2, <1>3 DEF TypeOK

\* Every step leaves every thread at a step of its own code.
LEMMA StepThreadsOK == TypeOK /\ [Next]_vars => ThreadsOK'
<1> SUFFICES ASSUME TypeOK, [Next]_vars PROVE ThreadsOK'
  OBVIOUS
<1> USE ConstantsAssumption
    DEF TypeOK, ThreadsOK, Threads, Workers, Labels, SenderLabels, CecLabels,
        TimerLabels, ResetLabels, ExitLabels, Step
<1>1. ASSUME NEW key \in Keys, PushKey(key)
      PROVE  ThreadsOK'
  BY <1>1 DEF PushKey
<1>2. CASE SenderStep
  <2>1. \E to \in SenderLabels : Step("sender", pc["sender"], to)
    <3>1. CASE SenderLoop
      BY <3>1 DEF SenderLoop
    <3>2. CASE SenderWait
      BY <3>2 DEF SenderWait
    <3>3. CASE SenderCheckExit
      BY <3>3 DEF SenderCheckExit
    <3>4. CASE SenderCheckQueue
      BY <3>4 DEF SenderCheckQueue
    <3>5. CASE SenderGoesIdle \/ SendKey \/ SenderAfterKey
      BY <3>5 DEF SenderGoesIdle, SendKey, SenderAfterKey
    <3>6. CASE SenderReadsUpdated \/ SenderReadsReceived \/ SenderChecksTimer
      BY <3>6 DEF SenderReadsUpdated, SenderReadsReceived, SenderChecksTimer
    <3>7. CASE SenderSetsStarted \/ SenderStartsTimer
      BY <3>7 DEF SenderSetsStarted, SenderStartsTimer
    <3>8. QED
      BY <1>2, <3>1, <3>2, <3>3, <3>4, <3>5, <3>6, <3>7 DEF SenderStep
  <2>2. QED
    BY <2>1
<1>3. ASSUME NEW r \in Resetters, ResetStatus(r)
      PROVE  ThreadsOK'
  <2>1. \E to \in ResetLabels : Step(r, pc[r], to)
    BY <1>3 DEF ResetStatus
  <2> QED
    BY <1>3, <2>1
<1>4. CASE ReceiveReport \/ ProcessReport
  <2>1. \E to \in CecLabels : Step("cec", pc["cec"], to)
    <3>1. CASE ReceiveReport
      BY <3>1 DEF ReceiveReport
    <3>2. CASE ProcessReport
      BY <3>2 DEF ProcessReport, ReportReceived, ReportUpdates, ReportEndsDetection
    <3> QED
      BY <1>4, <3>1, <3>2
  <2> QED
    BY <2>1
<1>5. CASE TimerStep
  <2>1. \E to \in TimerLabels : Step("timer", pc["timer"], to)
    BY <1>5 DEF TimerStep, TimerExpires, CallbackClearsStarted, CallbackUpdates,
       CallbackAsks, TimerStopsItself
  <2> QED
    BY <2>1
<1>6. CASE SetExit \/ WakeForExit \/ JoinSender
  <2>1. \E to \in ExitLabels : Step("destructor", pc["destructor"], to)
    BY <1>6 DEF SetExit, WakeForExit, JoinSender
  <2> QED
    BY <2>1
<1>7. CASE UNCHANGED vars
  BY <1>7 DEF vars
<1>8. QED
  BY <1>1, <1>2, <1>3, <1>4, <1>5, <1>6, <1>7 DEF Next

\* The sender alone takes keys, so the queue that it found non-empty is not
\* empty when it takes one.
LEMMA StepKeysOK == TypeOK /\ [Next]_vars => KeysOK'
<1> SUFFICES ASSUME TypeOK, [Next]_vars PROVE KeysOK'
  OBVIOUS
<1> USE DEF KeysOK
<1>0. /\ KeysOK
      /\ pc \in [Threads -> Labels]
      /\ "sender" \in Threads /\ "sender" \notin Resetters
      /\ Keys \subseteq AllKeys /\ MaxKeys \in Nat
  BY ConstantsAssumption DEF TypeOK, ThreadsOK, Threads, Workers
<1>1. ASSUME NEW key \in Keys, PushKey(key)
      PROVE  KeysOK'
  BY <1>0, <1>1 DEF PushKey
<1>2. CASE SenderStep
  <2>1. CASE SenderCheckQueue
    BY <1>0, <2>1 DEF SenderCheckQueue, Step, keyVars
  <2>2. CASE SendKey
    <3>1. queue # <<>> /\ queue' = Tail(queue) /\ keyInfo' = Head(queue)
      BY <1>0, <2>2 DEF SendKey, Step
    <3>2. queue' \in Seq(Keys) /\ keyInfo' \in Keys
      BY <1>0, <3>1
    <3>3. QED
      BY <1>0, <2>2, <3>2 DEF SendKey, Step
  <2>3. CASE SenderLoop
    BY <1>0, <2>3 DEF SenderLoop, Step
  <2>4. CASE SenderWait \/ SenderCheckExit \/ SenderGoesIdle \/ SenderAfterKey
    BY <1>0, <2>4 DEF SenderWait, SenderCheckExit, SenderGoesIdle,
       SenderAfterKey, Step, keyVars
  <2>5. CASE SenderReadsUpdated \/ SenderReadsReceived \/ SenderChecksTimer
             \/ SenderSetsStarted \/ SenderStartsTimer
    BY <1>0, <2>5 DEF SenderReadsUpdated, SenderReadsReceived,
       SenderChecksTimer, SenderSetsStarted, SenderStartsTimer, Step, keyVars
  <2>6. QED
    BY <1>2, <2>1, <2>2, <2>3, <2>4, <2>5 DEF SenderStep
<1>3. ASSUME NEW r \in Resetters, ResetStatus(r)
      PROVE  KeysOK'
  BY <1>0, <1>3 DEF ResetStatus, Step, keyVars
<1>4. CASE ReceiveReport \/ ProcessReport
  BY <1>0, <1>4 DEF ReceiveReport, ProcessReport, ReportReceived,
     ReportUpdates, ReportEndsDetection, Step, keyVars
<1>5. CASE TimerStep
  BY <1>0, <1>5 DEF TimerStep, TimerExpires, CallbackClearsStarted,
     CallbackUpdates, CallbackAsks, TimerStopsItself, Step, keyVars
<1>6. CASE SetExit \/ WakeForExit \/ JoinSender
  BY <1>0, <1>6 DEF SetExit, WakeForExit, JoinSender, Step, keyVars
<1>7. CASE UNCHANGED vars
  BY <1>0, <1>7 DEF vars, keyVars
<1>8. QED
  BY <1>1, <1>2, <1>3, <1>4, <1>5, <1>6, <1>7 DEF Next

\* Flags stay flags.
LEMMA StepFlagsOK == TypeOK /\ [Next]_vars => FlagsOK'
<1> SUFFICES ASSUME FlagsOK, [Next]_vars PROVE FlagsOK'
  BY DEF TypeOK
<1> USE DEF FlagsOK, Timer!TimerTypeOK, timerVars, threadVars, statusVars, history
<1>1. ASSUME NEW key \in Keys, PushKey(key)
      PROVE  FlagsOK'
  BY <1>1 DEF PushKey
<1>2. CASE SenderStep
  <2>1. CASE SenderLoop
    BY <2>1 DEF SenderLoop
  <2>2. CASE SenderWait
    BY <2>2 DEF SenderWait
  <2>3. CASE SenderCheckExit
    BY <2>3 DEF SenderCheckExit
  <2>4. CASE SenderCheckQueue
    BY <2>4 DEF SenderCheckQueue
  <2>5. CASE SenderGoesIdle
    BY <2>5 DEF SenderGoesIdle
  <2>6. CASE SendKey
    BY <2>6 DEF SendKey
  <2>7. CASE SenderAfterKey
    BY <2>7 DEF SenderAfterKey
  <2>8. CASE SenderReadsUpdated
    BY <2>8 DEF SenderReadsUpdated
  <2>9. CASE SenderReadsReceived
    BY <2>9 DEF SenderReadsReceived
  <2>10. CASE SenderChecksTimer
    BY <2>10 DEF SenderChecksTimer
  <2>11. CASE SenderSetsStarted
    BY <2>11 DEF SenderSetsStarted
  <2>12. CASE SenderStartsTimer
    BY <2>12 DEF SenderStartsTimer, Timer!Start
  <2> QED
    BY <1>2, <2>1, <2>2, <2>3, <2>4, <2>5, <2>6, <2>7, <2>8, <2>9, <2>10, <2>11,
       <2>12 DEF SenderStep
<1>3. ASSUME NEW r \in Resetters, ResetStatus(r)
      PROVE  FlagsOK'
  BY <1>3 DEF ResetStatus, Meets, Timer!StopIfActive, Timer!timerVars
<1>4. CASE ReceiveReport \/ ProcessReport
  <2>1. CASE ReceiveReport
    BY <2>1 DEF ReceiveReport
  <2>2. ASSUME ProcessReport
        PROVE  /\ overlap' \in BOOLEAN /\ owed' \in BOOLEAN
               /\ UNCHANGED threadVars
    BY <2>2 DEF ProcessReport, Meets
  <2>3. CASE ProcessReport /\ ReportReceived
    BY <2>2, <2>3 DEF ReportReceived
  <2>4. CASE ProcessReport /\ ReportUpdates
    BY <2>2, <2>4 DEF ReportUpdates
  <2>5. CASE ProcessReport /\ ReportEndsDetection
    BY <2>2, <2>5 DEF ReportEndsDetection, Timer!StopIfActive, Timer!timerVars
  <2> QED
    BY <1>4, <2>1, <2>3, <2>4, <2>5 DEF ProcessReport
<1>5. CASE TimerStep
  <2>1. overlap' \in BOOLEAN /\ UNCHANGED threadVars
    BY <1>5 DEF TimerStep, Meets
  <2>2. CASE TimerExpires
    BY <2>1, <2>2 DEF TimerExpires, Timer!Expire
  <2>3. CASE CallbackClearsStarted
    BY <2>1, <2>3 DEF CallbackClearsStarted
  <2>4. CASE CallbackUpdates
    BY <2>1, <2>4 DEF CallbackUpdates
  <2>5. CASE CallbackAsks
    BY <2>1, <2>5 DEF CallbackAsks
  <2>6. CASE TimerStopsItself
    BY <2>1, <2>6 DEF TimerStopsItself, Timer!StopIfActive, Timer!timerVars
  <2> QED
    BY <1>5, <2>2, <2>3, <2>4, <2>5, <2>6 DEF TimerStep
<1>6. CASE SetExit \/ WakeForExit \/ JoinSender
  <2>1. CASE SetExit
    BY <2>1 DEF SetExit
  <2>2. CASE WakeForExit
    BY <2>2 DEF WakeForExit
  <2>3. CASE JoinSender
    BY <2>3 DEF JoinSender
  <2> QED
    BY <1>6, <2>1, <2>2, <2>3
<1>7. CASE UNCHANGED vars
  BY <1>7 DEF vars
<1>8. QED
  BY <1>1, <1>2, <1>3, <1>4, <1>5, <1>6, <1>7 DEF Next

\* TypeOK, which includes that no key is taken from an empty queue, holds for
\* any number of keys and of resetting threads.
THEOREM KeysTypeCorrect == Spec => []TypeOK
<1>1. TypeOK /\ [Next]_vars => TypeOK'
  BY StepThreadsOK, StepKeysOK, StepFlagsOK DEF TypeOK
<1>2. QED
  BY InitTypeOK, <1>1, PTL DEF Spec

-------------------------------------------------------------------------------
\* The exit flag tells where the destructor is: nobody lowers it.
ExitFlagHeld ==
  m_sendKeyEventThreadExit <=> pc["destructor"] \in {"setRun", "join", "joined"}

\* NoSleepAfterExit is preserved because a sender that passes its loop test
\* after the exit flag rose does not go back to "wait": it can only be there if
\* it was there before, and then the run flag that the destructor raised stands.
LEMMA StepNoSleepAfterExit ==
  TypeOK /\ ExitFlagHeld /\ NoSleepAfterExit /\ [Next]_vars
    => ExitFlagHeld' /\ NoSleepAfterExit'
<1> SUFFICES ASSUME TypeOK, ExitFlagHeld, NoSleepAfterExit, [Next]_vars
             PROVE  ExitFlagHeld' /\ NoSleepAfterExit'
  OBVIOUS
<1> USE DEF ExitFlagHeld, NoSleepAfterExit, Step, threadVars
<1>0. /\ pc \in [Threads -> Labels]
      /\ {"sender", "cec", "timer", "destructor"} \subseteq Threads
      /\ "sender" \notin Resetters /\ "destructor" \notin Resetters
  BY ConstantsAssumption DEF TypeOK, ThreadsOK, Threads, Workers
<1>1. ASSUME NEW key \in Keys, PushKey(key)
      PROVE  ExitFlagHeld' /\ NoSleepAfterExit'
  BY <1>0, <1>1 DEF PushKey
<1>2. CASE SenderStep
  <2>1. CASE SenderLoop
    BY <1>0, <2>1 DEF SenderLoop
  <2>2. CASE SenderWait \/ SenderCheckExit \/ SenderCheckQueue
    BY <1>0, <2>2 DEF SenderWait, SenderCheckExit, SenderCheckQueue
  <2>3. CASE SenderGoesIdle \/ SendKey \/ SenderAfterKey
    BY <1>0, <2>3 DEF SenderGoesIdle, SendKey, SenderAfterKey
  <2>4. CASE SenderReadsUpdated \/ SenderReadsReceived \/ SenderChecksTimer
    BY <1>0, <2>4 DEF SenderReadsUpdated, SenderReadsReceived,
       SenderChecksTimer
  <2>5. CASE SenderSetsStarted \/ SenderStartsTimer
    BY <1>0, <2>5 DEF SenderSetsStarted, SenderStartsTimer
  <2>6. QED
    BY <1>2, <2>1, <2>2, <2>3, <2>4, <2>5 DEF SenderStep
<1>3. ASSUME NEW r \in Resetters, ResetStatus(r)
      PROVE  ExitFlagHeld' /\ NoSleepAfterExit'
  BY <1>0, <1>3 DEF ResetStatus
<1>4. CASE ReceiveReport \/ ProcessReport
  BY <1>0, <1>4 DEF ReceiveReport, ProcessReport, ReportReceived,
     ReportUpdates, ReportEndsDetection
<1>5. CASE TimerStep
  BY <1>0, <1>5 DEF TimerStep, TimerExpires, CallbackClearsStarted,
     CallbackUpdates, CallbackAsks, TimerStopsItself
<1>6. CASE SetExit
  BY <1>0, <1>6 DEF SetExit
<1>7. CASE WakeForExit \/ JoinSender
  BY <1>0, <1>7 DEF WakeForExit, JoinSender
<1>8. CASE UNCHANGED vars
  BY <1>8 DEF vars
<1>9. QED
  BY <1>1, <1>2, <1>3, <1>4, <1>5, <1>6, <1>7, <1>8 DEF Next

\* The destructor never joins a sender that sleeps with the run flag down,
\* although the flags are written outside the mutex.
THEOREM SenderNeverSleepsThroughExit == Spec => []NoSleepAfterExit
<1>1. Init => ExitFlagHeld /\ NoSleepAfterExit
  BY DEF Init, ExitFlagHeld, NoSleepAfterExit, Threads, Workers
<1>2. QED
  BY KeysTypeCorrect, <1>1, StepNoSleepAfterExit, PTL DEF Spec
==============================================================================
