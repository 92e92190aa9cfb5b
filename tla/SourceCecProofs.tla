--------------------------- MODULE SourceCecProofs ----------------------------
(***************************************************************************)
(* Proofs about SourceCec, for any API threads, devices and bounds.        *)
(*                                                                         *)
(* CECEnable and CECDisable hold no mutex, and what they establish holds   *)
(* only if their callers do not overlap (Serial).  Everything but the      *)
(* types is proved of those behaviours.                                    *)
(***************************************************************************)
EXTENDS SourceCec, FiniteSetTheorems, TLAPS

\* At most one API thread is inside SetEnabled.
Serial == \A a, b \in Api : pc[a] # "idle" /\ pc[b] # "idle" => a = b

-------------------------------------------------------------------------------
(* What a caller has done at each point of CECEnable and CECDisable.       *)

Alive(t)  == pc[t] \notin {"absent", "ended"} /\ ~exit[t]
Absent(t) == pc[t] = "absent"
Told(t)   == pc[t] # "absent" /\ exit[t]

\* CEC is on or off, and so is everything that belongs to it.
Settled ==
  /\ smConnection = cecEnableStatus /\ libUp = cecEnableStatus
  /\ libcecInitStatus = IF cecEnableStatus THEN 1 ELSE 0
  /\ \A t \in Workers : IF cecEnableStatus THEN Alive(t) ELSE Absent(t)

Opening == ~cecEnableStatus /\ ~smConnection /\ libUp /\ libcecInitStatus = 1
Opened  == cecEnableStatus /\ smConnection /\ libUp /\ libcecInitStatus = 1

\* The points of the code at which a thread runs, has been told to end, or is gone.
KeyAlive    == {"enableOpen", "enableUpdate", "enablePoll"}
UpdateAlive == {"enablePoll", "joinKey", "stopUpdate"}
PollAlive   == {"joinKey", "stopUpdate", "signalUpdate", "joinUpdate", "stopPoll"}
EnableAll   == {"enableKey", "enableOpen", "enableUpdate", "enablePoll"}
DisableAll  == {"joinKey", "stopUpdate", "signalUpdate", "joinUpdate", "stopPoll",
                "signalPoll", "joinPoll", "clear", "close"}

Progress(point) ==
  /\ point \in {"enable"} \cup EnableAll => cecSettingEnabled
  /\ point \in {"disable"} \cup DisableAll => ~cecSettingEnabled
  /\ point \in {"enable", "disable"} => Settled
  /\ point \in {"enableKey", "enableOpen"} => Opening
  /\ point \in {"enableUpdate", "enablePoll"} \cup DisableAll => Opened
  /\ point \in EnableAll \cup DisableAll =>
       /\ IF point \in KeyAlive THEN Alive("key")
          ELSE IF point = "joinKey" THEN Told("key") ELSE Absent("key")
       /\ IF point \in UpdateAlive THEN Alive("update")
          ELSE IF point \in {"signalUpdate", "joinUpdate"} THEN Told("update")
          ELSE Absent("update")
       /\ IF point \in PollAlive THEN Alive("poll")
          ELSE IF point \in {"signalPoll", "joinPoll"} THEN Told("poll")
          ELSE Absent("poll")
  /\ point = "enableKey" => ~exit["key"]

\* Once opening the connection has failed, the key thread is left running and
\* nothing starts again.
Broken ==
  /\ ~cecEnableStatus
  /\ Alive("key") /\ Absent("update") /\ Absent("poll")
  /\ \A a \in Api : pc[a] \in {"idle", "enable", "disable", "enableKey"}

LinkInv ==
  IF failed THEN Broken
  ELSE /\ Quiet => Settled /\ cecEnableStatus = cecSettingEnabled
       /\ \A a \in Api : pc[a] # "idle" => Progress(pc[a])

-------------------------------------------------------------------------------
(* The table of devices.                                                   *)

Off == ~cecEnableStatus \/ \E a \in Api : pc[a] \in {"close", "enableUpdate", "enablePoll"}

\* No device that the poll thread has still to visit, or is about to add, is fresh.
Visiting ==
  /\ pc["poll"] = "start" => fresh = {}
  /\ pc["poll"] \in {"ping", "add"} => fresh \cap left["poll"] = {}
  /\ pc["poll"] = "add" => at["poll"].dev \notin fresh \cup left["poll"]

FreshTrue == pc["poll"] # "absent" => \A d \in fresh : d \in present <=> d \in bus

\* Two additions under way are of different devices, and of absent ones; and the
\* table is empty while the link is down or being set up.
Counted ==
  ~overlap =>
    /\ m_numberOfDevices = Cardinality(present)
    /\ \A t \in {"poll", "cec"} : pc[t] = "add" => at[t].dev \notin present
    /\ pc["poll"] = "add" /\ pc["cec"] = "add" => at["poll"].dev # at["cec"].dev
    /\ Off => present = {}

TableInv == Visiting /\ FreshTrue /\ Counted
-------------------------------------------------------------------------------
(* Types.                                                                  *)

\* A nonempty set of natural numbers has a least element: of the initial segments
\* that its elements bound, one is minimal.
LEMMA LeastElement ==
  ASSUME NEW T \in SUBSET Nat, T # {}
  PROVE  \E d \in T : \A e \in T : d <= e
<1> DEFINE Segments == {0 .. n : n \in T}
           R == StrictSubsetOrdering(Nat)
           S == FiniteSubsetsOf(Nat)
<1>1. Segments \subseteq S /\ Segments # {}
  <2>1. ASSUME NEW n \in T
        PROVE  IsFiniteSet(0 .. n) /\ 0 .. n \in SUBSET Nat
    BY FS_Interval
  <2> QED
    BY <2>1 DEF FiniteSubsetsOf
<1>2. IsWellFoundedOn(R, S)
  BY FS_StrictSubsetOrderingWellFounded
<1>3. PICK segment \in Segments : \A other \in Segments : ~(<<other, segment>> \in R)
  <2> HIDE DEF Segments, R, S
  <2> QED
    BY <1>1, <1>2, WFMin
<1>4. PICK d \in T : segment = 0 .. d
  BY <1>3
<1>5. ASSUME NEW e \in T, e < d
      PROVE  FALSE
  <2>1. 0 .. e \in Segments /\ 0 .. e \subseteq 0 .. d /\ 0 .. e \in SUBSET Nat
    BY <1>5
  <2>2. d \in 0 .. d /\ d \notin 0 .. e /\ 0 .. d \in SUBSET Nat
    BY <1>5
  <2>3. <<0 .. e, 0 .. d>> \in R
    BY <2>1, <2>2 DEF StrictSubsetOrdering
  <2> QED
    BY <1>3, <1>4, <2>1, <2>3
<1> QED
  BY <1>5

\* A thread visits its devices in the order of their addresses.
LEMMA NextIsLeft ==
  ASSUME NEW t, left[t] \in SUBSET Nat, left[t] # {}
  PROVE  NextOf(t) \in left[t]
BY LeastElement DEF NextOf

LEMMA PointsStep ==
  ASSUME ConstantsAssumption, PointsOK, [Next]_vars
  PROVE  PointsOK'
<1> USE DEF ConstantsAssumption, PointsOK, Threads, Workers, ApiPoints, ThreadPoints, Step
<1>1. ASSUME NEW a \in Api, ApiStep(a)
      PROVE  PointsOK'
  <2>1. CASE EnableInit(a)
    BY <2>1 DEF EnableInit
  <2>2. CASE EnableKeyThread(a)
    BY <2>2 DEF EnableKeyThread, Start
  <2>3. CASE EnableOpen(a)
    BY <2>3 DEF EnableOpen
  <2>4. CASE EnableUpdateThread(a)
    BY <2>4 DEF EnableUpdateThread, Start
  <2>5. CASE EnablePollThread(a)
    BY <2>5 DEF EnablePollThread, Start
  <2>6. CASE DisableKeyThread(a)
    BY <2>6 DEF DisableKeyThread
  <2>7. CASE DisableThreads(a)
    BY <2>7 DEF DisableThreads, Join, Stop, Signal, SignalUnlocked, Signalled
  <2>8. CASE removeAllCecDevices(a)
    BY <2>8 DEF removeAllCecDevices
  <2>9. CASE DisableClose(a)
    BY <2>9 DEF DisableClose
  <2> QED
    BY <1>1, <2>1, <2>2, <2>3, <2>4, <2>5, <2>6, <2>7, <2>8, <2>9 DEF ApiStep
<1>2. CASE KeyStep
  BY <1>2 DEF KeyStep, KeyLoop, KeyWakes, KeyCheckQueue, KeySends, KeyGoesIdle
<1>3. CASE PollStep
  BY <1>3 DEF PollStep, PollStart, PollLoop, pingDeviceUpdateList, Refused, Acknowledged,
              TakenForAcknowledged, Found, PollAdds, PollWaits, PollWakes, Signalled
<1>4. CASE UpdateStep
  BY <1>4 DEF UpdateStep, UpdateStart, UpdateLoop, UpdateWakes, UpdateScans
<1>5. CASE FrameAdds \/ threadHotPlugEventHandler
  BY <1>5 DEF FrameAdds, threadHotPlugEventHandler, Signalled
<1>6. CASE Environment
  BY <1>6 DEF Environment, SetEnabled, SendKeyPressEvent, keySame, PerformOTPAction,
              GetDeviceList, Signalled, ReceiveRouting, ReceiveFrom, ReceiveDetail,
              BusChanges, dsHdmiEventHandler
<1>7. CASE UNCHANGED vars
  BY <1>7 DEF vars
<1> QED
  BY <1>1, <1>2, <1>3, <1>4, <1>5, <1>6, <1>7 DEF Next

LEMMA LinkTypesStep ==
  ASSUME ConstantsAssumption, LinkOK, [Next]_vars
  PROVE  LinkOK'
<1> USE DEF LinkOK, linkVars
<1>1. ASSUME NEW a \in Api, ApiStep(a)
      PROVE  LinkOK'
  <2>1. CASE EnableInit(a)
    <3>1. libUp' \in BOOLEAN
      BY <2>1, Zenon DEF EnableInit
    <3>2. libcecInitStatus' \in Int
      BY <2>1 DEF EnableInit
    <3> QED
      BY <2>1, <3>1, <3>2 DEF EnableInit
  <2>2. CASE EnableKeyThread(a) \/ EnableUpdateThread(a) \/ EnablePollThread(a)
    BY <2>2 DEF EnableKeyThread, EnableUpdateThread, EnablePollThread
  <2>3. CASE EnableOpen(a)
    BY <2>3 DEF EnableOpen
  <2>4. CASE DisableKeyThread(a) \/ DisableThreads(a) \/ removeAllCecDevices(a)
    BY <2>4 DEF DisableKeyThread, DisableThreads, Join, Stop, Signal, SignalUnlocked,
                removeAllCecDevices
  <2>5. CASE DisableClose(a)
    <3>1. libUp' \in BOOLEAN
      BY <2>5, Zenon DEF DisableClose
    <3>2. libcecInitStatus' \in Int
      BY <2>5 DEF DisableClose
    <3>3. /\ smConnection' = FALSE /\ cecEnableStatus' = FALSE
          /\ cecSettingEnabled' = cecSettingEnabled /\ failed' = failed
      BY <2>5, Zenon DEF DisableClose
    <3> QED
      BY <3>1, <3>2, <3>3, Zenon
  <2> QED
    BY <1>1, <2>1, <2>2, <2>3, <2>4, <2>5 DEF ApiStep
<1>2. CASE KeyStep \/ PollStep \/ UpdateStep
  BY <1>2 DEF KeyStep, KeyLoop, KeyWakes, KeyCheckQueue, KeySends, KeyGoesIdle, keySame,
              PollStep, PollStart, PollLoop, pingDeviceUpdateList, PollAdds, PollWaits,
              PollWakes, pollSame, UpdateStep, UpdateStart, UpdateLoop, UpdateWakes,
              UpdateScans, updateSame
<1>3. CASE FrameAdds \/ threadHotPlugEventHandler
  BY <1>3 DEF FrameAdds, threadHotPlugEventHandler, frameSame
<1>4. CASE Environment
  BY <1>4 DEF Environment, SetEnabled, SendKeyPressEvent, keySame, PerformOTPAction,
              GetDeviceList, ReceiveRouting, ReceiveFrom, ReceiveDetail, frameSame,
              BusChanges, dsHdmiEventHandler
<1>5. CASE UNCHANGED vars
  BY <1>5 DEF vars
<1> QED
  BY <1>1, <1>2, <1>3, <1>4, <1>5 DEF Next

LEMMA SignalTypesStep ==
  ASSUME ConstantsAssumption, SignalsOK, [Next]_vars
  PROVE  SignalsOK'
<1> USE DEF SignalsOK, signalVars, Workers
<1>1. ASSUME NEW a \in Api, ApiStep(a)
      PROVE  SignalsOK'
  <2>1. CASE EnableInit(a) \/ EnableKeyThread(a) \/ EnableOpen(a) \/ EnableUpdateThread(a)
             \/ EnablePollThread(a)
    <3>1. CASE EnableInit(a)
      <4>1. /\ exit' = [exit EXCEPT !["key"] = FALSE] \/ UNCHANGED exit
            /\ UNCHANGED <<run, queue, lock>>
        BY <3>1 DEF EnableInit
      <4> QED
        BY <4>1
    <3>2. CASE EnableKeyThread(a) \/ EnableOpen(a)
      BY <3>2 DEF EnableKeyThread, EnableOpen
    <3>3. CASE EnableUpdateThread(a)
      BY <3>3 DEF EnableUpdateThread
    <3>4. CASE EnablePollThread(a)
      BY <3>4 DEF EnablePollThread
    <3> QED
      BY <2>1, <3>1, <3>2, <3>3, <3>4
  <2>2. CASE DisableKeyThread(a)
    <3>1. \/ exit' = [exit EXCEPT !["key"] = TRUE] /\ run' = TRUE
          \/ UNCHANGED <<exit, run>>
      BY <2>2 DEF DisableKeyThread
    <3>2. UNCHANGED <<queue, lock>>
      BY <2>2 DEF DisableKeyThread
    <3> QED
      BY <3>1, <3>2
  <2>3. CASE DisableThreads(a)
    BY <2>3 DEF DisableThreads, Join, Stop, Signal, SignalUnlocked
  <2>4. CASE removeAllCecDevices(a) \/ DisableClose(a)
    BY <2>4 DEF removeAllCecDevices, DisableClose
  <2> QED
    BY <1>1, <2>1, <2>2, <2>3, <2>4 DEF ApiStep
<1>2. CASE KeyStep
  <2>1. CASE KeyWakes
    <3>1. run' \in BOOLEAN
      BY <2>1, Zenon DEF KeyWakes
    <3> QED
      BY <2>1, <3>1 DEF KeyWakes, keySame
  <2>2. CASE KeyLoop \/ KeySends \/ KeyGoesIdle
    BY <2>2 DEF KeyLoop, KeySends, KeyGoesIdle, keySame
  <2>3. CASE KeyCheckQueue
    <3>1. queue' \in Nat
      BY <2>3 DEF KeyCheckQueue
    <3> QED
      BY <2>3, <3>1 DEF KeyCheckQueue, keySame
  <2> QED
    BY <1>2, <2>1, <2>2, <2>3 DEF KeyStep
<1>3. CASE PollStep
  BY <1>3 DEF PollStep, PollStart, PollLoop, pingDeviceUpdateList, PollAdds, PollWaits,
              PollWakes, pollSame, Acquire, Free
<1>4. CASE UpdateStep
  BY <1>4 DEF UpdateStep, UpdateStart, UpdateLoop, UpdateWakes, UpdateScans, updateSame,
              Acquire, Free
<1>5. CASE FrameAdds \/ threadHotPlugEventHandler
  BY <1>5 DEF FrameAdds, threadHotPlugEventHandler, frameSame
<1>6. CASE Environment
  <2>1. CASE SendKeyPressEvent
    BY <2>1 DEF SendKeyPressEvent, keySame
  <2>2. ASSUME ~SendKeyPressEvent
        PROVE  UNCHANGED signalVars
    BY <1>6, <2>2 DEF Environment, SetEnabled, PerformOTPAction, GetDeviceList,
                      ReceiveRouting, ReceiveFrom, ReceiveDetail, frameSame, BusChanges,
                      dsHdmiEventHandler
  <2> QED
    BY <2>1, <2>2
<1>7. CASE UNCHANGED vars
  BY <1>7 DEF vars
<1> QED
  BY <1>1, <1>2, <1>3, <1>4, <1>5, <1>6, <1>7 DEF Next

\* The table stays finite, and the count an integer.
LEMMA TableTypesStep ==
  ASSUME ConstantsAssumption, TableOK, AddersOK, [Next]_vars
  PROVE  TableOK'
<1> USE DEF TableOK, tableVars, localVars, linkSame, Nothing
<1>a. ASSUME NEW D \in SUBSET Devices
      PROVE  Cardinality(D \cap present) \in Nat /\ IsFiniteSet(present \ D)
  <2>1. D \cap present \in SUBSET present
    OBVIOUS
  <2>2. present \ D \in SUBSET present
    OBVIOUS
  <2> QED
    BY <2>1, <2>2, FS_Subset, FS_CardinalityType
<1>b. ASSUME NEW d \in Devices
      PROVE  IsFiniteSet(present \cup {d})
  BY FS_AddElement
<1>c. ASSUME NEW D \in SUBSET Devices, Removed(D)
      PROVE  /\ present' \subseteq Devices /\ IsFiniteSet(present') /\ known' \subseteq Devices
             /\ m_numberOfDevices' \in Int
  <2>1. m_numberOfDevices' \in Int
    BY <1>a, <1>c DEF Removed
  <2> QED
    BY <1>a, <1>c, <2>1 DEF Removed
<1>d. ASSUME NEW t, NEW d \in Devices, AddDevice(t, d)
      PROVE  /\ present' \subseteq Devices /\ IsFiniteSet(present') /\ known' \subseteq Devices
             /\ m_numberOfDevices' \in Int
  BY <1>b, <1>d DEF AddDevice
<1>1. ASSUME NEW a \in Api, ApiStep(a)
      PROVE  TableOK'
  <2>1. CASE removeAllCecDevices(a)
    <3>1. overlap' \in BOOLEAN
      BY <2>1, Zenon DEF removeAllCecDevices
    <3>2. Removed(Devices)
      BY <2>1 DEF removeAllCecDevices
    <3> QED
      BY <1>c, <2>1, <3>1, <3>2 DEF removeAllCecDevices
  <2>2. CASE EnableOpen(a)
    BY <2>2 DEF EnableOpen
  <2>3. CASE EnablePollThread(a)
    BY <2>3 DEF EnablePollThread
  <2>4. CASE EnableInit(a) \/ EnableKeyThread(a) \/ EnableUpdateThread(a)
             \/ DisableKeyThread(a) \/ DisableThreads(a) \/ DisableClose(a)
    BY <2>4 DEF EnableInit, EnableKeyThread, EnableUpdateThread, DisableKeyThread,
                DisableThreads, Join, Stop, Signal, SignalUnlocked, DisableClose
  <2> QED
    BY <1>1, <2>1, <2>2, <2>3, <2>4 DEF ApiStep
<1>2. CASE KeyStep
  BY <1>2 DEF KeyStep, KeyLoop, KeyWakes, KeyCheckQueue, KeySends, KeyGoesIdle, keySame
<1>3. CASE PollStep
  <2> USE DEF pollSame
  <2>1. CASE PollLoop
    BY <2>1 DEF PollLoop
  <2>4. CASE PollStart \/ PollWaits \/ PollWakes
    BY <2>4 DEF PollStart, PollWaits, PollWakes
  <2>2. CASE pingDeviceUpdateList
    <3> DEFINE d == NextOf("poll")
    <3>1. d \in Devices
      BY <2>2, NextIsLeft DEF pingDeviceUpdateList, ConstantsAssumption
    <3> HIDE DEF d
    <3>2. left' = [left EXCEPT !["poll"] = @ \ {d}]
      BY <2>2 DEF pingDeviceUpdateList, d
    <3>3. CASE Refused(d)
      <4>1. overlap' \in BOOLEAN
        BY <3>3, Zenon DEF Refused
      <4>2. Removed({d})
        BY <3>3 DEF Refused
      <4> QED
        BY <1>c, <2>2, <3>1, <3>2, <3>3, <4>1, <4>2 DEF Refused, pingDeviceUpdateList
    <3>4. CASE Acknowledged(d) \/ TakenForAcknowledged(d)
      <4>0. Found(d)
        BY <3>4 DEF Acknowledged, TakenForAcknowledged
      <4>1. overlap' \in BOOLEAN
        <5>1. CASE d \in present
          BY <4>0, <5>1 DEF Found
        <5>2. CASE d \notin present
          BY <4>0, <5>2, Zenon DEF Found
        <5> QED
          BY <5>1, <5>2
      <4>2. fresh' \subseteq Devices
        BY <3>1, <3>4 DEF Acknowledged, TakenForAcknowledged
      <4> QED
        BY <2>2, <3>1, <3>2, <4>0, <4>1, <4>2 DEF Found, pingDeviceUpdateList
    <3>5. CASE UNCHANGED <<pc, at, tableVars, fresh, overlap, used>>
      BY <2>2, <3>2, <3>5 DEF pingDeviceUpdateList
    <3> QED
      BY <2>2, <3>3, <3>4, <3>5 DEF pingDeviceUpdateList, d
  <2>3. CASE PollAdds
    <3>1. at["poll"].dev \in Devices
      BY <2>3 DEF PollAdds, Step, AddersOK
    <3> QED
      BY <1>d, <2>3, <3>1 DEF PollAdds
  <2> QED
    BY <1>3, <2>1, <2>2, <2>3, <2>4 DEF PollStep
<1>4. CASE UpdateStep
  <2>1. CASE UpdateScans
    BY <2>1 DEF UpdateScans, updateSame
  <2>2. CASE UpdateStart \/ UpdateLoop \/ UpdateWakes
    BY <2>2 DEF UpdateStart, UpdateLoop, UpdateWakes, updateSame
  <2> QED
    BY <1>4, <2>1, <2>2 DEF UpdateStep
<1>5. CASE FrameAdds
  <2>1. overlap' \in BOOLEAN
    BY <1>5, Zenon DEF FrameAdds
  <2>2. at["cec"].dev \in Devices
    BY <1>5 DEF FrameAdds, Step, AddersOK
  <2> QED
    BY <1>d, <1>5, <2>1, <2>2 DEF FrameAdds, frameSame
<1>6. CASE threadHotPlugEventHandler
  BY <1>6 DEF threadHotPlugEventHandler
<1>7. CASE Environment
  <2>1. ASSUME NEW d \in Devices, ReceiveFrom(d)
        PROVE  TableOK'
    <3>1. overlap' \in BOOLEAN
      <4>1. CASE d \in present
        BY <2>1, <4>1 DEF ReceiveFrom
      <4>2. CASE d \notin present
        BY <2>1, <4>2, Zenon DEF ReceiveFrom
      <4> QED
        BY <4>1, <4>2
    <3> QED
      BY <2>1, <3>1 DEF ReceiveFrom, frameSame
  <2>2. ASSUME NEW d \in Devices, ReceiveDetail(d) \/ BusChanges(d)
        PROVE  TableOK'
    BY <2>2 DEF ReceiveDetail, frameSame, BusChanges
  <2>3. CASE ReceiveRouting \/ PerformOTPAction
    BY <2>3 DEF ReceiveRouting, PerformOTPAction, frameSame
  <2>4. CASE (\E a \in Api, enabled \in BOOLEAN : SetEnabled(a, enabled))
             \/ SendKeyPressEvent \/ GetDeviceList \/ dsHdmiEventHandler
    BY <2>4 DEF SetEnabled, SendKeyPressEvent, keySame, GetDeviceList, dsHdmiEventHandler
  <2> QED
    BY <1>7, <2>1, <2>2, <2>3, <2>4 DEF Environment
<1>8. CASE UNCHANGED vars
  BY <1>8 DEF vars
<1> QED
  BY <1>1, <1>2, <1>3, <1>4, <1>5, <1>6, <1>7, <1>8 DEF Next

\* A thread that is about to add a device has one in hand.
LEMMA AddersStep ==
  ASSUME ConstantsAssumption, PointsOK, TableOK, AddersOK, [Next]_vars
  PROVE  AddersOK'
<1> USE DEF AddersOK, PointsOK, ConstantsAssumption, Threads, Workers, localVars
<1>1. ASSUME UNCHANGED at, \A t \in {"poll", "cec"} : pc'[t] = "add" => pc[t] = "add"
      PROVE  AddersOK'
  BY <1>1
<1>2. ASSUME NEW a \in Api, ApiStep(a)
      PROVE  AddersOK'
  <2> USE DEF Step, linkSame
  <2>1. UNCHANGED at
    BY <1>2 DEF ApiStep, EnableInit, EnableKeyThread, EnableOpen, EnableUpdateThread,
                EnablePollThread, DisableKeyThread, DisableThreads, Join, Stop, Signal,
                SignalUnlocked, removeAllCecDevices, DisableClose
  <2>2. CASE EnableKeyThread(a) \/ EnableUpdateThread(a) \/ EnablePollThread(a)
    BY <1>1, <2>1, <2>2 DEF EnableKeyThread, EnableUpdateThread, EnablePollThread, Start
  <2>3. CASE DisableThreads(a)
    BY <1>1, <2>1, <2>3 DEF DisableThreads, Join, Stop, Signal, SignalUnlocked, Signalled
  <2>4. CASE EnableInit(a) \/ EnableOpen(a) \/ DisableKeyThread(a) \/ removeAllCecDevices(a)
             \/ DisableClose(a)
    BY <1>1, <2>1, <2>4 DEF EnableInit, EnableOpen, DisableKeyThread, removeAllCecDevices,
                            DisableClose
  <2> QED
    BY <1>2, <2>2, <2>3, <2>4 DEF ApiStep
<1>3. CASE KeyStep
  BY <1>1, <1>3 DEF KeyStep, KeyLoop, KeyWakes, KeyCheckQueue, KeySends, KeyGoesIdle, keySame,
                    Step
<1>4. CASE PollStep
  <2>1. CASE pingDeviceUpdateList
    <3> DEFINE d == NextOf("poll")
    <3>1. d \in Devices
      BY <2>1, NextIsLeft DEF pingDeviceUpdateList, TableOK
    <3> HIDE DEF d
    <3>2. CASE Acknowledged(d) \/ TakenForAcknowledged(d)
      <4>1. Found(d)
        BY <3>2 DEF Acknowledged, TakenForAcknowledged
      <4> QED
        BY <2>1, <3>1, <4>1 DEF Found, TableOK, pingDeviceUpdateList, Step
    <3>3. CASE ~(Acknowledged(d) \/ TakenForAcknowledged(d))
      BY <1>1, <2>1, <3>3 DEF pingDeviceUpdateList, Refused, d
    <3> QED
      BY <3>2, <3>3
  <2>2. CASE PollLoop
    BY <2>2 DEF PollLoop, Step, TableOK
  <2>3. CASE PollStart \/ PollAdds \/ PollWaits \/ PollWakes
    BY <1>1, <2>3 DEF PollStart, PollAdds, PollWaits, PollWakes, Step, Signalled
  <2> QED
    BY <1>4, <2>1, <2>2, <2>3 DEF PollStep
<1>5. CASE UpdateStep
  BY <1>5 DEF UpdateStep, UpdateStart, UpdateLoop, UpdateWakes, UpdateScans, Step, TableOK
<1>6. CASE FrameAdds
  BY <1>6 DEF FrameAdds, Step, TableOK
<1>7. CASE threadHotPlugEventHandler
  BY <1>1, <1>7 DEF threadHotPlugEventHandler, Signalled
<1>8. CASE Environment
  <2>1. ASSUME NEW d \in Devices, ReceiveFrom(d)
        PROVE  AddersOK'
    BY <2>1 DEF ReceiveFrom, Step, TableOK
  <2>2. ASSUME NEW a \in Api, NEW enabled \in BOOLEAN, SetEnabled(a, enabled)
        PROVE  AddersOK'
    BY <1>1, <2>2 DEF SetEnabled
  <2>3. CASE dsHdmiEventHandler \/ GetDeviceList
    BY <1>1, <2>3 DEF dsHdmiEventHandler, GetDeviceList, Signalled
  <2>4. CASE \/ SendKeyPressEvent \/ ReceiveRouting \/ PerformOTPAction
             \/ \E d \in Devices : ReceiveDetail(d) \/ BusChanges(d)
    BY <1>1, <2>4 DEF SendKeyPressEvent, keySame, ReceiveRouting, PerformOTPAction,
                      ReceiveDetail, BusChanges
  <2> QED
    BY <1>8, <2>1, <2>2, <2>3, <2>4 DEF Environment
<1>9. CASE UNCHANGED vars
  BY <1>1, <1>9 DEF vars
<1> QED
  BY <1>2, <1>3, <1>4, <1>5, <1>6, <1>7, <1>8, <1>9 DEF Next

LEMMA UsesStep ==
  ASSUME UsesOK, [Next]_vars
  PROVE  UsesOK'
<1>1. ASSUME UNCHANGED used
      PROVE  UsesOK'
  BY <1>1 DEF UsesOK
<1>2. ASSUME NEW b, NEW bound, Use(b, bound)
      PROVE  UsesOK'
  <2>1. ASSUME NEW c \in {"calls", "events", "keys", "faults"}
        PROVE  used'[c] \in Nat
    BY <1>2, <2>1 DEF Use, UsesOK
  <2> QED
    BY <1>2, <2>1 DEF Use, UsesOK
<1>3. ASSUME NEW a \in Api, ApiStep(a)
      PROVE  UsesOK'
  BY <1>1, <1>2, <1>3 DEF ApiStep, EnableInit, EnableKeyThread, EnableOpen,
       EnableUpdateThread, EnablePollThread, DisableKeyThread, DisableThreads, Join, Stop,
       Signal, SignalUnlocked, removeAllCecDevices, DisableClose, linkSame
<1>4. CASE KeyStep \/ PollStep \/ UpdateStep
  BY <1>1, <1>2, <1>4 DEF KeyStep, KeyLoop, KeyWakes, KeyCheckQueue, KeySends, KeyGoesIdle,
       PollStep, PollStart, PollLoop, pingDeviceUpdateList, TakenForAcknowledged, PollAdds,
       PollWaits, PollWakes, UpdateStep, UpdateStart, UpdateLoop, UpdateWakes, UpdateScans, updateSame
<1>5. CASE FrameAdds \/ threadHotPlugEventHandler \/ UNCHANGED vars
  BY <1>1, <1>5 DEF FrameAdds, threadHotPlugEventHandler, vars
<1>6. CASE Environment
  BY <1>2, <1>6 DEF Environment, SetEnabled, SendKeyPressEvent, PerformOTPAction,
       GetDeviceList, ReceiveRouting, ReceiveFrom, ReceiveDetail, BusChanges,
       dsHdmiEventHandler
<1> QED
  BY <1>3, <1>4, <1>5, <1>6 DEF Next

\* Every thread stays in its own code and every variable in its type, for any
\* number of API threads and devices (SetEnabled, threadRun, threadUpdateCheck,
\* threadSendKeyEvent and the frame processor).
THEOREM SourceTypeCorrect == Spec => []TypeOK
<1>1. Init => TypeOK
  <2> SUFFICES ASSUME Init
               PROVE  TypeOK
    OBVIOUS
  <2> USE DEF Init, Threads, Workers
  <2>1. PointsOK
    BY ConstantsAssumption DEF PointsOK, ConstantsAssumption, ApiPoints, ThreadPoints
  <2>2. LinkOK
    <3>1. libcecInitStatus \in Int
      OBVIOUS
    <3> QED
      BY <3>1, Zenon DEF LinkOK
  <2>3. SignalsOK
    BY DEF SignalsOK
  <2>4. UsesOK
    BY DEF UsesOK
  <2>5. TableOK
    <3>1. /\ m_numberOfDevices \in Int
          /\ at \in [{"poll", "update", "cec"} -> [dev : Devices \cup {0}, n : Nat]]
          /\ left \in [{"poll", "update"} -> SUBSET Devices]
      BY DEF Nothing
    <3>2. /\ present \subseteq Devices /\ IsFiniteSet(present) /\ known \subseteq Devices
          /\ bus \subseteq Devices /\ fresh \subseteq Devices
      BY FS_EmptySet
    <3>3. overlap \in BOOLEAN /\ isDeviceActiveSource \in BOOLEAN
      BY Zenon
    <3> QED
      BY <3>1, <3>2, <3>3 DEF TableOK
  <2>6. AddersOK
    BY DEF AddersOK
  <2> QED
    BY <2>1, <2>2, <2>3, <2>4, <2>5, <2>6 DEF TypeOK
<1>2. TypeOK /\ [Next]_vars => TypeOK'
  BY ConstantsAssumption, PointsStep, LinkTypesStep, SignalTypesStep, TableTypesStep,
     AddersStep, UsesStep DEF TypeOK
<1> QED
  BY <1>1, <1>2, PTL DEF Spec

-------------------------------------------------------------------------------
(* The link.                                                               *)

\* The poll and the update thread do not outlive the connection.
LEMMA ConnectionOutlives ==
  ASSUME PointsOK, LinkInv, ~smConnection
  PROVE  Absent("poll") /\ Absent("update")
<1>1. CASE failed
  BY <1>1 DEF LinkInv, Broken
<1>2. CASE ~failed /\ Settled
  BY <1>2 DEF Settled, Workers
<1>3. CASE ~failed /\ ~Settled
  <2>1. PICK a \in Api : pc[a] # "idle" /\ Progress(pc[a])
    BY <1>3 DEF LinkInv, Quiet
  <2>2. pc[a] \in {"enableKey", "enableOpen"}
    BY <1>3, <2>1 DEF Progress, Opened, DisableAll, PointsOK, ApiPoints
  <2> QED
    BY <2>1, <2>2 DEF Progress, EnableAll, UpdateAlive, PollAlive
<1> QED
  BY <1>1, <1>2, <1>3

\* A step that leaves the link and the callers alone, starts no worker and ends none
\* that has not been told to.
Apart ==
  /\ UNCHANGED <<cecSettingEnabled, cecEnableStatus, libcecInitStatus, libUp, smConnection,
                 failed, exit>>
  /\ \A a \in Api : pc'[a] = pc[a]
  /\ \A t \in Workers : (Absent(t)' <=> Absent(t)) /\ (Alive(t) => Alive(t)')

LEMMA ApartKeepsLink ==
  ASSUME LinkInv, Apart
  PROVE  LinkInv'
<1>1. /\ Settled => Settled'
      /\ Opening' <=> Opening
      /\ Opened' <=> Opened
  BY DEF Apart, Settled, Opening, Opened
<1>2. ASSUME NEW t \in Workers
      PROVE  /\ Alive(t) => Alive(t)'
             /\ Told(t)' <=> Told(t)
             /\ Absent(t)' <=> Absent(t)
  BY DEF Apart, Told, Absent
<1>3. ASSUME NEW point, Progress(point)
      PROVE  Progress(point)'
  BY <1>1, <1>2, <1>3 DEF Progress, Workers, Apart
<1>4. CASE failed
  BY <1>2, <1>4 DEF LinkInv, Broken, Apart, Workers
<1>5. CASE ~failed
  BY <1>1, <1>3, <1>5 DEF LinkInv, Apart, Quiet
<1> QED
  BY <1>4, <1>5

LEMMA WorkersApart ==
  ASSUME ConstantsAssumption, PointsOK, LinkInv, KeyStep \/ PollStep \/ UpdateStep
  PROVE  Apart
<1> USE DEF Apart, PointsOK, ConstantsAssumption, Threads, Workers, Absent, Alive, Step
<1>1. CASE KeyStep
  BY <1>1 DEF KeyStep, KeyLoop, KeyWakes, KeyCheckQueue, KeySends, KeyGoesIdle, keySame, linkVars
<1>2. CASE PollStep
  <2>1. CASE PollStart
    BY <2>1, ConnectionOutlives DEF PollStart, pollSame, linkVars
  <2>2. CASE pingDeviceUpdateList
    BY <2>2 DEF pingDeviceUpdateList, Refused, Acknowledged, TakenForAcknowledged, Found,
                pollSame, linkVars
  <2>3. CASE PollWaits
    BY <2>3 DEF PollWaits, Signalled, pollSame, linkVars
  <2>4. CASE PollLoop \/ PollAdds \/ PollWakes
    BY <2>4 DEF PollLoop, PollAdds, PollWakes, pollSame, linkVars
  <2> QED
    BY <1>2, <2>1, <2>2, <2>3, <2>4 DEF PollStep
<1>3. CASE UpdateStep
  <2>1. CASE UpdateStart
    BY <2>1, ConnectionOutlives DEF UpdateStart, updateSame, linkVars
  <2>2. CASE UpdateScans
    BY <2>2 DEF UpdateScans, updateSame, linkVars
  <2>3. CASE UpdateLoop \/ UpdateWakes
    BY <2>3 DEF UpdateLoop, UpdateWakes, updateSame, linkVars
  <2> QED
    BY <1>3, <2>1, <2>2, <2>3 DEF UpdateStep
<1> QED
  BY <1>1, <1>2, <1>3

LEMMA OthersApart ==
  ASSUME ConstantsAssumption, PointsOK,
         \/ FrameAdds \/ threadHotPlugEventHandler \/ UNCHANGED vars
         \/ Environment /\ ~\E a \in Api, enabled \in BOOLEAN : SetEnabled(a, enabled)
  PROVE  Apart
<1> USE DEF Apart, PointsOK, ConstantsAssumption, Threads, Workers, Absent, Alive, Step
<1>1. CASE FrameAdds \/ threadHotPlugEventHandler \/ UNCHANGED vars
  BY <1>1 DEF FrameAdds, frameSame, threadHotPlugEventHandler, Signalled, vars, linkVars,
              signalVars
<1>2. CASE Environment /\ ~\E a \in Api, enabled \in BOOLEAN : SetEnabled(a, enabled)
  <2>1. ASSUME NEW d \in Devices, ReceiveFrom(d)
        PROVE  Apart
    BY <2>1 DEF ReceiveFrom, frameSame, linkVars, signalVars
  <2>2. CASE SendKeyPressEvent
    BY <2>2 DEF SendKeyPressEvent, keySame, linkVars
  <2>3. CASE GetDeviceList \/ dsHdmiEventHandler
    BY <2>3 DEF GetDeviceList, dsHdmiEventHandler, Signalled, linkVars, signalVars
  <2>4. CASE \/ ReceiveRouting \/ PerformOTPAction
             \/ \E d \in Devices : ReceiveDetail(d) \/ BusChanges(d)
    BY <2>4 DEF ReceiveRouting, PerformOTPAction, ReceiveDetail, BusChanges, frameSame,
                linkVars, signalVars
  <2> QED
    BY <1>2, <2>1, <2>2, <2>3, <2>4 DEF Environment
<1> QED
  BY <1>1, <1>2

\* CECEnable and CECDisable, a step at a time; the other callers are idle.
LEMMA CallerKeepsLink ==
  ASSUME ConstantsAssumption, PointsOK, LinkOK, SignalsOK, LinkInv, Serial,
         NEW a \in Api, ApiStep(a)
  PROVE  LinkInv'
<1> USE DEF PointsOK, SignalsOK, ConstantsAssumption, Threads, Workers, Step
<1>1. pc[a] # "idle" /\ \A b \in Api \ {a} : pc[b] = "idle"
  <2>1. pc[a] # "idle"
    BY DEF ApiStep, EnableInit, EnableKeyThread, EnableOpen, EnableUpdateThread,
           EnablePollThread, DisableKeyThread, DisableThreads, Join, Stop, Signal,
           SignalUnlocked, removeAllCecDevices, DisableClose
  <2> QED
    BY <2>1 DEF Serial
<1>2. ~failed => Progress(pc[a])
  BY <1>1 DEF LinkInv
<1>3. failed => pc[a] \in {"enable", "disable", "enableKey"} /\ Broken
  BY <1>1 DEF LinkInv, Broken
<1>4. ASSUME pc'[a] # "idle", Progress(pc[a])', ~failed',
             \A b \in Api \ {a} : pc'[b] = pc[b]
      PROVE  LinkInv'
  BY <1>1, <1>4 DEF LinkInv, Quiet
<1>5. ASSUME pc'[a] = "idle", Settled', cecEnableStatus' = cecSettingEnabled', ~failed',
             \A b \in Api \ {a} : pc'[b] = pc[b]
      PROVE  LinkInv'
  BY <1>1, <1>5 DEF LinkInv, Quiet
<1>6. CASE EnableInit(a)
  <2> USE DEF EnableInit, linkSame
  <2>1. CASE failed
    BY <1>1, <1>3, <1>6, <2>1 DEF LinkInv, Broken, Alive, Absent
  <2>2. CASE ~failed /\ cecEnableStatus
    BY <1>2, <1>5, <1>6, <2>2 DEF Progress, Settled, Alive, Absent
  <2>3. CASE ~failed /\ ~cecEnableStatus
    <3>1. Settled
      BY <1>2, <1>6, <2>3 DEF Progress
    <3>2. Opening'
      <4>1. libcecInitStatus = 0 /\ libcecInitStatus' = libcecInitStatus + 1
        BY <1>6, <2>3, <3>1 DEF Settled
      <4>2. libUp'
        BY <1>6, <2>3, <4>1
      <4>3. ~cecEnableStatus' /\ ~smConnection'
        BY <1>6, <2>3, <3>1 DEF Settled
      <4> QED
        BY <4>1, <4>2, <4>3 DEF Opening
    <3> QED
      BY <1>2, <1>4, <1>6, <2>3, <3>1, <3>2
         DEF Progress, Settled, Absent, EnableAll, DisableAll, KeyAlive, UpdateAlive, PollAlive
  <2> QED
    BY <2>1, <2>2, <2>3
<1>7. CASE EnableKeyThread(a)
  <2> USE DEF EnableKeyThread, Start, JoinDone, linkVars, signalVars, linkSame
  <2>1. ~failed
    BY <1>3, <1>7 DEF Broken, Alive
  <2> QED
    BY <1>2, <1>4, <1>7, <2>1 DEF Progress, Opening, Alive, Absent, EnableAll, DisableAll,
       KeyAlive, UpdateAlive, PollAlive
<1>8. CASE EnableOpen(a)
  <2> USE DEF EnableOpen, linkSame, signalVars
  <2>1. ~failed
    BY <1>3, <1>8
  <2>2. CASE failed'
    <3>1. Opening /\ Alive("key") /\ Absent("update") /\ Absent("poll")
      BY <1>2, <1>8, <2>1 DEF Progress, EnableAll, KeyAlive, UpdateAlive, PollAlive
    <3>2. /\ UNCHANGED <<cecEnableStatus, exit>>
          /\ pc' = [pc EXCEPT ![a] = "idle"]
      BY <1>8, <2>1, <2>2
    <3>3. Broken'
      BY <1>1, <3>1, <3>2 DEF Broken, Opening, Alive, Absent
    <3> QED
      BY <2>2, <3>3 DEF LinkInv
  <2>3. CASE ~failed'
    BY <1>2, <1>4, <1>8, <2>1, <2>3 DEF Progress, Opening, Opened, Alive, Absent, EnableAll,
       DisableAll, KeyAlive, UpdateAlive, PollAlive
  <2> QED
    BY <2>2, <2>3
<1>9. ~failed /\ ~(EnableInit(a) \/ EnableKeyThread(a) \/ EnableOpen(a)) =>
        pc[a] \in {"enableUpdate", "enablePoll", "disable"} \cup DisableAll
  BY DEF ApiStep, EnableUpdateThread, EnablePollThread, DisableKeyThread, DisableThreads,
         Join, Stop, Signal, SignalUnlocked, removeAllCecDevices, DisableClose, DisableAll
<1>10. CASE EnableUpdateThread(a) \/ EnablePollThread(a)
  <2> USE DEF EnableUpdateThread, EnablePollThread, Start, JoinDone, linkVars, linkSame
  <2>1. ~failed
    BY <1>3, <1>10
  <2>2. CASE EnableUpdateThread(a)
    BY <1>2, <1>4, <2>1, <2>2 DEF Progress, Opened, Alive, Absent, EnableAll, DisableAll,
       KeyAlive, UpdateAlive, PollAlive
  <2>3. CASE EnablePollThread(a)
    <3>1. Opened /\ cecSettingEnabled /\ Alive("key") /\ Alive("update")
      BY <1>2, <2>1, <2>3 DEF Progress, EnableAll, KeyAlive, UpdateAlive
    <3>2. Settled'
      BY <2>3, <3>1 DEF Opened, Settled, Alive
    <3> QED
      BY <1>5, <2>1, <2>3, <3>1, <3>2 DEF Opened
  <2> QED
    BY <1>10, <2>2, <2>3
<1>11. CASE DisableKeyThread(a)
  <2> USE DEF DisableKeyThread, linkVars, linkSame
  <2>1. CASE failed
    BY <1>1, <1>3, <1>11, <2>1 DEF LinkInv, Broken, Alive, Absent
  <2>2. CASE ~failed /\ ~cecEnableStatus
    <3>1. Settled /\ ~cecSettingEnabled
      BY <1>2, <1>11, <2>2 DEF Progress
    <3>2. Settled'
      BY <1>11, <2>2, <3>1 DEF Settled, Alive, Absent
    <3> QED
      BY <1>5, <1>11, <2>2, <3>1, <3>2 DEF LinkOK
  <2>3. CASE ~failed /\ cecEnableStatus
    BY <1>2, <1>4, <1>11, <2>3 DEF Progress, Settled, Opened, Alive, Absent, Told,
       EnableAll, DisableAll, KeyAlive, UpdateAlive, PollAlive
  <2> QED
    BY <2>1, <2>2, <2>3
<1>12. CASE DisableThreads(a)
  <2> USE DEF linkVars, linkSame, JoinDone
  <2>1. ~failed
    BY <1>3, <1>12 DEF DisableThreads, Join, Stop, Signal, SignalUnlocked
  <2>2. /\ pc[a] \in DisableAll /\ Progress(pc[a])
        /\ UNCHANGED <<cecSettingEnabled, cecEnableStatus, libcecInitStatus, libUp,
                       smConnection, failed>>
    BY <1>2, <1>12, <2>1 DEF DisableThreads, Join, Stop, Signal, SignalUnlocked, DisableAll
  <2> USE DEF Progress, Opened, Alive, Absent, Told, EnableAll, DisableAll, KeyAlive,
              UpdateAlive, PollAlive
  <2>3. CASE Join(a, "key", "joinKey", "stopUpdate")
    BY <1>4, <2>1, <2>2, <2>3 DEF Join, signalVars
  <2>4. CASE Join(a, "update", "joinUpdate", "stopPoll")
    BY <1>4, <2>1, <2>2, <2>4 DEF Join, signalVars
  <2>5. CASE Join(a, "poll", "joinPoll", "clear")
    BY <1>4, <2>1, <2>2, <2>5 DEF Join, signalVars
  <2>6. CASE Stop(a, "update", "stopUpdate", "signalUpdate")
    BY <1>4, <2>1, <2>2, <2>6 DEF Stop
  <2>7. CASE Stop(a, "poll", "stopPoll", "signalPoll")
    BY <1>4, <2>1, <2>2, <2>7 DEF Stop
  <2>8. CASE Signal(a, "update", "signalUpdate", "joinUpdate")
    BY <1>4, <2>1, <2>2, <2>8 DEF Signal, SignalUnlocked, Signalled, signalVars
  <2>9. CASE Signal(a, "poll", "signalPoll", "joinPoll")
    BY <1>4, <2>1, <2>2, <2>9 DEF Signal, SignalUnlocked, Signalled, signalVars
  <2> QED
    BY <1>12, <2>3, <2>4, <2>5, <2>6, <2>7, <2>8, <2>9 DEF DisableThreads
<1>13. CASE removeAllCecDevices(a)
  <2> USE DEF removeAllCecDevices, linkVars, signalVars, linkSame
  <2>1. ~failed
    BY <1>3, <1>13
  <2> QED
    BY <1>2, <1>4, <1>13, <2>1 DEF Progress, Opened, Absent, EnableAll, DisableAll, KeyAlive,
       UpdateAlive, PollAlive
<1>14. CASE DisableClose(a)
  <2> USE DEF DisableClose, signalVars, linkSame
  <2>1. ~failed
    BY <1>3, <1>14
  <2>2. /\ Opened /\ ~cecSettingEnabled
        /\ Absent("key") /\ Absent("update") /\ Absent("poll")
    BY <1>2, <1>14, <2>1 DEF Progress, DisableAll, KeyAlive, UpdateAlive, PollAlive
  <2>3. Settled'
    <3>0. libcecInitStatus = 1
      BY <2>2 DEF Opened
    <3>1. libUp' = FALSE /\ smConnection' = FALSE /\ cecEnableStatus' = FALSE
      BY <1>14, <3>0, Zenon
    <3>2. libcecInitStatus' = 0
      BY <1>14, <3>0
    <3> QED
      BY <1>14, <2>2, <3>1, <3>2 DEF Settled, Absent
  <2> QED
    BY <1>5, <1>14, <2>1, <2>2, <2>3 DEF LinkOK
<1> QED
  BY <1>6, <1>7, <1>8, <1>10, <1>11, <1>12, <1>13, <1>14 DEF ApiStep

LEMMA LinkStep ==
  ASSUME ConstantsAssumption, TypeOK, LinkInv, Serial, Serial', [Next]_vars
  PROVE  LinkInv'
<1> USE DEF TypeOK
<1>1. ASSUME NEW a \in Api, ApiStep(a)
      PROVE  LinkInv'
  BY <1>1, CallerKeepsLink
<1>2. ASSUME NEW a \in Api, NEW enabled \in BOOLEAN, SetEnabled(a, enabled)
      PROVE  LinkInv'
  <2> USE <1>2 DEF SetEnabled, PointsOK, ConstantsAssumption, Threads, Workers
  <2>1. pc'[a] \in {"enable", "disable"} /\ \A b \in Api \ {a} : pc'[b] = "idle" /\ pc[b] = "idle"
    BY DEF Serial
  <2>2. /\ UNCHANGED <<cecEnableStatus, libcecInitStatus, libUp, smConnection, exit, failed>>
        /\ \A t \in Workers : pc'[t] = pc[t]
    BY DEF signalVars
  <2>3. CASE failed
    BY <2>1, <2>2, <2>3 DEF LinkInv, Broken, Alive, Absent
  <2>4. CASE ~failed
    <3>1. Settled
      BY <2>1, <2>4 DEF LinkInv, Quiet
    <3>2. Settled'
      BY <2>2, <3>1 DEF Settled, Alive, Absent
    <3>3. Progress(pc[a])'
      BY <2>1, <3>2 DEF Progress, EnableAll, DisableAll, KeyAlive, UpdateAlive, PollAlive
    <3> QED
      BY <2>1, <2>2, <2>4, <3>3 DEF LinkInv, Quiet
  <2> QED
    BY <2>3, <2>4
<1> QED
  BY <1>1, <1>2, ApartKeepsLink, WorkersApart, OthersApart DEF Next, Environment

LEMMA LinkInit == Init => LinkInv
<1> SUFFICES ASSUME Init
             PROVE  LinkInv
  OBVIOUS
<1>1. Quiet /\ ~failed /\ cecEnableStatus = FALSE /\ cecSettingEnabled = FALSE
  BY ConstantsAssumption DEF Init, Quiet, ConstantsAssumption, Threads
<1>2. Settled
  BY DEF Init, Settled, Absent, Workers, Threads
<1> QED
  BY <1>1, <1>2 DEF LinkInv, Quiet

LEMMA LinkAlways == Spec /\ []Serial => []LinkInv
<1>1. TypeOK /\ LinkInv /\ Serial /\ Serial' /\ [Next]_vars => LinkInv'
  BY ConstantsAssumption, LinkStep
<1> QED
  BY <1>1, LinkInit, SourceTypeCorrect, PTL DEF Spec

\* Between calls that do not overlap, and unless opening has failed, the setting, the
\* status, the connection and libCEC agree (CECEnable, CECDisable).
THEOREM SourceLinkInForce == Spec /\ []Serial => []LinkInForce
<1>1. TypeOK /\ LinkInv => LinkInForce
  BY DEF TypeOK, LinkOK, LinkInv, LinkInForce, Settled
<1> QED
  BY <1>1, LinkAlways, SourceTypeCorrect, PTL

\* The threads are there exactly while CEC is on, and never longer than what they use.
THEOREM SourceWorkersOwned == Spec /\ []Serial => []WorkersOwned
<1>1. ASSUME TypeOK, LinkInv
      PROVE  WorkersOwned
  <2>1. ~smConnection => pc["poll"] = "absent" /\ pc["update"] = "absent"
    BY <1>1, ConnectionOutlives DEF TypeOK, Absent
  <2>2. ASSUME NEW a \in Api, pc[a] = "close"
        PROVE  pc["key"] = "absent"
    BY <1>1, <2>2 DEF LinkInv, Broken, Progress, Absent, DisableAll, KeyAlive
  <2>3. Quiet /\ ~failed =>
          \A t \in Workers : IF cecEnableStatus THEN pc[t] \notin {"absent", "ended"}
                                                ELSE pc[t] = "absent"
    BY <1>1 DEF LinkInv, Settled, Alive, Absent
  <2> QED
    BY <2>1, <2>2, <2>3 DEF WorkersOwned
<1> QED
  BY <1>1, LinkAlways, SourceTypeCorrect, PTL

-------------------------------------------------------------------------------
(* The table.                                                              *)

\* While the link is down, or being set up or closed, there is no poll thread.
LEMMA OffWithoutPoll ==
  ASSUME PointsOK, LinkInv, Off
  PROVE  Absent("poll")
<1>1. CASE \E a \in Api : pc[a] \in {"close", "enableUpdate", "enablePoll"}
  BY <1>1 DEF LinkInv, Broken, Progress, EnableAll, DisableAll, PollAlive
<1>2. CASE ~cecEnableStatus /\ failed
  BY <1>2 DEF LinkInv, Broken
<1>3. CASE ~cecEnableStatus /\ ~failed /\ Settled
  BY <1>3 DEF Settled, Workers
<1>4. CASE ~cecEnableStatus /\ ~failed /\ ~Settled
  <2>1. PICK a \in Api : pc[a] # "idle" /\ Progress(pc[a])
    BY <1>4 DEF LinkInv, Quiet
  <2>2. pc[a] \in {"enableKey", "enableOpen"}
    BY <1>4, <2>1 DEF Progress, Opened, DisableAll, PointsOK, ApiPoints
  <2> QED
    BY <2>1, <2>2 DEF Progress, EnableAll, PollAlive
<1> QED
  BY <1>1, <1>2, <1>3, <1>4 DEF Off

\* A step that neither adds nor removes, nor begins anything the poll thread does.
TableApart ==
  /\ UNCHANGED <<fresh, present, bus, m_numberOfDevices, overlap>>
  /\ at'["poll"] = at["poll"] /\ at'["cec"] = at["cec"] /\ left'["poll"] = left["poll"]
  /\ pc'["cec"] = pc["cec"]
  /\ \/ pc'["poll"] = pc["poll"]
     \/ pc'["poll"] \notin {"start", "ping", "add"} /\ pc["poll"] # "absent"
  /\ Off' => Off

LEMMA TableApartKeeps ==
  ASSUME TableInv, TableApart
  PROVE  TableInv'
<1>1. Visiting'
  BY DEF TableInv, Visiting, TableApart
<1>2. FreshTrue'
  BY DEF TableInv, FreshTrue, TableApart
<1>3. Counted'
  BY DEF TableInv, Counted, TableApart
<1> QED
  BY <1>1, <1>2, <1>3 DEF TableInv

LEMMA CallersTableApart ==
  ASSUME ConstantsAssumption, PointsOK, LinkInv, Serial, NEW a \in Api,
         ApiStep(a), ~removeAllCecDevices(a), ~EnablePollThread(a)
  PROVE  TableApart
<1> USE DEF TableApart, PointsOK, ConstantsAssumption, Threads, Workers, Step, tableVars,
            linkVars, localVars, linkSame
<1>1. ASSUME UNCHANGED <<cecEnableStatus>>, \A b \in Api \ {a} : pc'[b] = pc[b],
             pc'[a] \notin {"close", "enableUpdate"},
             pc'[a] = "enablePoll" => pc[a] = "enableUpdate"
      PROVE  Off' => Off
  BY <1>1 DEF Off
<1>2. CASE EnableInit(a)
  BY <1>1, <1>2 DEF EnableInit
<1>3. CASE EnableKeyThread(a)
  BY <1>1, <1>3 DEF EnableKeyThread, Start
<1>4. CASE EnableOpen(a)
  <2>1. Off
    <3>1. pc[a] = "enableOpen"
      BY <1>4 DEF EnableOpen
    <3>2. ~cecEnableStatus
      BY <3>1 DEF LinkInv, Broken, Progress, Opening
    <3> QED
      BY <3>2 DEF Off
  <2> QED
    BY <1>4, <2>1 DEF EnableOpen
<1>5. CASE EnableUpdateThread(a)
  BY <1>1, <1>5 DEF EnableUpdateThread, Start
<1>6. CASE DisableKeyThread(a)
  BY <1>1, <1>6 DEF DisableKeyThread
<1>7. CASE DisableThreads(a)
  <2>1. Off' => Off
    BY <1>1, <1>7 DEF DisableThreads, Join, Stop, Signal, SignalUnlocked, Signalled
  <2>2. CASE Join(a, "poll", "joinPoll", "clear")
    <3>1. pc["poll"] # "absent"
      BY <2>2 DEF Join, LinkInv, Broken, Progress, DisableAll, PollAlive, Told
    <3> QED
      BY <2>1, <2>2, <3>1 DEF Join
  <2>3. CASE Signal(a, "poll", "signalPoll", "joinPoll")
    BY <2>1, <2>3 DEF Signal, SignalUnlocked, Signalled
  <2>4. CASE ~Join(a, "poll", "joinPoll", "clear") /\ ~Signal(a, "poll", "signalPoll", "joinPoll")
    BY <1>7, <2>1, <2>4 DEF DisableThreads, Join, Stop, Signal, SignalUnlocked, Signalled
  <2> QED
    BY <2>2, <2>3, <2>4
<1>8. CASE DisableClose(a)
  <2>1. Off
    BY <1>8 DEF DisableClose, Off
  <2> QED
    BY <1>8, <2>1 DEF DisableClose
<1> QED
  BY <1>2, <1>3, <1>4, <1>5, <1>6, <1>7, <1>8 DEF ApiStep

LEMMA OthersTableApart ==
  ASSUME ConstantsAssumption, TypeOK,
         \/ KeyStep \/ UpdateStep \/ PollStart \/ PollWaits \/ PollWakes
         \/ threadHotPlugEventHandler \/ UNCHANGED vars
         \/ Environment /\ ~\E d \in Devices : ReceiveFrom(d) \/ BusChanges(d)
  PROVE  TableApart
<1> USE DEF TableApart, TypeOK, PointsOK, TableOK, ConstantsAssumption, Threads, Workers, Step,
            tableVars, linkVars, localVars
<1>1. ASSUME UNCHANGED cecEnableStatus, \A a \in Api : pc'[a] = pc[a]
      PROVE  Off' => Off
  BY <1>1 DEF Off
<1>2. CASE KeyStep
  BY <1>1, <1>2 DEF KeyStep, KeyLoop, KeyWakes, KeyCheckQueue, KeySends, KeyGoesIdle, keySame
<1>3. CASE UpdateStep
  BY <1>1, <1>3 DEF UpdateStep, UpdateStart, UpdateLoop, UpdateWakes, UpdateScans, updateSame
<1>4. CASE PollStart \/ PollWaits \/ PollWakes
  BY <1>1, <1>4 DEF PollStart, PollWaits, PollWakes, pollSame, Signalled
<1>5. CASE threadHotPlugEventHandler \/ UNCHANGED vars
  BY <1>1, <1>5 DEF threadHotPlugEventHandler, Signalled, vars
<1>6. ASSUME NEW a \in Api, NEW enabled \in BOOLEAN, SetEnabled(a, enabled)
      PROVE  TableApart
  BY <1>6 DEF SetEnabled, Off
<1>7. CASE SendKeyPressEvent \/ PerformOTPAction \/ ReceiveRouting
           \/ \E d \in Devices : ReceiveDetail(d)
  BY <1>1, <1>7 DEF SendKeyPressEvent, keySame, PerformOTPAction, ReceiveRouting,
                    ReceiveDetail, frameSame
<1>8. CASE GetDeviceList \/ dsHdmiEventHandler
  BY <1>1, <1>8 DEF GetDeviceList, dsHdmiEventHandler, Signalled
<1> QED
  BY <1>2, <1>3, <1>4, <1>5, <1>6, <1>7, <1>8 DEF Environment

\* CECDisable empties the table, the poll thread gone; CECEnable resets the number.
LEMMA ResetsKeepTable ==
  ASSUME ConstantsAssumption, TypeOK, LinkInv, TableInv, NEW a \in Api,
         removeAllCecDevices(a) \/ EnablePollThread(a)
  PROVE  TableInv'
<1> USE DEF TypeOK, PointsOK, TableOK, ConstantsAssumption, Threads, Workers, Step
<1>1. CASE removeAllCecDevices(a)
  <2>1. pc["poll"] = "absent" /\ pc'["poll"] = "absent" /\ pc'["cec"] = pc["cec"]
    BY <1>1 DEF removeAllCecDevices, LinkInv, Broken, Progress, DisableAll, PollAlive,
                UpdateAlive, KeyAlive, Absent
  <2>2. present' = {} /\ m_numberOfDevices' = m_numberOfDevices - Cardinality(present)
    <3>1. Devices \cap present = present /\ present \ Devices = {}
      OBVIOUS
    <3> QED
      BY <1>1, <3>1 DEF removeAllCecDevices, Removed
  <2>3. ~overlap' => ~overlap /\ pc["cec"] # "add"
    BY <1>1 DEF removeAllCecDevices, Meets, AddersOK
  <2>4. Counted'
    BY <2>1, <2>2, <2>3, FS_CardinalityType, FS_EmptySet DEF TableInv, Counted
  <2> QED
    BY <2>1, <2>4 DEF TableInv, Visiting, FreshTrue
<1>2. CASE EnablePollThread(a)
  <2>1. /\ pc'["poll"] = "start" /\ pc'["cec"] = pc["cec"] /\ fresh' = {}
        /\ m_numberOfDevices' = 0 /\ UNCHANGED <<present, overlap, at>>
    BY <1>2 DEF EnablePollThread, Start, linkSame
  <2>2. Off
    BY <1>2 DEF EnablePollThread, Off
  <2>3. Counted'
    BY <2>1, <2>2, FS_EmptySet DEF TableInv, Counted
  <2> QED
    BY <2>1, <2>3 DEF TableInv, Visiting, FreshTrue
<1> QED
  BY <1>1, <1>2

\* The poll thread's pass: a device is judged fresh when its ping has been answered
\* and its bit has been set or cleared, and not before.
LEMMA PassKeepsTable ==
  ASSUME ConstantsAssumption, TypeOK, LinkInv, TableInv,
         PollLoop \/ pingDeviceUpdateList \/ PollAdds
  PROVE  TableInv'
<1> USE DEF TypeOK, PointsOK, TableOK, ConstantsAssumption, Threads, Workers, Step, TableInv,
            pollSame, linkVars, tableVars, localVars
<1>1. ASSUME UNCHANGED cecEnableStatus, \A a \in Api : pc'[a] = pc[a]
      PROVE  Off' <=> Off
  BY <1>1 DEF Off
<1>2. CASE PollLoop
  <2>1. /\ fresh' = {} /\ UNCHANGED <<present, m_numberOfDevices, overlap>>
        /\ at'["cec"] = at["cec"] /\ pc'["cec"] = pc["cec"] /\ pc'["poll"] \in {"ended", "ping"}
        /\ Off' <=> Off
    BY <1>1, <1>2 DEF PollLoop
  <2> QED
    BY <2>1 DEF Visiting, FreshTrue, Counted
<1>3. CASE pingDeviceUpdateList
  <2> DEFINE d == NextOf("poll")
  <2>1. left["poll"] \in SUBSET Nat /\ left["poll"] # {} /\ pc["poll"] = "ping"
    BY <1>3 DEF pingDeviceUpdateList
  <2>2. d \in left["poll"] /\ d \notin fresh
    BY <2>1, NextIsLeft DEF Visiting
  <2>3. /\ left'["poll"] = left["poll"] \ {d} /\ UNCHANGED <<bus, cecEnableStatus>>
        /\ \/ Refused(d) \/ Acknowledged(d) \/ TakenForAcknowledged(d)
           \/ UNCHANGED <<pc, at, tableVars, fresh, overlap>>
    BY <1>3 DEF pingDeviceUpdateList
  <2> HIDE DEF d
  <2>4. CASE Refused(d)
    <3>1. /\ UNCHANGED <<pc, at>> /\ d \notin bus
          /\ fresh' = fresh \cup {d} /\ present' = present \ {d}
      BY <2>4 DEF Refused, Removed
    <3>2. ~overlap => m_numberOfDevices' = Cardinality(present')
      <4>1. m_numberOfDevices' = m_numberOfDevices - Cardinality({d} \cap present)
        BY <2>4 DEF Refused, Removed
      <4>2. Cardinality({d} \cap present) = IF d \in present THEN 1 ELSE 0
        <5>1. d \in present => {d} \cap present = {d}
          OBVIOUS
        <5>2. d \notin present => {d} \cap present = {}
          OBVIOUS
        <5> QED
          BY <5>1, <5>2, FS_EmptySet, FS_Singleton
      <4>3. /\ Cardinality(present \ {d}) =
                 IF d \in present THEN Cardinality(present) - 1 ELSE Cardinality(present)
            /\ Cardinality(present) \in Nat
        BY FS_RemoveElement, FS_CardinalityType DEF Counted
      <4> QED
        BY <3>1, <4>1, <4>2, <4>3 DEF Counted
    <3>3. ~overlap' => ~overlap
      BY <2>4, Zenon DEF Refused
    <3>4. Off' <=> Off
      BY <1>1, <2>3, <3>1
    <3>5. Counted'
      <4> SUFFICES ASSUME ~overlap'
                   PROVE  /\ (m_numberOfDevices = Cardinality(present))'
                          /\ \A t \in {"poll", "cec"} :
                               pc'[t] = "add" => at'[t].dev \notin present'
                          /\ pc'["poll"] = "add" /\ pc'["cec"] = "add"
                               => at'["poll"].dev # at'["cec"].dev
                          /\ Off' => present' = {}
        BY DEF Counted
      <4> QED
        BY <3>1, <3>2, <3>3, <3>4 DEF Counted
    <3> QED
      BY <2>1, <2>2, <2>3, <3>1, <3>5 DEF Visiting, FreshTrue
  <2>5. CASE Acknowledged(d) \/ TakenForAcknowledged(d)
    <3>1. Found(d) /\ UNCHANGED <<present, m_numberOfDevices>> /\ at'["cec"] = at["cec"]
      BY <2>5 DEF Acknowledged, TakenForAcknowledged, Found
    <3>2. CASE d \in present
      <4>1. /\ UNCHANGED <<pc, overlap>>
            /\ \/ UNCHANGED fresh
               \/ d \in bus /\ fresh' = fresh \cup {d}
        BY <2>5, <3>1, <3>2 DEF Acknowledged, TakenForAcknowledged, Found
      <4>2. Off' <=> Off
        BY <1>1, <2>3, <4>1
      <4> QED
        BY <2>1, <2>2, <2>3, <3>1, <3>2, <4>1, <4>2 DEF Visiting, FreshTrue, Counted
    <3>3. CASE d \notin present
      <4>1. /\ pc'["poll"] = "add" /\ pc'["cec"] = pc["cec"] /\ at'["poll"].dev = d
            /\ \A a \in Api : pc'[a] = pc[a]
            /\ UNCHANGED fresh
        BY <2>5, <3>1, <3>3 DEF Acknowledged, TakenForAcknowledged, Found
      <4>2. overlap' = FALSE => overlap = FALSE /\ ~(pc["cec"] = "add" /\ at["cec"].dev = d)
        BY <3>1, <3>3 DEF Found, Meets
      <4>3. Off' <=> Off
        BY <1>1, <2>3, <4>1
      <4> QED
        BY <2>1, <2>2, <2>3, <3>1, <3>3, <4>1, <4>2, <4>3 DEF Visiting, FreshTrue, Counted
    <3> QED
      BY <3>2, <3>3
  <2>6. CASE UNCHANGED <<pc, at, tableVars, fresh, overlap>>
    <3>1. Off' <=> Off
      BY <1>1, <2>3, <2>6
    <3> QED
      BY <2>1, <2>3, <2>6, <3>1 DEF Visiting, FreshTrue, Counted
  <2> QED
    BY <2>3, <2>4, <2>5, <2>6
<1>4. CASE PollAdds
  <2> DEFINE d == at["poll"].dev
  <2>1. /\ pc["poll"] = "add" /\ pc'["poll"] = "ping" /\ pc'["cec"] = pc["cec"]
        /\ \A a \in Api : pc'[a] = pc[a]
        /\ present' = present \cup {d} /\ m_numberOfDevices' = m_numberOfDevices + 1
        /\ fresh' = IF d \in bus THEN fresh \cup {d} ELSE fresh
        /\ UNCHANGED <<at, left, overlap, bus, cecEnableStatus>>
    BY <1>4 DEF PollAdds, AddDevice
  <2>2. d \notin fresh \cup left["poll"] /\ fresh \cap left["poll"] = {}
    BY <2>1 DEF Visiting
  <2>3. ~Off'
    BY <1>1, <2>1, OffWithoutPoll DEF Absent
  <2>4. Counted'
    <3> SUFFICES ASSUME ~overlap
                 PROVE  /\ m_numberOfDevices' = Cardinality(present')
                        /\ pc["cec"] = "add" => at["cec"].dev \notin present'
      BY <2>1, <2>3 DEF Counted
    <3>1. d \notin present /\ m_numberOfDevices = Cardinality(present)
      BY <2>1 DEF Counted
    <3>2. Cardinality(present \cup {d}) = Cardinality(present) + 1
      BY <3>1, FS_AddElement
    <3> QED
      BY <2>1, <3>1, <3>2 DEF Counted
  <2> HIDE DEF d
  <2> QED
    BY <2>1, <2>2, <2>4 DEF Visiting, FreshTrue
<1> QED
  BY <1>2, <1>3, <1>4

\* A frame's addition makes its device stale; the one that meets a change of CECEnable
\* or CECDisable is an overlap.
LEMMA FramesKeepTable ==
  ASSUME ConstantsAssumption, TypeOK, TableInv,
         FrameAdds \/ \E d \in Devices : ReceiveFrom(d) \/ BusChanges(d)
  PROVE  TableInv'
<1> USE DEF TypeOK, PointsOK, TableOK, ConstantsAssumption, Threads, Workers, Step, TableInv,
            frameSame, linkVars, tableVars, localVars
<1>1. CASE FrameAdds
  <2> DEFINE d == at["cec"].dev
  <2>1. /\ pc["cec"] = "add" /\ pc'["cec"] = "idle" /\ pc'["poll"] = pc["poll"]
        /\ \A a \in Api : pc'[a] = pc[a]
        /\ present' = present \cup {d} /\ m_numberOfDevices' = m_numberOfDevices + 1
        /\ fresh' = fresh \ {d} /\ at'["poll"] = at["poll"]
        /\ UNCHANGED <<left, bus, cecEnableStatus>>
    BY <1>1 DEF FrameAdds, AddDevice
  <2>2. ~overlap' => ~overlap /\ ~Off
    BY <1>1, Zenon DEF FrameAdds, Off
  <2>3. Off' <=> Off
    BY <2>1 DEF Off
  <2>4. Counted'
    <3> SUFFICES ASSUME ~overlap'
                 PROVE  /\ m_numberOfDevices' = Cardinality(present')
                        /\ pc["poll"] = "add" => at["poll"].dev \notin present'
      BY <2>1, <2>2, <2>3 DEF Counted
    <3>1. ~overlap /\ d \notin present /\ m_numberOfDevices = Cardinality(present)
      BY <2>1, <2>2 DEF Counted
    <3>2. Cardinality(present \cup {d}) = Cardinality(present) + 1
      BY <3>1, FS_AddElement
    <3> QED
      BY <2>1, <3>1, <3>2 DEF Counted
  <2> HIDE DEF d
  <2> QED
    BY <2>1, <2>4 DEF Visiting, FreshTrue
<1>2. ASSUME NEW d \in Devices, ReceiveFrom(d)
      PROVE  TableInv'
  <2>1. /\ UNCHANGED <<left, present, m_numberOfDevices, fresh, bus, cecEnableStatus>>
        /\ pc'["poll"] = pc["poll"] /\ at'["poll"] = at["poll"]
        /\ \A a \in Api : pc'[a] = pc[a]
    BY <1>2 DEF ReceiveFrom
  <2>2. Off' <=> Off
    BY <2>1 DEF Off
  <2>3. ASSUME d \in present
        PROVE  Counted'
    BY <1>2, <2>1, <2>2, <2>3 DEF ReceiveFrom, Counted
  <2>4. ASSUME d \notin present
        PROVE  Counted'
    <3>1. pc'["cec"] = "add" /\ at'["cec"].dev = d
      BY <1>2, <2>4 DEF ReceiveFrom
    <3>2. ~overlap' => ~overlap /\ ~Meets("cec", d)
      BY <1>2, <2>4, Zenon DEF ReceiveFrom
    <3>3. Meets("cec", d) <=> pc["poll"] = "add" /\ at["poll"].dev = d
      BY DEF Meets
    <3> QED
      BY <2>1, <2>2, <2>4, <3>1, <3>2, <3>3 DEF Counted
  <2>5. Counted'
    BY <2>3, <2>4
  <2> QED
    BY <2>1, <2>5 DEF Visiting, FreshTrue
<1>3. ASSUME NEW d \in Devices, BusChanges(d)
      PROVE  TableInv'
  <2>1. /\ UNCHANGED <<pc, at, left, present, m_numberOfDevices, overlap, cecEnableStatus>>
        /\ fresh' = fresh \ {d} /\ \A e \in Devices \ {d} : e \in bus' <=> e \in bus
    BY <1>3 DEF BusChanges
  <2>2. Off' <=> Off
    BY <2>1 DEF Off
  <2> QED
    BY <2>1, <2>2 DEF Visiting, FreshTrue, Counted
<1> QED
  BY <1>1, <1>2, <1>3

LEMMA TableStep ==
  ASSUME ConstantsAssumption, TypeOK, LinkInv, TableInv, Serial, [Next]_vars
  PROVE  TableInv'
<1>1. ASSUME NEW a \in Api, ApiStep(a)
      PROVE  TableInv'
  BY <1>1, ResetsKeepTable, CallersTableApart, TableApartKeeps DEF TypeOK
<1>2. CASE PollStep
  BY <1>2, PassKeepsTable, OthersTableApart, TableApartKeeps DEF PollStep
<1>3. CASE FrameAdds \/ \E d \in Devices : ReceiveFrom(d) \/ BusChanges(d)
  BY <1>3, FramesKeepTable
<1>4. CASE \/ KeyStep \/ UpdateStep \/ threadHotPlugEventHandler \/ UNCHANGED vars
           \/ Environment /\ ~\E d \in Devices : ReceiveFrom(d) \/ BusChanges(d)
  BY <1>4, OthersTableApart, TableApartKeeps
<1> QED
  BY <1>1, <1>2, <1>3, <1>4 DEF Next

LEMMA TableInit == Init => TableInv
BY FS_EmptySet DEF Init, TableInv, Visiting, FreshTrue, Counted, Threads, Workers

LEMMA TableAlways == Spec /\ []Serial => []TableInv
<1>1. TypeOK /\ LinkInv /\ TableInv /\ Serial /\ [Next]_vars => TableInv'
  BY ConstantsAssumption, TableStep
<1> QED
  BY <1>1, TableInit, LinkAlways, SourceTypeCorrect, PTL DEF Spec

\* When the poll thread sleeps, the table is right about every device that answered the
\* pass and has not come or gone since (pingDeviceUpdateList, addDevice, removeDevice).
THEOREM SourcePollTruth == Spec /\ []Serial => []PollTruth
<1>1. TableInv => PollTruth
  BY DEF TableInv, FreshTrue, PollTruth
<1> QED
  BY <1>1, TableAlways, PTL

\* The number of devices is the number of records, unless an addition by a frame has met
\* another change (addDevice, removeDevice, removeAllCecDevices, CECEnable's reset).
THEOREM SourceCountExact == Spec /\ []Serial => []CountExact
<1>1. TableInv => CountExact
  BY DEF TableInv, Counted, CountExact
<1> QED
  BY <1>1, TableAlways, PTL

\* With a single API thread, the plugin as the run has it and as one client uses it, the
\* four hold without a further hypothesis.
THEOREM SoleCaller ==
  (\A a, b \in Api : a = b)
    => (Spec => [](LinkInForce /\ WorkersOwned /\ PollTruth /\ CountExact))
<1> SUFFICES ASSUME \A a, b \in Api : a = b
             PROVE  Spec => [](LinkInForce /\ WorkersOwned /\ PollTruth /\ CountExact)
  OBVIOUS
<1>1. Serial
  BY DEF Serial
<1>2. Spec => []Serial
  BY <1>1, PTL
<1> QED
  BY <1>2, SourceLinkInForce, SourceWorkersOwned, SourcePollTruth, SourceCountExact, PTL
===============================================================================
