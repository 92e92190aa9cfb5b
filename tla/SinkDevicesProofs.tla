--------------------------- MODULE SinkDevicesProofs --------------------------
(***************************************************************************)
(* Proofs about SinkDevices and SinkPresence, for any devices, fields and  *)
(* bounds.                                                                 *)
(***************************************************************************)
EXTENDS SinkPresence, FiniteSetTheorems, TLAPS

-------------------------------------------------------------------------------
(* The invariants.                                                         *)

Labels == PollLabels \cup CecLabels \cup HpdLabels \cup ApiLabels

\* A handler that runs knows the device it has heard from.
Located ==
  /\ pc \in [Threads -> Labels]
  /\ pc["cec"] # "idle" => target["cec"] \in Devices

\* CEC is off: nobody is inside CECEnable or CECDisable, and they have left it so.
IsOff == pc["api"] = "idle" /\ ~cecEnableStatus

\* Without CEC there is no poll thread and no listener, and the listener comes
\* after POLL, the first state of a new poll thread.
Session ==
  /\ pc["api"] = "clear" \/ IsOff => pc["poll"] = "none" /\ ~listening /\ ~allocated
  /\ pc["api"] # "idle" => ~cecEnableStatus
  /\ m_pollThreadState = "POLL" => pc["poll"] \in {"top", "run", "ended"} /\ ~listening

\* Without a listener no handler runs, and until the count is reset the table is
\* empty and stays so.
Waiting ==
  ~clash =>
    /\ ~listening => pc["cec"] = "idle"
    /\ IsOff \/ m_pollThreadState = "POLL" =>
         (\A d \in Devices : ~present[d]) /\ (\A t \in Threads : ~Inside(t))

InTable == {d \in Devices : present[d]}

\* The devices that are no longer counted and not yet cleared.
Leaving == {d \in Devices : \E t \in Threads : pc[t] = "rmClear" /\ target[t] = d}

\* What each thread inside addDevice or removeDevice has found is still so, and
\* no two of them are about to clear the same record.
Counted ==
  listening /\ ~clash =>
    /\ m_numberOfDevices = Cardinality(InTable \ Leaving)
    /\ \A t \in Threads : Inside(t) => (present[target[t]] <=> pc[t] # "addSet")
    /\ \A t, u \in Threads :
         pc[t] = "rmClear" /\ pc[u] = "rmClear" /\ target[t] = target[u] => t = u

CountInv == Session /\ Waiting /\ Counted

-------------------------------------------------------------------------------
(* Types.                                                                  *)

\* A nonempty set of natural numbers has a least element: of the initial segments
\* that its elements bound, one is minimal.
LEMMA LeastElement ==
  ASSUME NEW T \in SUBSET Nat, T # {}
  PROVE  \E d \in T : \A e \in T : d <= e
<1> DEFINE Segments == {0 .. n : n \in T}
           R == StrictSubsetOrdering(Nat)
           S == FiniteSubsetsOf(Nat)
<1>1. Segments \subseteq S /\ Segments # {}
  <2>1. ASSUME NEW n \in T
        PROVE  IsFiniteSet(0 .. n) /\ 0 .. n \in SUBSET Nat
    BY FS_Interval
  <2> QED
    BY <2>1 DEF FiniteSubsetsOf
<1>2. IsWellFoundedOn(R, S)
  BY FS_StrictSubsetOrderingWellFounded
<1>3. PICK segment \in Segments : \A other \in Segments : ~(<<other, segment>> \in R)
  <2> HIDE DEF Segments, R, S
  <2> QED
    BY <1>1, <1>2, WFMin
<1>4. PICK d \in T : segment = 0 .. d
  BY <1>3
<1>5. ASSUME NEW e \in T, e < d
      PROVE  FALSE
  <2>1. 0 .. e \in Segments /\ 0 .. e \subseteq 0 .. d /\ 0 .. e \in SUBSET Nat
    BY <1>5
  <2>2. d \in 0 .. d /\ d \notin 0 .. e /\ 0 .. d \in SUBSET Nat
    BY <1>5
  <2>3. <<0 .. e, 0 .. d>> \in R
    BY <2>1, <2>2 DEF StrictSubsetOrdering
  <2> QED
    BY <1>3, <1>4, <2>1, <2>3
<1> QED
  BY <1>5

\* The lowest address of a set of devices, the first of a set of fields.
LEMMA MinIsMember ==
  ASSUME NEW T \in SUBSET Nat, T # {}
  PROVE  Min(T) \in T
BY LeastElement DEF Min

LEMMA MinDevice ==
  ASSUME ConstantsAssumption, NEW T \in SUBSET Devices, T # {}
  PROVE  Min(T) \in T
<1>1. T \in SUBSET Nat
  BY DEF ConstantsAssumption
<1> QED
  BY <1>1, MinIsMember

\* A record that is not complete has a field to ask for.
LEMMA RequestIsOfField ==
  ASSUME NEW d, ~isAllUpdated(d), Fields \subseteq AllFields
  PROVE  requestType(d) \in Fields
<1> DEFINE T == {i \in 1..5 : FieldOrder[i] \in Fields /\ ~Known(d, FieldOrder[i])}
<1>1. T \in SUBSET Nat
  OBVIOUS
<1>2. PICK f \in Fields : ~Known(d, f)
  BY DEF isAllUpdated
<1>3. PICK i \in 1..5 : f = FieldOrder[i]
  BY <1>2 DEF AllFields
<1>4. Min(T) \in T
  BY <1>1, <1>2, <1>3, MinIsMember
<1> QED
  BY <1>4 DEF requestType

LEMMA ThreadsStep ==
  ASSUME ConstantsAssumption, ThreadsOK, Located, StatesOK, [Next]_vars
  PROVE  ThreadsOK' /\ Located'
<1> USE DEF ConstantsAssumption, ThreadsOK, Located, StatesOK, Threads, Labels, PollLabels,
            CecLabels, HpdLabels, ApiLabels, Inside, Step, Aim, NoDevice
<1>1. CASE Environment
  <2>1. ASSUME NEW d \in Devices, ReceiveFrom(d)
        PROVE  ThreadsOK' /\ Located'
    BY <2>1 DEF ReceiveFrom, Receive
  <2>2. ASSUME NEW d \in Devices, CableOut(d)
        PROVE  ThreadsOK' /\ Located'
    BY <2>2 DEF CableOut, RemoveCheck, AfterRemove
  <2>3. ASSUME NEW d \in Devices, CableIn(d) \/ Appears(d)
        PROVE  ThreadsOK' /\ Located'
    BY <2>3 DEF CableIn, Appears
  <2>4. CASE PowerPings \/ CECEnable \/ CECDisable
    BY <2>4 DEF PowerPings, CECEnable, CECDisable
  <2> QED
    BY <1>1, <2>1, <2>2, <2>3, <2>4 DEF Environment
<1>2. ASSUME NEW t \in Threads, AddDevice(t) \/ RemoveStep(t)
      PROVE  ThreadsOK' /\ Located'
  BY <1>2 DEF AddDevice, RemoveStep, RemoveCount, RemoveClear, AfterAdd, AfterRemove
<1>3. CASE PollPings
  <2>1. CASE PollRemoves
    <3>1. Min(disconnected) \in Devices
      BY <2>1, MinIsMember DEF PollRemoves
    <3> QED
      BY <2>1, <3>1 DEF PollRemoves, RemoveCheck, AfterRemove
  <2>2. CASE PollAdds
    <3>1. Min(connected) \in Devices
      BY <2>2, MinIsMember DEF PollAdds
    <3> QED
      BY <2>2, <3>1 DEF PollAdds, AddCheck, AfterAdd
  <2>3. CASE PollBeginsPing \/ PingDevice \/ PollPinged \/ PollRemoved \/ PollAdded
    BY <2>3 DEF PollBeginsPing, PingDevice, PollPinged, PollRemoved, PollAdded
  <2> QED
    BY <1>3, <2>1, <2>2, <2>3 DEF PollPings
<1>4. CASE PollStep /\ ~PollPings /\ ~AddDevice("poll") /\ ~RemoveStep("poll")
  BY <1>4 DEF PollStep, PollTop, PollForget, PollAllocate, PollRequests, PollAsksStatus,
              RequestElapsed, PollUpdates, PollIdles, PollEnds
<1>5. CASE CecStep /\ ~AddDevice("cec")
  BY <1>5 DEF CecStep, HandlerAddCheck, AddCheck, AfterAdd, HandlerTells, HandlerChains,
              HandlerAborts, HandlerEnds
<1>6. CASE TimePasses \/ HotPlugPings \/ Enabled \/ DisableStep \/ UNCHANGED vars
  BY <1>6 DEF TimePasses, HotPlugPings, Enabled, DisableStep, DisableJoins, DisableClears, vars
<1> QED
  BY <1>1, <1>2, <1>3, <1>4, <1>5, <1>6 DEF Next, PollStep, CecStep, HpdStep

LEMMA RecordsStep ==
  ASSUME ConstantsAssumption, ThreadsOK, Located, TableOK, StatesOK, [Next]_vars
  PROVE  TableOK'
<1> USE DEF ConstantsAssumption, TableOK, Located, tableVars
<1>1. CASE Environment
  BY <1>1 DEF Environment, ReceiveFrom, Receive, CableOut, CableIn, Appears, PowerPings,
              CECEnable, CECDisable
<1>2. ASSUME NEW t \in Threads, AddDevice(t) \/ RemoveStep(t)
      PROVE  TableOK'
  <2>1. Unknown \in [Fields -> {"unknown", "address", "told", "default"}]
    BY DEF Unknown
  <2>2. CASE AddDevice(t)
    <3>1. /\ present' = [present EXCEPT ![target[t]] = TRUE]
          /\ m_numberOfDevices' = m_numberOfDevices + 1
          /\ UNCHANGED <<info, requested, retry>>
      BY <2>2 DEF AddDevice
    <3>2. present' \in [Devices -> BOOLEAN]
      BY <3>1, Zenon
    <3> QED
      BY <3>1, <3>2
  <2>3. CASE RemoveCount(t)
    BY <2>3 DEF RemoveCount
  <2>4. CASE RemoveClear(t)
    <3>1. /\ present' = [present EXCEPT ![target[t]] = FALSE]
          /\ info' = [info EXCEPT ![target[t]] = Unknown]
          /\ retry' = [retry EXCEPT ![target[t]] = 0]
          /\ UNCHANGED <<requested, m_numberOfDevices>>
      BY <2>4 DEF RemoveClear
    <3>2. present' \in [Devices -> BOOLEAN]
      BY <3>1, Zenon
    <3>3. info' \in [Devices -> [Fields -> {"unknown", "address", "told", "default"}]]
      BY <2>1, <3>1
    <3> QED
      BY <3>1, <3>2, <3>3
  <2> QED
    BY <1>2, <2>2, <2>3, <2>4 DEF RemoveStep
<1>3. CASE PollStep /\ ~AddDevice("poll") /\ ~RemoveStep("poll")
  <2>1. CASE PollRequests
    <3>1. CASE Incomplete # {}
      <4> DEFINE d == Min(Incomplete)
      <4>1. Incomplete \in SUBSET Nat
        <5>1. 0..14 \subseteq Nat
          OBVIOUS
        <5> QED
          BY <5>1, Zenon DEF Incomplete
      <4>2. d \in Incomplete
        BY <3>1, <4>1, MinIsMember
      <4>3. d \in Devices /\ requestType(d) \in Fields
        BY <4>2, RequestIsOfField DEF Incomplete
      <4> HIDE DEF d
      <4>4. \/ requested' = [requested EXCEPT ![d] = requestType(d)]
            \/ UNCHANGED requested
        BY <2>1, <3>1 DEF PollRequests, d
      <4>5. UNCHANGED <<present, info, retry, m_numberOfDevices>>
        BY <2>1 DEF PollRequests
      <4> QED
        BY <4>3, <4>4, <4>5
    <3> QED
      BY <2>1, <3>1 DEF PollRequests
  <2>2. CASE PollAsksStatus
    BY <2>2 DEF PollAsksStatus, EndRequest
  <2>3. CASE RequestElapsed
    <3> DEFINE d == logicalAddressRequested
    <3>1. /\ UNCHANGED <<present, m_numberOfDevices>>
          /\ requested' = [requested EXCEPT ![d] = "none"]
          /\ info' \in {info, [info EXCEPT ![d][requested[d]] = "default"]}
          /\ \/ retry[d] < MaxRetry /\ retry' = [retry EXCEPT ![d] = @ + 1]
             \/ retry' = [retry EXCEPT ![d] = 0]
             \/ retry' = retry
      BY <2>3 DEF RequestElapsed, EndRequest, AskAgain
    <3>2. retry' \in [Devices -> 0..MaxRetry]
      BY <3>1
    <3>3. info' \in [Devices -> [Fields -> {"unknown", "address", "told", "default"}]]
      BY <3>1
    <3> QED
      BY <3>1, <3>2, <3>3
  <2>4. CASE PollUpdates
    BY <2>4 DEF PollUpdates
  <2>5. CASE PollTop \/ PollForget \/ PollAllocate \/ PollPings \/ PollIdles \/ PollEnds
    BY <2>5 DEF PollTop, PollForget, PollAllocate, PollPings, PollBeginsPing, PingDevice,
                PollPinged, PollRemoves, PollRemoved, PollAdds, PollAdded, PollIdles, PollEnds
  <2> QED
    BY <1>3, <2>1, <2>2, <2>3, <2>4, <2>5 DEF PollStep
<1>4. CASE HandlerTells
  <2> DEFINE d == target["cec"]
  <2>1. /\ UNCHANGED <<present, requested, m_numberOfDevices>>
        /\ retry' \in {retry, [retry EXCEPT ![d] = 0]}
    BY <1>4 DEF HandlerTells
  <2>2. info' \in [Devices -> [Fields -> {"unknown", "address", "told", "default"}]]
    <3>1. CASE message \in Fields
      BY <1>4, <3>1 DEF HandlerTells
    <3>2. CASE message \notin Fields
      <4>1. info' = SourceLocated(d)
        BY <1>4, <3>2 DEF HandlerTells
      <4> QED
        BY <4>1 DEF SourceLocated
    <3> QED
      BY <3>1, <3>2
  <2> QED
    BY <2>1, <2>2
<1>5. CASE HandlerAborts
  BY <1>5 DEF HandlerAborts, HandlerEnds, Step
<1>6. CASE DisableClears
  BY <1>6 DEF DisableClears, Unknown
<1>7. CASE \/ HandlerAddCheck \/ HandlerChains \/ TimePasses \/ HotPlugPings \/ Enabled
           \/ DisableJoins \/ UNCHANGED vars
  BY <1>7 DEF HandlerAddCheck, HandlerChains, TimePasses, HotPlugPings, Enabled,
              DisableJoins, vars
<1> QED
  BY <1>1, <1>2, <1>3, <1>4, <1>5, <1>6, <1>7
     DEF Next, PollStep, CecStep, HpdStep, DisableStep, Threads

LEMMA StatesStep ==
  ASSUME ConstantsAssumption, StatesOK, [Next]_vars
  PROVE  StatesOK'
<1> USE DEF ConstantsAssumption, StatesOK, PollStates, AsksFor, stateVars, pollVars
<1>1. CASE Environment
  BY <1>1 DEF Environment, ReceiveFrom, Receive, CableOut, CableIn, Appears, PowerPings,
              CECEnable, CECDisable
<1>2. ASSUME NEW t \in Threads, AddDevice(t) \/ RemoveStep(t)
      PROVE  StatesOK'
  BY <1>2 DEF AddDevice, RemoveStep, RemoveCount, RemoveClear
<1>3. CASE PollPings
  <2>1. CASE PingDevice
    <3>1. unpinged # {} /\ unpinged \in SUBSET Devices
      BY <2>1 DEF PingDevice
    <3>2. Min(unpinged) \in Devices
      BY <3>1, MinIsMember
    <3> QED
      BY <2>1, <3>2 DEF PingDevice
  <2>2. CASE PollBeginsPing \/ PollPinged \/ PollRemoves \/ PollRemoved \/ PollAdds \/ PollAdded
    BY <2>2 DEF PollBeginsPing, PollPinged, PollRemoves, PollRemoved, PollAdds, PollAdded
  <2> QED
    BY <1>3, <2>1, <2>2 DEF PollPings
<1>4. CASE PollRequests
  <2>1. Incomplete # {} => Min(Incomplete) \in Devices
    BY MinIsMember DEF Incomplete
  <2> QED
    BY <1>4, <2>1 DEF PollRequests
<1>5. CASE \/ PollTop \/ PollForget \/ PollAllocate \/ PollAsksStatus \/ RequestElapsed
           \/ PollUpdates \/ PollIdles \/ PollEnds
  BY <1>5 DEF PollTop, PollForget, PollAllocate, PollAsksStatus, RequestElapsed, EndRequest,
              PollUpdates, PollIdles, PollEnds
<1>6. CASE CecStep /\ ~AddDevice("cec")
  BY <1>6 DEF CecStep, HandlerAddCheck, HandlerTells, HandlerChains, HandlerAborts
<1>7. CASE TimePasses \/ HotPlugPings \/ Enabled \/ DisableStep \/ UNCHANGED vars
  BY <1>7 DEF TimePasses, HotPlugPings, Enabled, DisableStep, DisableJoins, DisableClears, vars
<1> QED
  BY <1>1, <1>2, <1>3, <1>4, <1>5, <1>6, <1>7 DEF Next, PollStep, CecStep, HpdStep, Threads

LEMMA InitTypes == Init => TypeOK /\ Located
<1> SUFFICES ASSUME Init
             PROVE  TypeOK /\ Located
  OBVIOUS
<1>1. ThreadsOK /\ Located
  BY DEF Init, ThreadsOK, Located, Threads, Labels, PollLabels, CecLabels, HpdLabels,
         ApiLabels, Inside
<1>2. TableOK
  BY ConstantsAssumption DEF Init, TableOK, ConstantsAssumption, Unknown
<1>3. StatesOK
  BY DEF Init, StatesOK, PollStates
<1> QED
  BY <1>1, <1>2, <1>3 DEF TypeOK

LEMMA TypesStep == TypeOK /\ Located /\ [Next]_vars => TypeOK' /\ Located'
BY ConstantsAssumption, ThreadsStep, RecordsStep, StatesStep DEF TypeOK

LEMMA TypesAlways == Spec => [](TypeOK /\ Located)
BY InitTypes, TypesStep, PTL DEF Spec

\* Every variable of the table and of its threads holds a value of its kind: no thread
\* adds or removes a device that has no record, and no record counts more retries than
\* HDMICECSINK_REQUEST_MAX_RETRY (threadRun, requestStatus, the message handlers).
THEOREM DevicesTypeCorrect == Spec => []TypeOK
BY TypesAlways, PTL

-------------------------------------------------------------------------------
(* The number of devices.                                                  *)

LEMMA InsideWhom ==
  ASSUME ThreadsOK, NEW t \in Threads, Inside(t)
  PROVE  t # "api" /\ (t = "cec" => pc["cec"] # "idle")
BY DEF ThreadsOK, Inside, ApiLabels

LEMMA SessionStep ==
  ASSUME ThreadsOK, Located, StatesOK, Session, [Next]_vars
  PROVE  Session'
<1> USE DEF ThreadsOK, Located, StatesOK, Session, IsOff, Threads, Step, linkVars, stateVars
<1>1. CASE Environment
  BY <1>1 DEF Environment, ReceiveFrom, Receive, CableOut, RemoveCheck, CableIn, Appears,
              PowerPings, CECEnable, CECDisable
<1>2. ASSUME NEW t \in Threads, AddDevice(t) \/ RemoveStep(t)
      PROVE  Session'
  <2>1. /\ pc[t] \in {"addSet", "rmCount", "rmClear"} /\ \A u \in Threads \ {t} : pc'[u] = pc[u]
        /\ UNCHANGED <<m_pollThreadState, cecEnableStatus, allocated, listening>>
    BY <1>2 DEF AddDevice, RemoveStep, RemoveCount, RemoveClear
  <2>2. t # "api"
    BY <2>1 DEF ApiLabels
  <2> QED
    BY <2>1, <2>2
<1>3. CASE PollPings
  BY <1>3 DEF PollPings, PollBeginsPing, PingDevice, PollPinged, PollRemoves, RemoveCheck,
              PollRemoved, PollAdds, AddCheck, PollAdded
<1>4. CASE PollAllocate
  BY <1>4 DEF PollAllocate
<1>5. CASE \/ PollTop \/ PollForget \/ PollRequests \/ PollAsksStatus \/ RequestElapsed
           \/ PollUpdates \/ PollIdles \/ PollEnds
  BY <1>5 DEF PollTop, PollForget, PollRequests, PollAsksStatus, RequestElapsed, PollUpdates,
              PollIdles, PollEnds
<1>6. CASE CecStep /\ ~AddDevice("cec")
  BY <1>6 DEF CecStep, HandlerAddCheck, AddCheck, HandlerTells, HandlerChains, HandlerAborts,
              HandlerEnds
<1>7. CASE TimePasses \/ HotPlugPings \/ Enabled \/ DisableStep \/ UNCHANGED vars
  BY <1>7 DEF TimePasses, HotPlugPings, Enabled, DisableStep, DisableJoins, DisableClears, vars
<1> QED
  BY <1>1, <1>2, <1>3, <1>4, <1>5, <1>6, <1>7 DEF Next, PollStep, CecStep, HpdStep

\* A step of no consequence for the count: it leaves the table and who is inside
\* addDevice or removeDevice alone, or enters one of them on the record's evidence.
Steady ==
  /\ UNCHANGED <<present, m_numberOfDevices>> /\ (listening' => listening) /\ clash' = clash
  /\ \A t \in Threads :
       \/ pc'[t] = pc[t] /\ (Inside(t) => target'[t] = target[t])
       \/ /\ ~Inside(t) /\ pc'[t] # "rmClear"
          /\ Inside(t)' => (present[target'[t]] <=> pc'[t] # "addSet")

LEMMA SteadyKeepsCount ==
  ASSUME Counted, Steady
  PROVE  Counted'
<1>1. ASSUME NEW t \in Threads
      PROVE  /\ pc'[t] = "rmClear" <=> pc[t] = "rmClear"
             /\ pc[t] = "rmClear" => target'[t] = target[t]
  BY DEF Steady, Inside
<1>2. Leaving' = Leaving /\ InTable' = InTable
  BY <1>1 DEF Leaving, InTable, Steady
<1>3. ASSUME NEW t \in Threads, listening', ~clash', Inside(t)'
      PROVE  present'[target'[t]] <=> pc'[t] # "addSet"
  BY <1>3 DEF Steady, Counted, Inside
<1> QED
  BY <1>1, <1>2, <1>3 DEF Counted, Steady

\* The steps of addDevice and removeDevice, on a record that no other thread is at.
LEMMA TableStepsKeepCount ==
  ASSUME ConstantsAssumption, ThreadsOK, Located, TableOK, Counted, NEW t \in Threads,
         AddDevice(t) \/ RemoveStep(t)
  PROVE  Counted'
<1> DEFINE d == target[t]
           Rest == InTable \ Leaving
<1>1. SUFFICES ASSUME listening', ~clash'
               PROVE  /\ m_numberOfDevices' = Cardinality(InTable' \ Leaving')
                      /\ \A u \in Threads :
                           Inside(u)' => (present'[target'[u]] <=> pc'[u] # "addSet")
                      /\ \A u, v \in Threads :
                           pc'[u] = "rmClear" /\ pc'[v] = "rmClear" /\ target'[u] = target'[v]
                             => u = v
  BY DEF Counted
<1>2. /\ d \in Devices /\ Inside(t) /\ listening /\ ~clash
      /\ \A u \in Threads \ {t} : Inside(u) => target[u] # d
  <2>1. Inside(t)
    BY DEF AddDevice, RemoveStep, RemoveCount, RemoveClear, Step, Inside
  <2>2. listening
    BY <1>1 DEF AddDevice, RemoveStep, RemoveCount, RemoveClear, linkVars
  <2>3. Meets(t, d)
    BY DEF AddDevice, RemoveStep, RemoveCount, RemoveClear
  <2> QED
    BY <1>1, <2>1, <2>2, <2>3, Zenon DEF Meets, ThreadsOK
<1>3. /\ IsFiniteSet(Rest) /\ m_numberOfDevices = Cardinality(Rest)
      /\ \A u \in Threads : Inside(u) => (present[target[u]] <=> pc[u] # "addSet")
      /\ \A u, v \in Threads :
           pc[u] = "rmClear" /\ pc[v] = "rmClear" /\ target[u] = target[v] => u = v
  <2>1. Rest \in SUBSET Devices
    BY DEF InTable
  <2> QED
    BY <1>2, <2>1, FS_Subset DEF Counted, ConstantsAssumption
<1>4. /\ \A u \in Threads \ {t} : pc'[u] = pc[u] /\ target'[u] = target[u]
      /\ \A e \in Devices \ {d} : present'[e] = present[e]
  BY DEF AddDevice, RemoveStep, RemoveCount, RemoveClear, Step, Aim, Located, ThreadsOK, TableOK
<1>5. \A e \in Devices \ {d} :
      (e \in Leaving' <=> e \in Leaving) /\ (e \in InTable' <=> e \in InTable)
  <2>1. ASSUME NEW e \in Devices \ {d}, NEW u \in Threads
        PROVE  pc'[u] = "rmClear" /\ target'[u] = e <=> pc[u] = "rmClear" /\ target[u] = e
    <3>1. CASE u = t
      BY <3>1 DEF AddDevice, RemoveStep, RemoveCount, RemoveClear, Step, Aim, Located, ThreadsOK,
                  AfterAdd, AfterRemove
    <3> QED
      BY <1>4, <3>1
  <2> QED
    BY <1>4, <2>1 DEF Leaving, InTable
<1>6. CASE AddDevice(t)
  <2>1. pc[t] = "addSet" /\ pc'[t] \notin {"addSet", "rmCount", "rmClear"} /\ present'[d] = TRUE
    BY <1>2, <1>6 DEF AddDevice, Step, AfterAdd, Located, TableOK
  <2>2. m_numberOfDevices' = m_numberOfDevices + 1
    BY <1>6 DEF AddDevice
  <2>3. d \notin InTable /\ d \in InTable' /\ d \notin Leaving'
    BY <1>2, <1>3, <1>4, <2>1 DEF InTable, Leaving, Inside
  <2>4. InTable' \ Leaving' = Rest \cup {d} /\ d \notin Rest
    BY <1>2, <1>5, <2>3 DEF InTable
  <2>5. Cardinality(InTable' \ Leaving') = Cardinality(Rest) + 1
    BY <1>3, <2>4, FS_AddElement
  <2> HIDE DEF d, Rest
  <2> QED
    BY <1>2, <1>3, <1>4, <2>1, <2>2, <2>5 DEF ThreadsOK, Inside
<1>7. CASE RemoveCount(t)
  <2>1. /\ pc[t] = "rmCount" /\ pc'[t] = "rmClear" /\ target'[t] = d
        /\ present' = present /\ m_numberOfDevices' = m_numberOfDevices - 1
    BY <1>7 DEF RemoveCount, Step, Located
  <2>2. d \in InTable /\ d \notin Leaving /\ d \in Leaving'
    BY <1>2, <1>3, <2>1 DEF InTable, Leaving, Inside
  <2>3. InTable' \ Leaving' = Rest \ {d} /\ d \in Rest
    BY <1>2, <1>5, <2>2 DEF InTable
  <2> HIDE DEF d, Rest
  <2>4. Cardinality(Rest \ {d}) = Cardinality(Rest) - 1
    <3>1. IsFiniteSet(Rest)
      BY <1>3
    <3> QED
      BY <2>3, <3>1, FS_RemoveElement
  <2>5. m_numberOfDevices' = Cardinality(InTable' \ Leaving')
    <3>1. m_numberOfDevices = Cardinality(Rest)
      BY <1>3
    <3>2. InTable' \ Leaving' = Rest \ {d}
      BY <2>3
    <3> QED
      BY <2>1, <2>4, <3>1, <3>2
  <2>6. ASSUME NEW u \in Threads, Inside(u)'
        PROVE  present'[target'[u]] <=> pc'[u] # "addSet"
    <3>1. CASE u = t
      <4>1. present[target[t]] <=> pc[t] # "addSet"
        BY <1>2, <1>3
      <4> QED
        BY <2>1, <3>1, <4>1 DEF d
    <3>2. CASE u # t
      <4>1. pc'[u] = pc[u] /\ target'[u] = target[u] /\ Inside(u)
        BY <1>4, <2>6, <3>2 DEF Inside
      <4> QED
        BY <1>3, <2>1, <4>1
    <3> QED
      BY <3>1, <3>2
  <2>7. ASSUME NEW u \in Threads \ {t}, pc'[u] = "rmClear"
        PROVE  target'[u] # d
    <3>1. Inside(u) /\ target'[u] = target[u]
      BY <1>4, <2>7 DEF Inside
    <3> QED
      BY <1>2, <3>1
  <2>8. ASSUME NEW u \in Threads, NEW v \in Threads,
               pc'[u] = "rmClear", pc'[v] = "rmClear", target'[u] = target'[v]
        PROVE  u = v
    <3>1. CASE u = t \/ v = t
      BY <2>1, <2>7, <2>8, <3>1
    <3>2. CASE u # t /\ v # t
      BY <1>3, <1>4, <2>8, <3>2
    <3> QED
      BY <3>1, <3>2
  <2> QED
    BY <2>5, <2>6, <2>8
<1>8. CASE RemoveClear(t)
  <2>1. /\ pc[t] = "rmClear" /\ pc'[t] \notin {"addSet", "rmCount", "rmClear"}
        /\ present'[d] = FALSE /\ m_numberOfDevices' = m_numberOfDevices
    BY <1>2, <1>8 DEF RemoveClear, Step, AfterRemove, Located, TableOK
  <2>2. d \in Leaving /\ d \notin InTable'
    BY <1>2, <2>1 DEF Leaving, InTable
  <2>3. InTable' \ Leaving' = Rest
    BY <1>2, <1>5, <2>2 DEF InTable
  <2> HIDE DEF d, Rest
  <2>4. ASSUME NEW u \in Threads, Inside(u)'
        PROVE  present'[target'[u]] <=> pc'[u] # "addSet"
    <3>1. u # t /\ Inside(u)
      BY <1>4, <2>1, <2>4 DEF Inside
    <3>2. target[u] \in Devices \ {d}
      BY <1>2, <3>1 DEF ThreadsOK
    <3> QED
      BY <1>3, <1>4, <3>1, <3>2
  <2>5. ASSUME NEW u \in Threads, pc'[u] = "rmClear"
        PROVE  u # t /\ pc[u] = "rmClear" /\ target'[u] = target[u]
    BY <1>4, <2>1, <2>5
  <2>6. ASSUME NEW u \in Threads, NEW v \in Threads,
               pc'[u] = "rmClear", pc'[v] = "rmClear", target'[u] = target'[v]
        PROVE  u = v
    BY <1>3, <2>5, <2>6
  <2>7. m_numberOfDevices' = Cardinality(InTable' \ Leaving')
    BY <1>3, <2>1, <2>3
  <2> QED
    BY <2>4, <2>6, <2>7
<1> QED
  BY <1>6, <1>7, <1>8 DEF RemoveStep

LEMMA EntersSteady ==
  ASSUME ThreadsOK, Located, NEW t \in Threads, NEW d \in Devices, NEW from,
         from \notin {"addSet", "rmCount", "rmClear"},
         AddCheck(t, d, from) \/ RemoveCheck(t, d, from),
         UNCHANGED <<tableVars, linkVars, clash>>
  PROVE  Steady
<1> USE DEF ThreadsOK, Located, Inside, Step, Aim, tableVars, linkVars
<1>1. /\ pc[t] = from /\ pc'[t] \in {"addSet", "rmCount", AfterAdd(t), AfterRemove(t)}
      /\ pc'[t] = "addSet" => ~present[d] /\ target'[t] = d
      /\ pc'[t] = "rmCount" => present[d] /\ target'[t] = d
  BY DEF AddCheck, RemoveCheck, AfterAdd, AfterRemove
<1>2. \A u \in Threads \ {t} : pc'[u] = pc[u] /\ target'[u] = target[u]
  BY DEF AddCheck, RemoveCheck
<1> QED
  BY <1>1, <1>2 DEF Steady, AfterAdd, AfterRemove

\* RemoveCheck and AddCheck are the only ways into removeDevice and addDevice.
LEMMA OthersSteady ==
  ASSUME ConstantsAssumption, ThreadsOK, Located, TableOK, StatesOK,
         \/ Environment \/ CecStep \/ HotPlugPings \/ Enabled \/ TimePasses \/ UNCHANGED vars
         \/ PollStep /\ ~PollAllocate,
         ~\E t \in Threads : AddDevice(t) \/ RemoveStep(t), Session
  PROVE  Steady
<1>1. ASSUME NEW d \in Devices, CableOut(d), portOwned[d]
      PROVE  Steady
  <2>1. RemoveCheck("hpd", d, "idle") /\ UNCHANGED <<tableVars, linkVars, clash>>
    BY <1>1 DEF CableOut, history
  <2> QED
    BY <2>1, EntersSteady DEF Threads
<1>2. CASE HandlerAddCheck
  <2> DEFINE d == target["cec"]
  <2>1. AddCheck("cec", d, "addCheck") /\ d \in Devices /\ UNCHANGED <<tableVars, linkVars, clash>>
    BY <1>2 DEF HandlerAddCheck, AddCheck, history, Located
  <2> HIDE DEF d
  <2> QED
    BY <2>1, EntersSteady DEF Threads
<1>3. CASE PollRemoves
  <2>1. disconnected # {} /\ disconnected \in SUBSET Devices
    BY <1>3 DEF PollRemoves, StatesOK
  <2> DEFINE d == Min(disconnected)
  <2>2. d \in Devices
    BY <2>1, MinDevice
  <2>3. /\ RemoveCheck("poll", d, "remove")
        /\ UNCHANGED <<tableVars, linkVars, clash>>
    BY <1>3 DEF PollRemoves, history
  <2> HIDE DEF d
  <2> QED
    BY <2>2, <2>3, EntersSteady DEF Threads
<1>4. CASE PollAdds
  <2>1. connected # {} /\ connected \in SUBSET Devices
    BY <1>4 DEF PollAdds, StatesOK
  <2> DEFINE d == Min(connected)
  <2>2. d \in Devices
    BY <2>1, MinDevice
  <2>3. AddCheck("poll", d, "add") /\ UNCHANGED <<tableVars, linkVars, clash>>
    BY <1>4 DEF PollAdds, history
  <2> HIDE DEF d
  <2> QED
    BY <2>2, <2>3, EntersSteady DEF Threads
<1> USE DEF Steady, ThreadsOK, Located, Inside, Step, Aim, Threads, Labels, tableVars,
            linkVars, history
<1>5. CASE Environment
  <2>1. ASSUME NEW d \in Devices, CableOut(d), ~portOwned[d]
        PROVE  Steady
    BY <2>1 DEF CableOut
  <2>2. ASSUME NEW d \in Devices, ReceiveFrom(d)
        PROVE  Steady
    BY <2>2 DEF ReceiveFrom, Receive
  <2>3. ASSUME NEW d \in Devices, CableIn(d) \/ Appears(d)
        PROVE  Steady
    BY <2>3 DEF CableIn, Appears
  <2>4. CASE PowerPings
    BY <2>4 DEF PowerPings, AsksFor
  <2>5. CASE CECEnable
    <3>1. /\ UNCHANGED <<present, m_numberOfDevices, listening, clash, target>>
          /\ pc'["poll"] = "top" /\ pc'["api"] = "started" /\ pc["api"] = "idle"
          /\ pc["poll"] = "none"
          /\ pc'["cec"] = pc["cec"] /\ pc'["hpd"] = pc["hpd"]
      BY <2>5 DEF CECEnable, Session, IsOff
    <3> QED
      BY <3>1
  <2>6. CASE CECDisable
    BY <2>6 DEF CECDisable
  <2> QED
    BY <1>1, <1>5, <2>1, <2>2, <2>3, <2>4, <2>5, <2>6 DEF Environment
<1>6. CASE HandlerTells \/ HandlerChains \/ HandlerAborts
  BY <1>6 DEF HandlerTells, HandlerChains, HandlerAborts, HandlerEnds
<1>7. CASE PollBeginsPing \/ PingDevice \/ PollPinged \/ PollRemoved \/ PollAdded
  BY <1>7 DEF PollBeginsPing, PingDevice, PollPinged, PollRemoved, PollAdded
<1>8. CASE \/ PollTop \/ PollForget \/ PollRequests \/ PollAsksStatus \/ RequestElapsed
           \/ PollUpdates \/ PollIdles \/ PollEnds
  BY <1>8 DEF PollTop, PollForget, PollRequests, PollAsksStatus, RequestElapsed, PollUpdates,
              PollIdles, PollEnds
<1>9. CASE HotPlugPings \/ Enabled \/ TimePasses \/ UNCHANGED vars
  BY <1>9 DEF HotPlugPings, AsksFor, Enabled, TimePasses, vars
<1> QED
  BY <1>2, <1>3, <1>4, <1>5, <1>6, <1>7, <1>8, <1>9 DEF PollStep, PollPings, CecStep, Threads

\* POLL begins the count anew; until then, and once CEC is off, there is none.
LEMMA CountedStep ==
  ASSUME ConstantsAssumption, TypeOK, Located, CountInv, [Next]_vars
  PROVE  Counted'
<1> USE DEF TypeOK, CountInv
<1>1. ASSUME NEW t \in Threads, AddDevice(t) \/ RemoveStep(t)
      PROVE  Counted'
  BY <1>1, TableStepsKeepCount
<1>2. CASE PollAllocate
  <2>1. SUFFICES ASSUME listening', ~clash'
                 PROVE  Counted'
    BY DEF Counted
  <2>2. \A t \in Threads : pc'[t] \notin {"addSet", "rmCount", "rmClear"}
    <3>1. CASE allocated'
      <4>1. \A t \in Threads : ~Inside(t)
        BY <1>2, <2>1, <3>1 DEF PollAllocate
      <4> QED
        BY <1>2, <4>1 DEF PollAllocate, Step, Located, Inside
    <3>2. CASE ~allocated'
      BY <1>2, <2>1, <3>2 DEF PollAllocate, Session
    <3> QED
      BY <3>1, <3>2
  <2>3. m_numberOfDevices' = 0 /\ ~clash /\ m_pollThreadState = "POLL" /\ present' = present
    BY <1>2, <2>1 DEF PollAllocate, Session
  <2>4. InTable' \ Leaving' = {}
    BY <2>3 DEF InTable, Waiting
  <2> QED
    BY <2>2, <2>3, <2>4, FS_EmptySet DEF Counted, Inside
<1>3. CASE DisableStep
  <2>1. ~listening'
    BY <1>3 DEF DisableStep, DisableJoins, DisableClears, Session, Step, linkVars
  <2> QED
    BY <2>1 DEF Counted
<1>4. CASE /\ \/ Environment \/ CecStep \/ HotPlugPings \/ Enabled \/ TimePasses
              \/ UNCHANGED vars \/ (PollStep /\ ~PollAllocate)
           /\ ~\E t \in Threads : AddDevice(t) \/ RemoveStep(t)
  BY <1>4, OthersSteady, SteadyKeepsCount
<1> QED
  BY <1>1, <1>2, <1>3, <1>4 DEF Next, HpdStep, Threads

\* Without a listener, and before the poll thread is in PING, nobody gets to an addition.
LEMMA OthersWait ==
  ASSUME ThreadsOK, Located, StatesOK, Session,
         \/ Environment \/ CecStep \/ HotPlugPings \/ Enabled \/ TimePasses \/ UNCHANGED vars
         \/ PollStep /\ ~PollAllocate,
         ~\E t \in Threads : AddDevice(t) \/ RemoveStep(t)
  PROVE  /\ (IsOff \/ m_pollThreadState = "POLL")' => IsOff \/ m_pollThreadState = "POLL"
         /\ listening' = listening
         /\ ~listening /\ pc["cec"] = "idle" => pc'["cec"] = "idle"
         /\ pc["poll"] \in {"none", "top", "run", "ended"} => pc'["poll"] # "addSet"
<1> DEFINE Goal ==
      /\ (IsOff \/ m_pollThreadState = "POLL")' => IsOff \/ m_pollThreadState = "POLL"
      /\ listening' = listening
      /\ ~listening /\ pc["cec"] = "idle" => pc'["cec"] = "idle"
      /\ pc["poll"] \in {"none", "top", "run", "ended"} => pc'["poll"] # "addSet"
<1> SUFFICES Goal
  OBVIOUS
<1> USE DEF ThreadsOK, Located, StatesOK, Session, IsOff, Threads, Step, linkVars, stateVars
<1>1. CASE Environment
  <2>1. ASSUME NEW d \in Devices, ReceiveFrom(d)
        PROVE  Goal
    BY <2>1 DEF ReceiveFrom, Receive
  <2>2. ASSUME NEW d \in Devices, CableOut(d) \/ CableIn(d) \/ Appears(d)
        PROVE  Goal
    BY <2>2 DEF CableOut, RemoveCheck, CableIn, Appears
  <2>3. CASE PowerPings \/ CECDisable
    BY <2>3 DEF PowerPings, CECDisable
  <2>4. CASE CECEnable
    BY <2>4 DEF CECEnable
  <2> QED
    BY <1>1, <2>1, <2>2, <2>3, <2>4 DEF Environment
<1>2. CASE PollPings
  BY <1>2 DEF PollPings, PollBeginsPing, PingDevice, PollPinged, PollRemoves, RemoveCheck,
              AfterRemove, PollRemoved, PollAdds, AddCheck, PollAdded
<1>3. CASE \/ PollTop \/ PollForget \/ PollRequests \/ PollAsksStatus \/ RequestElapsed
           \/ PollUpdates \/ PollIdles \/ PollEnds
  BY <1>3 DEF PollTop, PollForget, PollRequests, PollAsksStatus, RequestElapsed, PollUpdates,
              PollIdles, PollEnds
<1>4. CASE HandlerAddCheck \/ HandlerTells \/ HandlerChains \/ HandlerAborts
  BY <1>4 DEF HandlerAddCheck, AddCheck, HandlerTells, HandlerChains, HandlerAborts, HandlerEnds
<1>5. CASE TimePasses \/ HotPlugPings \/ Enabled \/ UNCHANGED vars
  BY <1>5 DEF TimePasses, HotPlugPings, Enabled, vars
<1> QED
  BY <1>1, <1>2, <1>3, <1>4, <1>5 DEF PollStep, CecStep

LEMMA WaitingStep ==
  ASSUME ConstantsAssumption, TypeOK, Located, CountInv, [Next]_vars
  PROVE  Waiting'
<1>0. \A t \in Threads : Inside(t) => t # "api" /\ (t = "cec" => pc["cec"] # "idle")
  BY InsideWhom DEF TypeOK
<1>5. ThreadsOK'
  BY ThreadsStep DEF TypeOK
<1> USE DEF TypeOK, ThreadsOK, Located, CountInv, Session, Waiting, IsOff, Threads, Step,
            linkVars, stateVars, history
<1>1. ASSUME NEW t \in Threads, AddDevice(t) \/ RemoveStep(t)
      PROVE  Waiting'
  <2>1. /\ Inside(t) /\ (~clash' => ~clash)
        /\ UNCHANGED <<listening, m_pollThreadState, cecEnableStatus>>
        /\ \A u \in Threads \ {t} : pc'[u] = pc[u]
        /\ t # "api" /\ (t = "cec" => pc["cec"] # "idle")
    <3>1. Meets(t, target[t])
      BY <1>1 DEF AddDevice, RemoveStep, RemoveCount, RemoveClear
    <3>2. ~clash' => ~clash
      BY <3>1, Zenon DEF Meets
    <3> QED
      BY <1>0, <1>1, <3>2 DEF AddDevice, RemoveStep, RemoveCount, RemoveClear, Inside
  <2> QED
    BY <2>1
<1>2. CASE PollAllocate
  BY <1>2 DEF PollAllocate
<1>3. CASE DisableStep
  BY <1>3 DEF DisableStep, DisableJoins, DisableClears, Inside
<1>4. CASE /\ \/ Environment \/ CecStep \/ HotPlugPings \/ Enabled \/ TimePasses
              \/ UNCHANGED vars \/ (PollStep /\ ~PollAllocate)
           /\ ~\E t \in Threads : AddDevice(t) \/ RemoveStep(t)
  <2>1. Steady
    BY <1>4, OthersSteady
  <2>2. /\ IsOff' \/ m_pollThreadState' = "POLL" => IsOff \/ m_pollThreadState = "POLL"
        /\ listening' = listening
        /\ ~listening /\ pc["cec"] = "idle" => pc'["cec"] = "idle"
        /\ pc["poll"] \in {"none", "top", "run", "ended"} => pc'["poll"] # "addSet"
    BY <1>4, OthersWait
  <2>3. clash' = clash /\ present' = present
    BY <2>1 DEF Steady
  <2>4. ASSUME ~clash, IsOff \/ m_pollThreadState = "POLL", NEW t \in Threads
        PROVE  ~Inside(t)'
    <3>1. ~listening /\ pc["poll"] \in {"none", "top", "run", "ended"} /\ pc["cec"] = "idle"
      BY <2>4
    <3>2. pc'[t] # "addSet"
      BY <2>2, <3>1, <1>5 DEF HpdLabels, ApiLabels
    <3>3. ASSUME Inside(t)'
          PROVE  target'[t] \in Devices /\ ~present[target'[t]]
      BY <2>4, <3>3, <1>5
    <3>4. ~Inside(t)
      BY <2>4
    <3>5. \/ pc'[t] = pc[t]
          \/ Inside(t)' => (present[target'[t]] <=> pc'[t] # "addSet")
      BY <2>1 DEF Steady
    <3>6. pc'[t] = pc[t] => ~Inside(t)'
      BY <3>4 DEF Inside
    <3> QED
      BY <3>2, <3>3, <3>5, <3>6
  <2> QED
    BY <2>2, <2>3, <2>4
<1> QED
  BY <1>1, <1>2, <1>3, <1>4 DEF Next, HpdStep

LEMMA CountInit == Init => CountInv
<1> SUFFICES ASSUME Init
             PROVE  CountInv
  OBVIOUS
<1>1. Session
  BY DEF Init, Session, IsOff, Threads
<1>2. Waiting
  BY DEF Init, Waiting, Threads, Inside
<1>3. Counted
  BY DEF Init, Counted
<1> QED
  BY <1>1, <1>2, <1>3 DEF CountInv

\* While CEC is on and no two threads have met over a record, m_numberOfDevices is the
\* number of devices in the table (addDevice, removeDevice, threadRun, CECDisable).
THEOREM DevicesCountExact == Spec => []CountExact
<1>1. TypeOK /\ Located /\ CountInv /\ [Next]_vars => CountInv'
  <2> SUFFICES ASSUME TypeOK, Located, CountInv, [Next]_vars
               PROVE  CountInv'
    OBVIOUS
  <2>1. Session'
    BY SessionStep DEF TypeOK, CountInv
  <2> QED
    BY <2>1, ConstantsAssumption, WaitingStep, CountedStep DEF CountInv
<1>2. CountInv => CountExact
  <2> SUFFICES ASSUME CountInv, listening, ~clash, ~(\E t \in Threads : Inside(t))
               PROVE  m_numberOfDevices = NumberPresent
    BY DEF CountExact
  <2>1. Leaving = {}
    BY DEF Leaving, Inside
  <2>2. InTable \ Leaving = {d \in Devices : present[d]}
    BY <2>1 DEF InTable
  <2> QED
    BY <2>2 DEF CountInv, Counted, NumberPresent
<1> QED
  BY <1>1, <1>2, CountInit, TypesAlways, PTL DEF Spec
-------------------------------------------------------------------------------
(* The table and the bus.                                                  *)

\* What a thread is about to do to the table, the device it does it to has given
\* it reason for.
Grounded(t) ==
  /\ pc[t] \in {"addCheck", "addSet"} => TRUE \in lately[t][target[t]]
  /\ pc[t] \in {"rmCount", "rmClear"} => FALSE \in lately[t][target[t]]

\* What threadRun has listed in a pass was so in the pass, and nothing is left of
\* it when the pass is over.
Listed ==
  /\ \A d \in connected : TRUE \in lately["poll"][d]
  /\ \A d \in disconnected : FALSE \in lately["poll"][d]
  /\ pc["poll"] \in {"add", "addSet"} \cup RestLabels => disconnected = {}
  /\ pc["poll"] \in RestLabels => connected = {}

PresenceInv == (\A t \in Workers : Grounded(t)) /\ Listed

\* A thread at work keeps what it has seen, and all see the bus as it is now.
LEMMA WatchKeeps ==
  ASSUME Watch, NEW t \in Workers, NEW d \in Devices
  PROVE  /\ attached'[d] \in lately'[t][d]
         /\ pc[t] \notin RestLabels => lately[t][d] \subseteq lately'[t][d]
BY DEF Watch

\* A thread that stays where it is stays grounded, and so does one that does not
\* enter addDevice or removeDevice.
LEMMA StaysGrounded ==
  ASSUME ThreadsOK, Located, Watch, NEW t \in Workers, Grounded(t),
         \/ pc'[t] = pc[t] /\ target'[t] = target[t]
         \/ pc'[t] \notin {"addCheck", "addSet", "rmCount", "rmClear"}
  PROVE  Grounded(t)'
<1>1. CASE pc'[t] \notin {"addCheck", "addSet", "rmCount", "rmClear"}
  BY <1>1 DEF Grounded
<1>2. CASE /\ pc'[t] = pc[t] /\ target'[t] = target[t]
           /\ pc[t] \in {"addCheck", "addSet", "rmCount", "rmClear"}
  <2>1. target[t] \in Devices
    BY <1>2 DEF ThreadsOK, Located, Inside, Workers, Threads, PollLabels, HpdLabels
  <2>2. lately[t][target[t]] \subseteq lately'[t][target[t]]
    BY <1>2, <2>1, WatchKeeps DEF RestLabels
  <2> QED
    BY <1>2, <2>2 DEF Grounded
<1> QED
  BY <1>1, <1>2

\* The lists of a pass grow by what has just been pinged, and shrink.
LEMMA StaysListed ==
  ASSUME StatesOK, Watch, Listed,
         connected' \subseteq connected, disconnected' \subseteq disconnected,
         pc'["poll"] \in {"add", "addSet"} \cup RestLabels => disconnected' = {},
         pc'["poll"] \in RestLabels => connected' = {}
  PROVE  Listed'
<1>1. ASSUME NEW d \in connected'
      PROVE  TRUE \in lately'["poll"][d]
  <2>1. d \in connected /\ d \in Devices /\ pc["poll"] \notin RestLabels
    BY <1>1 DEF StatesOK, Listed
  <2> QED
    BY <2>1, WatchKeeps DEF Listed, Workers
<1>2. ASSUME NEW d \in disconnected'
      PROVE  FALSE \in lately'["poll"][d]
  <2>1. d \in disconnected /\ d \in Devices /\ pc["poll"] \notin RestLabels
    BY <1>2 DEF StatesOK, Listed
  <2> QED
    BY <2>1, WatchKeeps DEF Listed, Workers
<1> QED
  BY <1>1, <1>2 DEF Listed

\* addDevice and removeDevice, once entered, by a thread that may enter them.
LEMMA TableStepsGrounded ==
  ASSUME ThreadsOK, Located, StatesOK, Watch, PresenceInv, NEW t \in Workers,
         AddDevice(t) \/ RemoveStep(t)
  PROVE  PresenceInv'
<1> USE DEF Step, Aim, Located, ThreadsOK
<1>1. /\ \A u \in Threads \ {t} : pc'[u] = pc[u] /\ target'[u] = target[u]
      /\ UNCHANGED <<connected, disconnected>>
  BY DEF AddDevice, RemoveStep, RemoveCount, RemoveClear, pollVars
<1>2. CASE RemoveCount(t)
  <2>1. /\ pc[t] = "rmCount" /\ pc'[t] = "rmClear" /\ target'[t] = target[t]
        /\ target[t] \in Devices
    BY <1>2 DEF RemoveCount, Inside, Workers, Threads
  <2>2. FALSE \in lately'[t][target'[t]]
    BY <2>1, WatchKeeps DEF PresenceInv, Grounded, RestLabels
  <2>3. \A u \in Workers : Grounded(u)'
    BY <1>1, <2>1, <2>2, StaysGrounded DEF PresenceInv, Grounded, Workers, Threads
  <2>4. Listed'
    BY <1>1, <2>1, StaysListed DEF PresenceInv, Listed, RestLabels, Workers, Threads
  <2> QED
    BY <2>3, <2>4 DEF PresenceInv
<1>3. CASE AddDevice(t) \/ RemoveClear(t)
  <2>1. /\ pc[t] \in {"addSet", "rmClear"} /\ pc'[t] \in {AfterAdd(t), AfterRemove(t)}
        /\ pc[t] = "addSet" => pc'[t] = AfterAdd(t)
        /\ pc[t] = "rmClear" => pc'[t] = AfterRemove(t)
    BY <1>3 DEF AddDevice, RemoveClear, Workers, Threads
  <2>2. pc'[t] \notin {"addCheck", "addSet", "rmCount", "rmClear"}
    BY <2>1 DEF AfterAdd, AfterRemove
  <2>3. \A u \in Workers : Grounded(u)'
    BY <1>1, <2>2, StaysGrounded DEF PresenceInv, Workers, Threads
  <2>4. Listed'
    BY <1>1, <2>1, StaysListed
    DEF PresenceInv, Listed, RestLabels, AfterAdd, AfterRemove, Workers, Threads
  <2> QED
    BY <2>3, <2>4 DEF PresenceInv
<1> QED
  BY <1>2, <1>3 DEF RemoveStep

\* The entrances: a frame, a cable that is pulled, and the lists of a pass.
LEMMA EntersGrounded ==
  ASSUME ConstantsAssumption, ThreadsOK, Located, StatesOK, Watch, PresenceInv,
         attached \in [Devices -> BOOLEAN],
         \/ PollRemoves \/ PollAdds \/ HandlerAddCheck
         \/ \E d \in Devices : ReceiveFrom(d) \/ CableOut(d)
  PROVE  PresenceInv'
<1> USE DEF Step, Aim, Located, ThreadsOK
<1>1. CASE PollRemoves
  <2> DEFINE d == Min(disconnected)
  <2>1. /\ disconnected # {} /\ RemoveCheck("poll", d, "remove")
        /\ disconnected' = disconnected \ {d} /\ connected' = connected
    BY <1>1 DEF PollRemoves
  <2>2. d \in disconnected /\ d \in Devices
    BY <2>1, MinDevice DEF StatesOK
  <2> HIDE DEF d
  <2>3. /\ pc["poll"] = "remove" /\ pc'["poll"] \in {"remove", "rmCount"}
        /\ pc'["poll"] = "rmCount" => target'["poll"] = d
        /\ \A u \in Threads \ {"poll"} : pc'[u] = pc[u] /\ target'[u] = target[u]
    BY <2>1 DEF RemoveCheck, AfterRemove, Threads
  <2>4. FALSE \in lately'["poll"][d]
    BY <2>2, <2>3, WatchKeeps DEF PresenceInv, Listed, RestLabels, Workers
  <2>5. Grounded("poll")'
    BY <2>3, <2>4 DEF Grounded
  <2>6. Listed'
    BY <2>1, <2>3, StaysListed DEF PresenceInv, RestLabels
  <2> QED
    BY <2>3, <2>5, <2>6, StaysGrounded DEF PresenceInv, Workers, Threads
<1>2. CASE PollAdds
  <2> DEFINE d == Min(connected)
  <2>1. /\ connected # {} /\ AddCheck("poll", d, "add")
        /\ connected' = connected \ {d} /\ disconnected' = disconnected
    BY <1>2 DEF PollAdds
  <2>2. d \in connected /\ d \in Devices
    BY <2>1, MinDevice DEF StatesOK
  <2> HIDE DEF d
  <2>3. /\ pc["poll"] = "add" /\ pc'["poll"] \in {"add", "addSet"}
        /\ pc'["poll"] = "addSet" => target'["poll"] = d
        /\ \A u \in Threads \ {"poll"} : pc'[u] = pc[u] /\ target'[u] = target[u]
    BY <2>1 DEF AddCheck, AfterAdd, Threads
  <2>4. TRUE \in lately'["poll"][d]
    BY <2>2, <2>3, WatchKeeps DEF PresenceInv, Listed, RestLabels, Workers
  <2>5. Grounded("poll")'
    BY <2>3, <2>4 DEF Grounded
  <2>6. Listed'
    BY <2>1, <2>3, StaysListed DEF PresenceInv, Listed, RestLabels
  <2> QED
    BY <2>3, <2>5, <2>6, StaysGrounded DEF PresenceInv, Workers, Threads
<1>3. CASE HandlerAddCheck
  <2> DEFINE d == target["cec"]
  <2>1. AddCheck("cec", d, "addCheck") /\ UNCHANGED <<connected, disconnected>>
    BY <1>3 DEF HandlerAddCheck, pollVars
  <2>2. /\ pc["cec"] = "addCheck" /\ pc'["cec"] \in {"heard", "addSet"} /\ d \in Devices
        /\ target'["cec"] = d
        /\ \A u \in Threads \ {"cec"} : pc'[u] = pc[u] /\ target'[u] = target[u]
    BY <2>1 DEF AddCheck, AfterAdd, Threads
  <2> HIDE DEF d
  <2>3. TRUE \in lately'["cec"][d]
    <3>1. TRUE \in lately["cec"][d]
      BY <2>2 DEF PresenceInv, Grounded, Workers, d
    <3> QED
      BY <2>2, <3>1, WatchKeeps DEF RestLabels, Workers
  <2>4. Grounded("cec")'
    BY <2>2, <2>3 DEF Grounded
  <2>5. Listed'
    BY <2>1, <2>2, StaysListed DEF PresenceInv, Listed, Threads
  <2> QED
    BY <2>2, <2>4, <2>5, StaysGrounded DEF PresenceInv, Workers, Threads
<1>4. ASSUME NEW d \in Devices, ReceiveFrom(d)
      PROVE  PresenceInv'
  <2>1. /\ attached'[d] = TRUE /\ UNCHANGED <<connected, disconnected>>
        /\ pc'["cec"] \in {"addCheck", "abort"} /\ target'["cec"] = d
        /\ \A u \in Threads \ {"cec"} : pc'[u] = pc[u] /\ target'[u] = target[u]
    BY <1>4 DEF ReceiveFrom, Receive, pollVars, envVars, Threads
  <2>2. Grounded("cec")'
    BY <2>1, WatchKeeps DEF Grounded, Workers
  <2>3. Listed'
    BY <2>1, StaysListed DEF PresenceInv, Listed, Threads
  <2> QED
    BY <2>1, <2>2, <2>3, StaysGrounded DEF PresenceInv, Workers, Threads
<1>5. ASSUME NEW d \in Devices, CableOut(d)
      PROVE  PresenceInv'
  <2>1. /\ attached'[d] = FALSE /\ UNCHANGED <<connected, disconnected>>
        /\ pc'["hpd"] \in {"rmCount", "hpdPing"}
        /\ pc'["hpd"] = "rmCount" => target'["hpd"] = d
        /\ \A u \in Threads \ {"hpd"} : pc'[u] = pc[u] /\ target'[u] = target[u]
    BY <1>5 DEF CableOut, RemoveCheck, AfterRemove, pollVars, Threads
  <2>2. Grounded("hpd")'
    BY <2>1, WatchKeeps DEF Grounded, Workers
  <2>3. Listed'
    BY <2>1, StaysListed DEF PresenceInv, Listed, Threads
  <2> QED
    BY <2>1, <2>2, <2>3, StaysGrounded DEF PresenceInv, Workers, Threads
<1> QED
  BY <1>1, <1>2, <1>3, <1>4, <1>5

\* The bus is what hot plug and the devices themselves make of it.
LEMMA BusStep ==
  ASSUME attached \in [Devices -> BOOLEAN], [Next]_vars
  PROVE  attached' \in [Devices -> BOOLEAN]
<1>1. CASE Environment
  BY <1>1 DEF Environment, ReceiveFrom, Receive, CableOut, CableIn, Appears, PowerPings,
              CECEnable, CECDisable, envVars
<1>2. ASSUME NEW t \in Threads, AddDevice(t) \/ RemoveStep(t)
      PROVE  attached' = attached
  BY <1>2 DEF AddDevice, RemoveStep, RemoveCount, RemoveClear, envVars
<1>3. CASE PollPings
  BY <1>3 DEF PollPings, PollBeginsPing, PingDevice, PollPinged, PollRemoves, PollRemoved,
              PollAdds, PollAdded, envVars
<1>4. CASE \/ PollTop \/ PollForget \/ PollAllocate \/ PollRequests \/ PollAsksStatus
           \/ RequestElapsed \/ PollUpdates \/ PollIdles \/ PollEnds
  BY <1>4 DEF PollTop, PollForget, PollAllocate, PollRequests, PollAsksStatus, RequestElapsed,
              PollUpdates, PollIdles, PollEnds, envVars
<1>5. CASE HandlerAddCheck \/ HandlerTells \/ HandlerChains \/ HandlerAborts
  BY <1>5 DEF HandlerAddCheck, HandlerTells, HandlerChains, HandlerAborts, envVars
<1>6. CASE TimePasses \/ HotPlugPings \/ Enabled \/ DisableStep \/ UNCHANGED vars
  BY <1>6 DEF TimePasses, HotPlugPings, Enabled, DisableStep, DisableJoins, DisableClears,
              envVars, vars
<1> QED
  BY <1>1, <1>2, <1>3, <1>4, <1>5, <1>6 DEF Next, PollStep, CecStep, HpdStep, Threads

\* Every other step of a thread leads outside, and none but the poll thread's own
\* touches its lists.
LEMMA OthersGrounded ==
  ASSUME ConstantsAssumption, ThreadsOK, Located, StatesOK, Session, Watch, PresenceInv,
         attached \in [Devices -> BOOLEAN], [Next]_vars,
         ~\E t \in Workers : AddDevice(t) \/ RemoveStep(t),
         ~(PollRemoves \/ PollAdds \/ HandlerAddCheck),
         ~\E d \in Devices : ReceiveFrom(d) \/ CableOut(d)
  PROVE  PresenceInv'
<1> DEFINE Quiet(t) ==
      \/ pc'[t] = pc[t] /\ target'[t] = target[t]
      \/ pc'[t] \notin {"addCheck", "addSet", "rmCount", "rmClear"}
<1>1. CASE PingDevice
  <2> DEFINE d == Min(unpinged)
  <2>1. /\ unpinged # {} /\ unpinged \in SUBSET Devices /\ UNCHANGED <<pc, target, attached>>
        /\ pc["poll"] = "ping"
        /\ connected' = connected \cup {e \in {d} : attached[e] /\ ~present[e]}
        /\ disconnected' = disconnected \cup {e \in {d} : ~attached[e] /\ present[e]}
    BY <1>1 DEF PingDevice, StatesOK, envVars
  <2>2. d \in Devices
    BY <2>1, MinDevice
  <2> HIDE DEF d
  <2>3. ASSUME NEW e \in connected'
        PROVE  TRUE \in lately'["poll"][e]
    <3>1. CASE e \in connected
      BY <2>1, <3>1, WatchKeeps DEF PresenceInv, Listed, StatesOK, RestLabels, Workers
    <3>2. CASE e = d /\ attached[d]
      BY <2>1, <2>2, <3>2, WatchKeeps DEF Workers
    <3> QED
      BY <2>1, <2>3, <3>1, <3>2
  <2>4. ASSUME NEW e \in disconnected'
        PROVE  FALSE \in lately'["poll"][e]
    <3>1. CASE e \in disconnected
      BY <2>1, <3>1, WatchKeeps DEF PresenceInv, Listed, StatesOK, RestLabels, Workers
    <3>2. CASE e = d /\ ~attached[d]
      BY <2>1, <2>2, <3>2, WatchKeeps DEF Workers
    <3> QED
      BY <2>1, <2>4, <3>1, <3>2
  <2>5. Listed'
    BY <2>1, <2>3, <2>4 DEF Listed, RestLabels
  <2> QED
    BY <2>1, <2>5, StaysGrounded DEF PresenceInv
<1>2. ASSUME \A t \in Workers : Quiet(t), UNCHANGED <<connected, disconnected>>,
             pc'["poll"] \in {"add", "addSet"} \cup RestLabels => disconnected = {},
             pc'["poll"] \in RestLabels => connected = {}
      PROVE  PresenceInv'
  <2>1. Listed'
    BY <1>2, StaysListed DEF PresenceInv
  <2> QED
    BY <1>2, <2>1, StaysGrounded DEF PresenceInv
<1>3. CASE PollBeginsPing \/ PollPinged \/ PollRemoved \/ PollAdded
  <2>1. /\ UNCHANGED <<connected, disconnected, target>> /\ pc \in [Threads -> Labels]
        /\ \E l \in {"ping", "remove", "add", "top"} : pc' = [pc EXCEPT !["poll"] = l]
    BY <1>3 DEF PollBeginsPing, PollPinged, PollRemoved, PollAdded, Step, pollVars, Located
  <2>2. /\ pc'["poll"] = "add" => disconnected = {}
        /\ pc'["poll"] = "top" => disconnected = {} /\ connected = {}
    BY <1>3 DEF PollBeginsPing, PollPinged, PollRemoved, PollAdded, Step, Located, Threads,
                PresenceInv, Listed
  <2> QED
    BY <1>2, <2>1, <2>2 DEF Workers, Threads, RestLabels
<1>4. CASE \/ PollTop \/ PollForget \/ PollAllocate \/ PollRequests \/ PollAsksStatus
           \/ RequestElapsed \/ PollUpdates \/ PollIdles \/ PollEnds
  <2>1. /\ UNCHANGED <<connected, disconnected, target>> /\ pc["poll"] \in RestLabels
        /\ pc \in [Threads -> Labels]
        /\ \E l \in RestLabels : pc' = [pc EXCEPT !["poll"] = l]
    BY <1>4 DEF PollTop, PollForget, PollAllocate, PollRequests, PollAsksStatus, RequestElapsed,
                EndRequest, PollUpdates, PollIdles, PollEnds, Step, pollVars, Located, RestLabels
  <2> QED
    BY <1>2, <2>1 DEF Workers, Threads, RestLabels, PresenceInv, Listed
<1>5. CASE HandlerTells \/ HandlerChains \/ HandlerAborts \/ HotPlugPings
  <2>1. /\ UNCHANGED <<connected, disconnected>> /\ pc \in [Threads -> Labels]
        /\ \E t \in {"cec", "hpd"} :
             /\ pc'[t] \in {"chain", "idle"}
             /\ \A u \in Threads \ {t} : pc'[u] = pc[u] /\ target'[u] = target[u]
    BY <1>5 DEF HandlerTells, HandlerChains, HandlerAborts, HandlerEnds, HotPlugPings, Aim, Step,
                pollVars, Located, ThreadsOK, Threads
  <2> QED
    BY <1>2, <2>1 DEF Workers, Threads, PresenceInv, Listed
<1>6. CASE \E d \in Devices : CableIn(d) \/ Appears(d)
  <2>1. /\ UNCHANGED <<connected, disconnected, target>> /\ pc \in [Threads -> Labels]
        /\ pc' = pc \/ pc' = [pc EXCEPT !["hpd"] = "hpdPing"]
    BY <1>6 DEF CableIn, Appears, Step, pollVars, Located
  <2> QED
    BY <1>2, <2>1 DEF Workers, Threads, PresenceInv, Listed
<1>7. CASE PowerPings \/ CECDisable \/ TimePasses \/ Enabled \/ DisableStep \/ UNCHANGED vars
  <2> DEFINE Same ==
        /\ UNCHANGED <<connected, disconnected, target>>
        /\ pc'["cec"] = pc["cec"] /\ pc'["hpd"] = pc["hpd"]
        /\ \/ pc'["poll"] = pc["poll"]
           \/ pc["poll"] \in RestLabels /\ pc'["poll"] = "none"
  <2>1. ASSUME PowerPings \/ TimePasses \/ UNCHANGED vars
        PROVE  Same
    BY <2>1 DEF PowerPings, TimePasses, pollVars, vars
  <2>2. ASSUME CECDisable \/ Enabled \/ DisableClears
        PROVE  Same
    BY <2>2 DEF CECDisable, Enabled, DisableClears, Step, pollVars, Located, Threads
  <2>3. ASSUME DisableJoins
        PROVE  Same
    BY <2>3 DEF DisableJoins, Located, Threads, RestLabels
  <2>4. Same
    BY <1>7, <2>1, <2>2, <2>3 DEF DisableStep
  <2> QED
    BY <1>2, <2>4 DEF Workers, Threads, RestLabels, PresenceInv, Listed
<1>8. CASE CECEnable
  <2>1. /\ UNCHANGED <<connected, disconnected, target, pc["cec"], pc["hpd"]>>
        /\ pc["poll"] = "none" /\ pc'["poll"] = "top"
    BY <1>8 DEF CECEnable, Session, IsOff, pollVars, Located, Threads
  <2> QED
    BY <1>2, <2>1 DEF Workers, Threads, RestLabels, PresenceInv, Listed
<1> QED
  BY <1>1, <1>3, <1>4, <1>5, <1>6, <1>7, <1>8
  DEF Next, Environment, PollStep, PollPings, CecStep, HpdStep, Workers

LEMMA PresenceStart == PresenceInit => PresenceInv /\ attached \in [Devices -> BOOLEAN]
BY DEF PresenceInit, Init, PresenceInv, Grounded, Listed, Workers, Threads

LEMMA PresenceStep ==
  ASSUME TypeOK, Located, Session, PresenceInv, attached \in [Devices -> BOOLEAN],
         PresenceNext
  PROVE  PresenceInv'
<1>1. ThreadsOK /\ StatesOK /\ Watch /\ [Next]_vars
  BY DEF TypeOK, PresenceNext
<1>2. CASE \E t \in Workers : AddDevice(t) \/ RemoveStep(t)
  BY <1>1, <1>2, TableStepsGrounded
<1>3. CASE \/ PollRemoves \/ PollAdds \/ HandlerAddCheck
           \/ \E d \in Devices : ReceiveFrom(d) \/ CableOut(d)
  BY <1>1, <1>3, ConstantsAssumption, EntersGrounded
<1>4. CASE /\ ~\E t \in Workers : AddDevice(t) \/ RemoveStep(t)
           /\ ~(PollRemoves \/ PollAdds \/ HandlerAddCheck)
           /\ ~\E d \in Devices : ReceiveFrom(d) \/ CableOut(d)
  BY <1>1, <1>4, ConstantsAssumption, OthersGrounded
<1> QED
  BY <1>2, <1>3, <1>4

\* Only addDevice, removeDevice and CECDisable change who is in the table.
LEMMA WhoChangesTheTable ==
  ASSUME [Next]_vars, present' # present
  PROVE  DisableClears \/ \E t \in Workers : AddDevice(t) \/ RemoveClear(t)
<1>1. ASSUME NEW t \in Threads, RemoveCount(t)
      PROVE  FALSE
  BY <1>1 DEF RemoveCount
<1>2. ~Environment
  BY DEF Environment, ReceiveFrom, Receive, CableOut, CableIn, Appears, PowerPings, CECEnable,
         CECDisable, tableVars
<1>3. ~PollPings
  BY DEF PollPings, PollBeginsPing, PingDevice, PollPinged, PollRemoves, PollRemoved, PollAdds,
         PollAdded, tableVars
<1>4. ~(\/ PollTop \/ PollForget \/ PollAllocate \/ PollRequests \/ PollAsksStatus
        \/ RequestElapsed \/ PollUpdates \/ PollIdles \/ PollEnds)
  BY DEF PollTop, PollForget, PollAllocate, PollRequests, PollAsksStatus, RequestElapsed,
         PollUpdates, PollIdles, PollEnds, tableVars
<1>5. ~(HandlerAddCheck \/ HandlerTells \/ HandlerChains \/ HandlerAborts)
  BY DEF HandlerAddCheck, HandlerTells, HandlerChains, HandlerAborts, tableVars
<1>6. ~(TimePasses \/ HotPlugPings \/ Enabled \/ DisableJoins \/ UNCHANGED vars)
  BY DEF TimePasses, HotPlugPings, Enabled, DisableJoins, tableVars, vars
<1> QED
  BY <1>1, <1>2, <1>3, <1>4, <1>5, <1>6
  DEF Next, PollStep, CecStep, HpdStep, DisableStep, RemoveStep, Workers, Threads

LEMMA GroundedChanges ==
  ASSUME TypeOK, Located, PresenceInv, [Next]_vars, NEW d \in Devices,
         present'[d] # present[d]
  PROVE  \/ pc["api"] = "clear" /\ pc'["api"] = "idle"
         \/ \E t \in Workers : target[t] = d /\ present'[d] \in lately[t][d]
<1>1. CASE DisableClears
  BY <1>1 DEF DisableClears, Step, Located, Threads
<1>2. ASSUME NEW t \in Workers, AddDevice(t)
      PROVE  target[t] = d /\ present'[d] \in lately[t][d]
  <2>1. pc[t] = "addSet" /\ present' = [present EXCEPT ![target[t]] = TRUE]
    BY <1>2 DEF AddDevice, Step
  <2>2. target[t] = d /\ present'[d] = TRUE
    BY <2>1 DEF TypeOK, TableOK
  <2> QED
    BY <2>1, <2>2 DEF PresenceInv, Grounded
<1>3. ASSUME NEW t \in Workers, RemoveClear(t)
      PROVE  target[t] = d /\ present'[d] \in lately[t][d]
  <2>1. pc[t] = "rmClear" /\ present' = [present EXCEPT ![target[t]] = FALSE]
    BY <1>3 DEF RemoveClear, Step
  <2>2. target[t] = d /\ present'[d] = FALSE
    BY <2>1 DEF TypeOK, TableOK
  <2> QED
    BY <2>1, <2>2 DEF PresenceInv, Grounded
<1> QED
  BY <1>1, <1>2, <1>3, WhoChangesTheTable

\* A device comes into the table only if it was on the bus, and leaves it only if it
\* was not, at some moment since the thread that adds or removes it set to work
\* (threadRun, addDevice, removeDevice, the message handlers, onHdmiHotPlug).
THEOREM TableFollows == PresenceSpec => TableFollowsBus
<1> DEFINE Inv == /\ TypeOK /\ Located /\ Session /\ PresenceInv
                  /\ attached \in [Devices -> BOOLEAN]
           Change == \A d \in Devices : present'[d] # present[d] =>
                       \/ pc["api"] = "clear" /\ pc'["api"] = "idle"
                       \/ \E t \in Workers : target[t] = d /\ present'[d] \in lately[t][d]
<1>1. PresenceInit => Inv
  <2>1. Init => TypeOK /\ Located
    BY InitTypes
  <2> QED
    BY <2>1, CountInit, PresenceStart DEF PresenceInit, CountInv
<1>2. Inv /\ [PresenceNext]_presenceVars => Inv'
  <2> SUFFICES ASSUME Inv, [PresenceNext]_presenceVars
               PROVE  Inv'
    OBVIOUS
  <2>1. [Next]_vars
    BY DEF PresenceNext, presenceVars
  <2>2. TypeOK' /\ Located' /\ Session' /\ (attached \in [Devices -> BOOLEAN])'
    BY <2>1, TypesStep, SessionStep, BusStep DEF TypeOK
  <2>3. CASE PresenceNext
    BY <2>2, <2>3, PresenceStep
  <2>4. CASE UNCHANGED presenceVars
    <3>1. PresenceInv'
      BY <2>4 DEF PresenceInv, Grounded, Listed, presenceVars, vars, pollVars
    <3> QED
      BY <2>2, <3>1
  <2> QED
    BY <2>3, <2>4
<1>3. Inv /\ [PresenceNext]_presenceVars => [Change]_presenceVars
  <2> SUFFICES ASSUME Inv, PresenceNext
               PROVE  Change
    OBVIOUS
  <2>1. [Next]_vars
    BY DEF PresenceNext
  <2> QED
    BY <2>1, GroundedChanges
<1> HIDE DEF Inv
<1> QED
  BY <1>1, <1>2, <1>3, PTL DEF PresenceSpec, TableFollowsBus
===============================================================================
