-------------------------- MODULE SinkRoutesProofs --------------------------
(***************************************************************************)
(* Proofs about SinkRoutes, for any devices, ports and number of events.   *)
(***************************************************************************)
EXTENDS SinkRoutes, SequenceTheorems, FiniteSetTheorems, TLAPS

\* What the actions need of the types: the rest of TypeOK is not used below.
RecordType == [present : BOOLEAN, active : BOOLEAN, address : Addresses \cup {Unknown}]
Typed ==
  /\ record \in [Devices -> RecordType]
  /\ place \in [Devices -> Addresses \cup {Unknown}]

\* A current device that was not removed is on the bus and flagged.
Current ==
  current \in Devices \ returned => linked /\ record[current].present /\ record[current].active

Flagged ==
  \A device \in Devices : record[device].active => device = current \/ device \in displaced

SourceInv == Typed /\ Current /\ Flagged /\ ClientKnowsSource

\* The records keep their shape.
LEMMA TypedStep ==
  ASSUME RoutesAssumption, Typed, [Next]_vars
  PROVE  Typed'
<1> USE DEF Typed, RecordType
<1>0. Cleared \in RecordType
  BY DEF Cleared
<1>1. ASSUME NEW device \in Devices, Receive(device)
      PROVE  Typed'
  <2> USE <1>1 DEF Receive
  <2>1. CASE updateActiveSource(device)
    BY <2>1 DEF updateActiveSource, Activated
  <2>2. CASE updateInActiveSource(device)
    BY <2>2 DEF updateInActiveSource
  <2>3. CASE updateImageViewOn(device)
    BY <2>3 DEF updateImageViewOn, Added
  <2>4. CASE addDevice(device)
    BY <2>4 DEF addDevice, Added
  <2>5. CASE updateDeviceChain(device)
    <3>1. record' = [Added(device) EXCEPT ![device].address = place[device]]
      BY <2>5 DEF updateDeviceChain
    <3>2. place[device] \in Addresses \cup {Unknown}
      OBVIOUS
    <3>3. Added(device) \in [Devices -> RecordType]
      BY DEF Added
    <3>4. record' \in [Devices -> RecordType]
      BY <3>1, <3>2, <3>3
    <3> QED
      BY <3>4
  <2> QED
    BY <2>1, <2>2, <2>3, <2>4, <2>5
<1>2. ASSUME NEW device \in Devices, removeDevice(device), UNCHANGED <<place, events>>
      PROVE  Typed'
  BY <1>0, <1>2 DEF removeDevice, Forgotten
<1>3. CASE Event
  <2>1. ASSUME NEW device \in Devices, Moves(device)
        PROVE  Typed'
    <3>1. PICK address \in Places[device] \cup {Unknown} :
            place' = [place EXCEPT ![device] = address]
      BY <2>1 DEF Moves
    <3>2. address \in Addresses \cup {Unknown}
      BY <3>1 DEF RoutesAssumption
    <3> QED
      BY <2>1, <3>1, <3>2 DEF Moves, pluginVars
  <2>2. ASSUME setActiveSource \/ setRoutingChange \/ onPowerModeChanged \/ CECEnable,
               UNCHANGED place
        PROVE  Typed'
    BY <2>2 DEF setActiveSource, setRoutingChange, onPowerModeChanged, CECEnable, Take
  <2>3. ASSUME CECDisable, UNCHANGED place
        PROVE  Typed'
    BY <1>0, <2>3 DEF CECDisable
  <2> QED
    BY <1>3, <2>1, <2>2, <2>3 DEF Event
<1>4. CASE UNCHANGED vars
  BY <1>4 DEF vars, pluginVars
<1> QED
  <2>1. ASSUME NEW device \in Devices, PingFails(device)
        PROVE  Typed'
    BY <1>2, <2>1 DEF PingFails
  <2>2. ASSUME NEW port \in Ports, onHdmiHotPlug(port)
        PROVE  Typed'
    BY <1>2, <2>2 DEF onHdmiHotPlug
  <2> QED
    BY <1>1, <1>3, <1>4, <2>1, <2>2 DEF Next

\* The four facts about the active source are kept by every step.
LEMMA SourceStep ==
  ASSUME RoutesAssumption, SourceInv, [Next]_vars
  PROVE  SourceInv'
<1>0. Typed'
  BY TypedStep DEF SourceInv
<1> USE DEF SourceInv, Typed, RecordType, Current, Flagged, ClientKnowsSource
<1>a. None \notin Devices /\ TV \notin Devices
  BY DEF RoutesAssumption
<1>1. ASSUME NEW device \in Devices, Receive(device)
      PROVE  SourceInv'
  <2> USE <1>0, <1>a, <1>1 DEF Receive
  <2>1. CASE updateActiveSource(device)
    BY <2>1 DEF updateActiveSource, Activated
  <2>2. CASE updateInActiveSource(device)
    BY <2>2 DEF updateInActiveSource, Vacated
  <2>3. CASE updateImageViewOn(device)
    BY <2>3 DEF updateImageViewOn, Added
  <2>4. CASE addDevice(device)
    BY <2>4 DEF addDevice, Added, history
  <2>5. CASE updateDeviceChain(device)
    BY <2>5 DEF updateDeviceChain, Added
  <2> QED
    BY <2>1, <2>2, <2>3, <2>4, <2>5
<1>2. ASSUME NEW device \in Devices, removeDevice(device), UNCHANGED <<place, events>>
      PROVE  SourceInv'
  BY <1>0, <1>2 DEF removeDevice, Forgotten, Cleared
<1>3. ASSUME NEW source \in {TV, None}, Take(source)
      PROVE  SourceInv'
  BY <1>0, <1>a, <1>3 DEF Take
<1>4. CASE Event
  <2>1. ASSUME NEW device \in Devices, Moves(device)
        PROVE  SourceInv'
    BY <1>0, <2>1 DEF Moves, pluginVars
  <2>2. ASSUME setActiveSource \/ setRoutingChange
        PROVE  SourceInv'
    BY <1>3, <2>2 DEF setActiveSource, setRoutingChange
  <2>3. ASSUME onPowerModeChanged
        PROVE  SourceInv'
    <3>1. CASE linked /\ powerOn
      BY <1>3, <2>3, <3>1 DEF onPowerModeChanged
    <3>2. CASE ~(linked /\ powerOn)
      BY <1>0, <2>3, <3>2 DEF onPowerModeChanged, history
    <3> QED
      BY <3>1, <3>2
  <2>4. ASSUME CECEnable
        PROVE  SourceInv'
    BY <1>0, <2>4 DEF CECEnable, history
  <2>5. ASSUME CECDisable
        PROVE  SourceInv'
    BY <1>0, <2>5 DEF CECDisable, Cleared
  <2> QED
    BY <1>4, <2>1, <2>2, <2>3, <2>4, <2>5 DEF Event
<1>5. CASE UNCHANGED vars
  BY <1>5, <1>0 DEF vars, pluginVars, history
<1> QED
  <2>1. ASSUME NEW device \in Devices, PingFails(device)
        PROVE  SourceInv'
    BY <1>2, <2>1 DEF PingFails
  <2>2. ASSUME NEW port \in Ports, onHdmiHotPlug(port)
        PROVE  SourceInv'
    BY <1>2, <2>2 DEF onHdmiHotPlug
  <2> QED
    BY <1>1, <1>4, <1>5, <2>1, <2>2 DEF Next

LEMMA SourceInit ==
  ASSUME RoutesAssumption, Init
  PROVE  SourceInv
BY DEF RoutesAssumption, Init, SourceInv, Typed, RecordType, Cleared, Current, Flagged,
       ClientKnowsSource

LEMMA SourceAlways == RoutesAssumption => (Spec => []SourceInv)
<1> SUFFICES ASSUME RoutesAssumption
             PROVE  Spec => []SourceInv
  OBVIOUS
<1>1. Init => SourceInv
  BY SourceInit
<1>2. SourceInv /\ [Next]_vars => SourceInv'
  BY SourceStep
<1> QED
  BY <1>1, <1>2, PTL DEF Spec

\* The active source that the plugin answers with is the one flagged in its record,
\* and its route is the one of its address (GetActiveSource, GetActiveRoute).
THEOREM ActiveSourceUnique == RoutesAssumption => (Spec => []OneActiveSource)
<1> SUFFICES ASSUME RoutesAssumption
             PROVE  Spec => []OneActiveSource
  OBVIOUS
<1>1. ASSUME SourceInv
      PROVE  OneActiveSource
  <2>1. None \notin Devices /\ TV \notin Devices /\ TV # None
    BY DEF RoutesAssumption
  <2>2. ASSUME current \in Devices \ returned
        PROVE  /\ GetActiveSource = [available |-> TRUE, source |-> current]
               /\ getActiveRoute = getRoute(record[current].address)
    BY <1>1, <2>1, <2>2 DEF SourceInv, Current, GetActiveSource, getActiveRoute
  <2>3. ASSUME GetActiveRoute.available
        PROVE  GetActiveSource.available
    <3>1. current = TV \/ current \in Devices
      BY <2>3 DEF GetActiveRoute, getActiveRoute
    <3> QED
      BY <2>1, <3>1 DEF GetActiveSource
  <2> QED
    BY <1>1, <2>2, <2>3 DEF SourceInv, Flagged, OneActiveSource
<1> QED
  BY <1>1, SourceAlways, PTL

\* A client that listens knows the active source, for any number of devices
\* (OnActiveSourceChange, OnInActiveSource).
THEOREM ClientsFollow == RoutesAssumption => (Spec => []ClientKnowsSource)
<1> SUFFICES ASSUME RoutesAssumption
             PROVE  Spec => []ClientKnowsSource
  OBVIOUS
<1>1. SourceInv => ClientKnowsSource
  BY DEF SourceInv
<1> QED
  BY <1>1, SourceAlways, PTL

-----------------------------------------------------------------------------
\* The rest of the types, action by action; slots and ports that are out of range
\* leave the maps as they are.
LEMMA TypesStep ==
  ASSUME RoutesAssumption, TypeOK, [Next]_vars
  PROVE  TypeOK'
<1> USE DEF TypeOK
<1>0. Cleared \in [present : BOOLEAN, active : BOOLEAN, address : Addresses \cup {Unknown}]
  BY DEF Cleared
<1>a. None \notin Devices /\ TV \notin Devices
  BY DEF RoutesAssumption
<1>t. Typed'
  BY TypedStep DEF Typed, RecordType
<1> USE <1>t DEF Typed, RecordType
<1>1. ASSUME NEW device \in Devices, Receive(device)
      PROVE  TypeOK'
  <2> USE <1>1 DEF Receive
  <2>1. CASE updateActiveSource(device)
    <3>1. strayed' \subseteq Devices
      BY <2>1 DEF updateActiveSource, Strays
    <3>2. \A other \in Devices : ~record'[other].present => record'[other] = Cleared
      <4> SUFFICES ASSUME NEW other \in Devices, other # device, ~record[other].present
                   PROVE  record'[other] = Cleared
        BY <2>1 DEF updateActiveSource, Activated
      <4>1. record[other] = Cleared
        OBVIOUS
      <4>2. record'[other] = [Cleared EXCEPT !.active = Cleared.active /\ other # current]
        BY <2>1, <4>1 DEF updateActiveSource, Activated
      <4> QED
        BY <4>2 DEF Cleared
    <3> QED
      BY <2>1, <3>1, <3>2 DEF updateActiveSource
  <2>2. CASE updateInActiveSource(device)
    <3>1. \A other \in Devices : ~record'[other].present => record'[other] = Cleared
      <4> SUFFICES ASSUME NEW other \in Devices, ~record'[other].present
                   PROVE  record'[other] = Cleared
        OBVIOUS
      <4>1. record[other] = Cleared
        BY <2>2 DEF updateInActiveSource
      <4>2. record'[other] = Cleared \/ record'[other] = [Cleared EXCEPT !.active = FALSE]
        BY <2>2, <4>1 DEF updateInActiveSource
      <4> QED
        BY <4>2 DEF Cleared
    <3> QED
      BY <2>2, <3>1 DEF updateInActiveSource, Vacated
  <2>3. CASE updateImageViewOn(device)
    <3>1. \A other \in Devices : ~record'[other].present => record'[other] = Cleared
      BY <2>3 DEF updateImageViewOn, Added
    <3> QED
      BY <2>3, <3>1 DEF updateImageViewOn
  <2>4. CASE addDevice(device)
    BY <2>4 DEF addDevice, Added, history
  <2>5. CASE updateDeviceChain(device)
    <3>1. \A other \in Devices : ~record'[other].present => record'[other] = Cleared
      BY <2>5 DEF updateDeviceChain, Added
    <3>2. chain' \in [Ports -> [Slots -> Devices \cup {None}]]
      BY <2>5 DEF updateDeviceChain, addChild
    <3>3. portDevice' \in [Ports -> Devices \cup {None}]
      BY <2>5 DEF updateDeviceChain, addChild
    <3>4. placed' \subseteq Devices /\ strayed' \subseteq Devices
      BY <2>5 DEF updateDeviceChain, Strays
    <3> QED
      BY <2>5, <3>1, <3>2, <3>3, <3>4 DEF updateDeviceChain
  <2> QED
    BY <2>1, <2>2, <2>3, <2>4, <2>5
<1>2. ASSUME NEW device \in Devices, removeDevice(device), UNCHANGED <<place, events>>
      PROVE  TypeOK'
  <2>1. \A other \in Devices : ~record'[other].present => record'[other] = Cleared
    BY <1>0, <1>2 DEF removeDevice, Forgotten
  <2>2. chain' \in [Ports -> [Slots -> Devices \cup {None}]]
    <3>1. \/ UNCHANGED chain
          \/ \E port, slot : chain' = [chain EXCEPT ![port][slot] = None]
      BY <1>2 DEF removeDevice, removeChild
    <3>2. ASSUME NEW port, NEW slot, chain' = [chain EXCEPT ![port][slot] = None]
          PROVE  chain' \in [Ports -> [Slots -> Devices \cup {None}]]
      <4>1. port \in Ports =>
              [chain[port] EXCEPT ![slot] = None] \in [Slots -> Devices \cup {None}]
        OBVIOUS
      <4>2. chain' = [chain EXCEPT ![port] = [chain[port] EXCEPT ![slot] = None]]
        BY <3>2
      <4> QED
        BY <4>1, <4>2
    <3> QED
      BY <3>1, <3>2
  <2>3. portDevice' \in [Ports -> Devices \cup {None}]
    BY <1>2 DEF removeDevice, PortsWithout
  <2>4. placed' \subseteq Devices /\ strayed' \subseteq Devices /\ returned' \subseteq Devices
    BY <1>2 DEF removeDevice
  <2> QED
    BY <1>2, <2>1, <2>2, <2>3, <2>4 DEF removeDevice
<1>3. ASSUME NEW source \in {TV, None}, Take(source), powerOn' \in BOOLEAN, UNCHANGED place,
             events' \in 0 .. MaxEvents
      PROVE  TypeOK'
  BY <1>3 DEF Take
<1>4. CASE Event
  <2>0. events' \in 0 .. MaxEvents
    BY <1>4 DEF Event, RoutesAssumption
  <2>1. ASSUME NEW device \in Devices, Moves(device)
        PROVE  TypeOK'
    BY <2>0, <2>1 DEF Moves, pluginVars
  <2>2. ASSUME setActiveSource \/ setRoutingChange, UNCHANGED place
        PROVE  TypeOK'
    BY <1>3, <2>0, <2>2 DEF setActiveSource, setRoutingChange
  <2>3. ASSUME onPowerModeChanged, UNCHANGED place
        PROVE  TypeOK'
    <3>1. CASE linked /\ powerOn
      BY <1>3, <2>0, <2>3, <3>1 DEF onPowerModeChanged
    <3>2. CASE ~(linked /\ powerOn)
      BY <2>0, <2>3, <3>2 DEF onPowerModeChanged, history
    <3> QED
      BY <3>1, <3>2
  <2>4. ASSUME CECEnable, UNCHANGED place
        PROVE  TypeOK'
    BY <2>0, <2>4 DEF CECEnable, history
  <2>5. ASSUME CECDisable, UNCHANGED place
        PROVE  TypeOK'
    BY <1>0, <2>0, <2>5 DEF CECDisable, Held
  <2> QED
    BY <1>4, <2>1, <2>2, <2>3, <2>4, <2>5 DEF Event
<1>5. CASE UNCHANGED vars
  BY <1>5 DEF vars, pluginVars, history
<1> QED
  <2>1. ASSUME NEW device \in Devices, PingFails(device)
        PROVE  TypeOK'
    BY <1>2, <2>1 DEF PingFails
  <2>2. ASSUME NEW port \in Ports, onHdmiHotPlug(port)
        PROVE  TypeOK'
    BY <1>2, <2>2 DEF onHdmiHotPlug
  <2> QED
    BY <1>1, <1>4, <1>5, <2>1, <2>2 DEF Next

\* Records, ports and chains keep their types, and an absent device has a cleared
\* record, for any number of devices and events (deviceList, hdmiInputs).
THEOREM RoutesTypeCorrect == RoutesAssumption => (Spec => []TypeOK)
<1> SUFFICES ASSUME RoutesAssumption
             PROVE  Spec => []TypeOK
  OBVIOUS
<1>1. ASSUME Init
      PROVE  TypeOK
  <2>1. record \in [Devices -> RecordType] /\ \A device \in Devices : record[device] = Cleared
    BY <1>1 DEF Init, RecordType, Cleared
  <2>2. events \in 0 .. MaxEvents
    BY <1>1 DEF Init, RoutesAssumption
  <2>3. chain \in [Ports -> [Slots -> Devices \cup {None}]]
    BY <1>1 DEF Init
  <2> QED
    BY <1>1, <2>1, <2>2, <2>3 DEF Init, TypeOK, RecordType
<1>2. TypeOK /\ [Next]_vars => TypeOK'
  BY TypesStep
<1> QED
  BY <1>1, <1>2, PTL DEF Spec

-----------------------------------------------------------------------------
(* The ports.                                                              *)

\* A message that tells an address: a device that some port names and that had told
\* another one has strayed.
LEMMA TellsKeepPorts ==
  ASSUME TypeOK, PortsTrue, NEW device \in Devices,
         strayed' = strayed \cup Strays(device),
         record' \in [Devices -> RecordType],
         record'[device].present /\ record'[device].address = place[device],
         \A other \in Devices \ {device} :
           /\ record'[other].present = record[other].present
           /\ record'[other].address = record[other].address,
         \/ UNCHANGED portDevice
         \/ /\ place[device] \in Addresses /\ OnPort(place[device])
            /\ portDevice' = [portDevice EXCEPT ![place[device][1]] = device]
  PROVE  PortsTrue'
<1> SUFFICES ASSUME NEW holder \in Devices, holder \notin strayed', NEW port \in Ports,
                    portDevice'[port] = holder
             PROVE  /\ record'[holder].present
                    /\ record'[holder].address = <<port, 0, 0, 0>>
  BY DEF PortsTrue, HdmiPortsOf
<1>1. holder \notin strayed
  OBVIOUS
<1>2. portDevice[port] = holder =>
        record[holder].present /\ record[holder].address = <<port, 0, 0, 0>>
  BY <1>1 DEF PortsTrue, HdmiPortsOf
<1>3. CASE holder # device
  <2>1. portDevice[port] = holder
    BY <1>3 DEF TypeOK
  <2> QED
    BY <1>2, <1>3, <2>1
<1>4. CASE holder = device
  <2>1. CASE portDevice[port] = holder
    <3>1. device \in Held(portDevice)
      BY <1>4, <2>1 DEF Held
    <3>2. record[device].address = place[device]
      BY <1>4, <3>1 DEF Strays
    <3> QED
      BY <1>2, <1>4, <2>1, <3>2
  <2>2. CASE portDevice[port] # holder
    BY <1>4, <2>2 DEF TypeOK, OnPort
  <2> QED
    BY <2>1, <2>2
<1> QED
  BY <1>3, <1>4

LEMMA RemovalKeepsPorts ==
  ASSUME RoutesAssumption, TypeOK, PortsTrue, NEW device \in Devices, removeDevice(device)
  PROVE  PortsTrue'
<1> DEFINE address == record[device].address
<1> SUFFICES ASSUME NEW holder \in Devices, holder \notin strayed', NEW port \in Ports,
                    portDevice'[port] = holder
             PROVE  /\ record'[holder].present
                    /\ record'[holder].address = <<port, 0, 0, 0>>
  BY DEF PortsTrue, HdmiPortsOf
<1>1. record' = [record EXCEPT ![device] = Cleared]
  BY DEF removeDevice, Forgotten
<1>2. portDevice[port] = holder /\ holder \notin strayed
  <2>1. CASE address = Unknown
    BY <2>1 DEF removeDevice
  <2>2. CASE address # Unknown
    <3>1. portDevice' = [portDevice EXCEPT ![address[1]] = None]
          /\ strayed' = strayed \cap Held(portDevice')
      BY <2>2 DEF removeDevice, PortsWithout
    <3>2. portDevice[port] = holder
      BY <3>1 DEF TypeOK, RoutesAssumption
    <3>3. holder \in Held(portDevice')
      BY DEF Held
    <3> QED
      BY <3>1, <3>2, <3>3
  <2> QED
    BY <2>1, <2>2
<1>3. record[holder].present /\ record[holder].address = <<port, 0, 0, 0>>
  BY <1>2 DEF PortsTrue, HdmiPortsOf
<1>4. CASE holder # device
  BY <1>1, <1>3, <1>4 DEF TypeOK
<1>5. CASE holder = device
  <2>1. address \in Addresses /\ address[1] = port
    <3>1. address \in Addresses \cup {Unknown}
      BY DEF TypeOK
    <3>2. <<port, 0, 0, 0>> \in Addresses
      BY DEF Addresses, RoutesAssumption
    <3> QED
      BY <1>3, <1>5, <3>2
  <2>2. portDevice'[port] = None
    BY <2>1 DEF removeDevice, PortsWithout, TypeOK, RoutesAssumption
  <2> QED
    BY <1>5, <2>2 DEF RoutesAssumption
<1> QED
  BY <1>4, <1>5

LEMMA PortsStep ==
  ASSUME RoutesAssumption, TypeOK, PortsTrue, [Next]_vars
  PROVE  PortsTrue'
<1>0. Typed'
  BY TypedStep DEF TypeOK, Typed, RecordType
<1>k. ASSUME \A device \in Devices : record[device].present => record'[device].present,
             \A device \in Devices : record'[device].address = record[device].address,
             UNCHANGED <<portDevice, strayed>>
      PROVE  PortsTrue'
  BY <1>k DEF PortsTrue, HdmiPortsOf
<1>1. ASSUME NEW device \in Devices, Receive(device)
      PROVE  PortsTrue'
  <2> USE <1>0, <1>1 DEF Receive, Typed
  <2>1. CASE updateActiveSource(device)
    <3>1. /\ record'[device].present /\ record'[device].address = place[device]
          /\ \A other \in Devices \ {device} :
               /\ record'[other].present = record[other].present
               /\ record'[other].address = record[other].address
      BY <2>1 DEF updateActiveSource, Activated, TypeOK
    <3>2. strayed' = strayed \cup Strays(device) /\ UNCHANGED portDevice
      BY <2>1 DEF updateActiveSource
    <3> QED
      BY <3>1, <3>2, TellsKeepPorts
  <2>2. CASE updateInActiveSource(device)
    BY <1>k, <2>2 DEF updateInActiveSource, TypeOK
  <2>3. CASE updateImageViewOn(device) \/ addDevice(device)
    <3>1. record' = Added(device) /\ UNCHANGED <<portDevice, strayed>>
      BY <2>3 DEF updateImageViewOn, addDevice, history
    <3>2. \A other \in Devices : /\ record[other].present => record'[other].present
                                /\ record'[other].address = record[other].address
      BY <3>1 DEF Added, TypeOK
    <3> QED
      BY <1>k, <3>1, <3>2
  <2>4. CASE updateDeviceChain(device)
    <3>1. /\ record'[device].present /\ record'[device].address = place[device]
          /\ \A other \in Devices \ {device} : record'[other] = record[other]
      BY <2>4 DEF updateDeviceChain, Added, TypeOK
    <3>2. /\ strayed' = strayed \cup Strays(device)
          /\ \/ UNCHANGED portDevice
             \/ /\ OnPort(place[device])
                /\ portDevice' = [portDevice EXCEPT ![place[device][1]] = device]
      BY <2>4 DEF updateDeviceChain, addChild, IsDirect
    <3>3. place[device] \in Addresses
      BY DEF TypeOK
    <3> QED
      BY <3>1, <3>2, <3>3, TellsKeepPorts
  <2> QED
    BY <2>1, <2>2, <2>3, <2>4
<1>2. ASSUME NEW device \in Devices, removeDevice(device)
      PROVE  PortsTrue'
  BY <1>2, RemovalKeepsPorts
<1>3. CASE Event
  <2>1. CASE CECDisable
    BY <2>1 DEF CECDisable, PortsTrue, HdmiPortsOf, Held
  <2>2. CASE ~CECDisable
    <3>1. UNCHANGED <<record, portDevice, strayed>>
      BY <1>3, <2>2 DEF Event, Moves, setActiveSource, setRoutingChange, onPowerModeChanged,
                        CECEnable, Take, pluginVars, history
    <3> QED
      BY <1>k, <3>1
  <2> QED
    BY <2>1, <2>2
<1>4. CASE UNCHANGED vars
  BY <1>k, <1>4 DEF vars, pluginVars, history
<1> QED
  BY <1>1, <1>2, <1>3, <1>4 DEF Next, PingFails, onHdmiHotPlug

\* The device that a port names is present and known at the port's address, whatever
\* came and went, unless it told another address or CECDisable cleared its record
\* (addChild, removeDevice, GetDeviceList).
THEOREM PortsAreTrue == RoutesAssumption => (Spec => []PortsTrue)
<1> SUFFICES ASSUME RoutesAssumption
             PROVE  Spec => []PortsTrue
  OBVIOUS
<1>1. Init => PortsTrue
  BY DEF Init, PortsTrue, HdmiPortsOf, RoutesAssumption
<1>2. TypeOK /\ PortsTrue /\ [Next]_vars => PortsTrue'
  BY PortsStep
<1> QED
  BY <1>1, <1>2, RoutesTypeCorrect, PTL DEF Spec
-----------------------------------------------------------------------------
(***************************************************************************)
(* The route.                                                              *)
(***************************************************************************)

\* An address is the address of the device above with one byte more.
Unbroken(address) == /\ address[2] = 0 => address[3] = 0
                     /\ address[3] = 0 => address[4] = 0
PlacesUnbroken == \A device \in Devices : \A address \in Places[device] : Unbroken(address)

\* The levels between an address and its port.
Depth(address) == IF address[2] = 0 THEN 0 ELSE IF address[3] = 0 THEN 1
                  ELSE IF address[4] = 0 THEN 2 ELSE 3

\* Devices are at places of theirs, one at each.
Located ==
  \A device, other \in Devices :
    place[device] # Unknown =>
      /\ place[device] \in Places[device]
      /\ place[device] = place[other] => device = other

\* A device that is recorded is in the map of its port.
Recorded ==
  \A device \in placed :
    LET address == place[device] IN
    /\ address # Unknown
    /\ OnPort(address) => portDevice[address[1]] = device
    /\ BehindPort(address) => chain[address[1]][SlotOf(address)] = device

PathInv == TypeOK /\ Located /\ Recorded

LEMMA AddressBytes ==
  ASSUME RoutesAssumption, NEW address \in Addresses
  PROVE  /\ address[1] \in Ports
         /\ \A byte \in 2 .. 4 : address[byte] \in 0 .. MaxByte
         /\ address = <<address[1], address[2], address[3], address[4]>>
         /\ address # Unknown
BY DEF Addresses, RoutesAssumption

LEMMA DepthIs ==
  ASSUME RoutesAssumption, NEW address \in Addresses, Unbroken(address)
  PROVE  /\ Depth(address) \in 0 .. 3
         /\ \A byte \in 2 .. 4 : address[byte] # 0 <=> byte <= Depth(address) + 1
         /\ \A m \in 0 .. 3 :
              (\A byte \in 2 .. 4 : address[byte] # 0 <=> byte <= m + 1) => Depth(address) = m
BY AddressBytes DEF Depth, Unbroken

LEMMA Joined ==
  ASSUME NEW s \in Seq(Nat), NEW t \in Seq(Nat), Len(s) = 1, Len(t) = 1
  PROVE  Len(s \o t) = 2 /\ (s \o t)[1] = s[1] /\ (s \o t)[2] = t[1]
<1> DEFINE st == s \o t
<1>1. /\ Len(st) = Len(s) + Len(t)
      /\ \A i \in 1 .. Len(s) + Len(t) : st[i] = IF i <= Len(s) THEN s[i] ELSE t[i - Len(s)]
  BY ConcatProperties, Zenon
<1> HIDE DEF st
<1>2. /\ Len(st) = 2
      /\ \A i \in 1 .. 2 : st[i] = IF i <= 1 THEN s[i] ELSE t[i - 1]
  BY <1>1
<1>3. st[1] = s[1] /\ st[2] = t[1]
  BY <1>2
<1> QED
  BY <1>2, <1>3 DEF st

\* The levels that an address names are those from its own up to the port.
LEMMA HopsAre ==
  ASSUME RoutesAssumption, NEW address \in Addresses, Unbroken(address)
  PROVE  /\ Hops(address) \in Seq(Nat)
         /\ Len(Hops(address)) = Depth(address)
         /\ DOMAIN Hops(address) = 1 .. Depth(address)
         /\ \A i \in 1 .. Depth(address) : Hops(address)[i] = Depth(address) + 1 - i
<1> DEFINE h(level) == Hop(address, level)
           upper == h(3) \o h(2)
<1>1. \A level \in 1 .. 3 :
        /\ h(level) \in Seq(Nat)
        /\ Len(h(level)) = IF level <= Depth(address) THEN 1 ELSE 0
        /\ level <= Depth(address) => h(level)[1] = level
  <2> SUFFICES ASSUME NEW level \in 1 .. 3
               PROVE  /\ h(level) \in Seq(Nat)
                      /\ Len(h(level)) = IF level <= Depth(address) THEN 1 ELSE 0
                      /\ level <= Depth(address) => h(level)[1] = level
    OBVIOUS
  <2>1. h(level) = IF level <= Depth(address) THEN <<level>> ELSE <<>>
    BY DepthIs DEF Hop
  <2> QED
    BY <2>1
<1> HIDE DEF h
<1>2. /\ upper \in Seq(Nat) /\ Len(upper) = Len(h(3)) + Len(h(2))
      /\ \A i \in 1 .. Len(h(3)) + Len(h(2)) :
           upper[i] = IF i <= Len(h(3)) THEN h(3)[i] ELSE h(2)[i - Len(h(3))]
  BY <1>1, ConcatProperties
<1>j. Len(h(3)) = 1 /\ Len(h(2)) = 1 =>
        Len(upper) = 2 /\ upper[1] = h(3)[1] /\ upper[2] = h(2)[1]
  BY <1>1, Joined
<1> HIDE DEF upper
<1>3. /\ upper \o h(1) \in Seq(Nat) /\ Len(upper \o h(1)) = Len(upper) + Len(h(1))
      /\ \A i \in 1 .. Len(upper) + Len(h(1)) :
           (upper \o h(1))[i] = IF i <= Len(upper) THEN upper[i] ELSE h(1)[i - Len(upper)]
  <2>1. h(1) \in Seq(Nat)
    BY <1>1
  <2>2. upper \in Seq(Nat)
    BY <1>2
  <2> QED
    BY <2>1, <2>2, ConcatProperties
<1>4. Hops(address) = upper \o h(1)
  BY DEF Hops, upper, h
<1>5. Depth(address) \in 0 .. 3
  BY DepthIs
<1>6. /\ Len(upper \o h(1)) = Depth(address)
      /\ \A i \in 1 .. Depth(address) : (upper \o h(1))[i] = Depth(address) + 1 - i
  <2>1. CASE Depth(address) = 0
    BY <1>1, <1>2, <1>3, <2>1
  <2>2. CASE Depth(address) = 1
    <3>1. Len(h(3)) = 0 /\ Len(h(2)) = 0 /\ Len(h(1)) = 1 /\ h(1)[1] = 1
      BY <1>1, <2>2
    <3>2. Len(upper) = 0
      BY <3>1, <1>2
    <3>3. Len(upper \o h(1)) = 1 /\ (upper \o h(1))[1] = 1
      BY <3>1, <3>2, <1>3
    <3> QED
      BY <2>2, <3>3
  <2>3. CASE Depth(address) = 2
    <3>1. Len(h(3)) = 0 /\ Len(h(2)) = 1 /\ h(2)[1] = 2 /\ Len(h(1)) = 1 /\ h(1)[1] = 1
      BY <1>1, <2>3
    <3>2. Len(upper) = 1 /\ upper[1] = 2
      BY <1>2, <3>1
    <3>3. Len(upper \o h(1)) = 2 /\ (upper \o h(1))[1] = 2 /\ (upper \o h(1))[2] = 1
      BY <1>3, <3>1, <3>2
    <3> QED
      BY <2>3, <3>3
  <2>4. CASE Depth(address) = 3
    <3>1. /\ Len(h(3)) = 1 /\ h(3)[1] = 3 /\ Len(h(2)) = 1 /\ h(2)[1] = 2
          /\ Len(h(1)) = 1 /\ h(1)[1] = 1
      BY <1>1, <2>4
    <3>2. Len(upper) = 2 /\ upper[1] = 3 /\ upper[2] = 2
      BY <1>j, <3>1
    <3>3. /\ Len(upper \o h(1)) = 3 /\ (upper \o h(1))[1] = 3
          /\ (upper \o h(1))[2] = 2 /\ (upper \o h(1))[3] = 1
      BY <1>3, <3>1, <3>2
    <3> QED
      BY <2>4, <3>3
  <2> QED
    BY <1>5, <2>1, <2>2, <2>3, <2>4
<1> QED
  BY <1>3, <1>4, <1>6

LEMMA SlotIs ==
  ASSUME RoutesAssumption, NEW address \in Addresses, Unbroken(address), BehindPort(address)
  PROVE  /\ SlotOf(address) = <<Depth(address), address[Depth(address) + 1]>>
         /\ SlotOf(address) \in Slots
         /\ Depth(address) \in 1 .. 3
<1>1. Depth(address) \in 1 .. 3
  BY DepthIs DEF BehindPort, Depth
<1>2. Hops(address)[1] = Depth(address) /\ Head(Hops(address)) = Hops(address)[1]
  <2>1. Hops(address)[1] = Depth(address)
    BY <1>1, HopsAre
  <2>2. Head(Hops(address)) = Hops(address)[1]
    BY <1>1, HopsAre
  <2> QED
    BY <2>1, <2>2
<1>3. SlotOf(address) = <<Depth(address), address[Depth(address) + 1]>>
  BY <1>2 DEF SlotOf
<1>4. Depth(address) + 1 \in 2 .. 4 /\ address[Depth(address) + 1] # 0
  BY <1>1, DepthIs
<1>5. address[Depth(address) + 1] \in 1 .. MaxByte
  BY <1>4, AddressBytes DEF RoutesAssumption
<1> QED
  BY <1>1, <1>3, <1>5 DEF Slots

\* A route that passes over no slot is what it names.
LEMMA NamedIs ==
  ASSUME NEW route \in Seq(Devices \cup {None}), \A i \in 1 .. Len(route) : route[i] # None
  PROVE  Named(route) = route
<1> DEFINE at == {i \in DOMAIN route : route[i] # None}
           Nth(n) == CHOOSE i \in at : Cardinality({j \in at : j < i}) = n - 1
           size == Len(route)
<1>1. size \in Nat /\ at = 1 .. size
  BY LenProperties
<1>2. Cardinality(at) = size
  <2>1. Cardinality(1 .. size) = IF 1 > size THEN 0 ELSE size - 1 + 1
    <3>1. 1 \in Int /\ size \in Int
      BY <1>1
    <3> HIDE DEF size, at
    <3> QED
      BY <3>1, FS_Interval
  <2> HIDE DEF at
  <2> QED
    BY <1>1, <2>1
<1>3. \A i \in at : Cardinality({j \in at : j < i}) = i - 1
  <2> SUFFICES ASSUME NEW i \in at PROVE Cardinality({j \in at : j < i}) = i - 1
    OBVIOUS
  <2>1. {j \in at : j < i} = 1 .. i - 1 /\ i \in Nat \ {0}
    BY <1>1
  <2>2. Cardinality(1 .. i - 1) = i - 1
    BY <2>1, FS_Interval
  <2> QED
    BY <2>1, <2>2
<1>4. \A n \in 1 .. size : Nth(n) = n
  BY <1>1, <1>3
<1>5. Named(route) = [n \in 1 .. size |-> route[Nth(n)]]
  BY <1>2 DEF Named
<1>6. Named(route) = [n \in 1 .. size |-> route[n]]
  BY <1>4, <1>5
<1> QED
  BY <1>1, <1>6, LenProperties

-----------------------------------------------------------------------------
LEMMA PathInit == RoutesAssumption /\ Init => Located /\ Recorded
BY DEF Init, Located, Recorded

\* What a report of an address puts in the map.
LEMMA ReportKeepsPath ==
  ASSUME RoutesAssumption, PlacesUnbroken, PathInv, NEW device \in Devices,
         place[device] # Unknown, updateDeviceChain(device), UNCHANGED place
  PROVE  Recorded'
<1> DEFINE address == place[device]
<1>1. \A other \in Devices :
        place[other] # Unknown => place[other] \in Addresses /\ Unbroken(place[other])
  BY DEF PathInv, TypeOK, Located, PlacesUnbroken
<1>2. \A other \in Devices :
        /\ BehindPort(place[other]) /\ IsChild(device, address)
        /\ place[other][1] = address[1] /\ SlotOf(place[other]) = SlotOf(address)
        /\ other \in placed'
        => other = device
  <2> SUFFICES ASSUME NEW other \in Devices, other # device,
                      BehindPort(place[other]), IsChild(device, address),
                      place[other][1] = address[1], SlotOf(place[other]) = SlotOf(address)
               PROVE  other \notin placed'
    OBVIOUS
  <2>1. /\ place[other] \in Addresses /\ Unbroken(place[other])
        /\ address \in Addresses /\ Unbroken(address) /\ BehindPort(address)
    BY <1>1 DEF BehindPort, IsChild
  <2>2. /\ SlotOf(place[other]) = <<Depth(place[other]), place[other][Depth(place[other]) + 1]>>
        /\ SlotOf(address) = <<Depth(address), address[Depth(address) + 1]>>
    BY <2>1, SlotIs
  <2>3. /\ Depth(place[other]) = Depth(address)
        /\ place[other][Depth(address) + 1] = address[Depth(address) + 1]
    <3>1. <<Depth(place[other]), place[other][Depth(place[other]) + 1]>>
            = <<Depth(address), address[Depth(address) + 1]>>
      BY <2>2
    <3>2. /\ Depth(place[other]) = Depth(address)
          /\ place[other][Depth(place[other]) + 1] = address[Depth(address) + 1]
      BY <3>1
    <3> QED
      BY <3>2
  <2>4. Len(Hops(place[other])) = Depth(place[other]) /\ Len(Hops(address)) = Depth(address)
    BY <2>1, HopsAre
  <2> QED
    BY <2>1, <2>3, <2>4 DEF updateDeviceChain
<1>3. /\ placed' \subseteq placed \cup {device}
      /\ device \in placed' => IsChild(device, address) \/ IsDirect(device, address)
  BY DEF updateDeviceChain
<1>4. /\ chain' = IF IsChild(device, address)
                  THEN [chain EXCEPT ![address[1]][SlotOf(address)] = device] ELSE chain
      /\ portDevice' = IF IsDirect(device, address)
                       THEN [portDevice EXCEPT ![address[1]] = device] ELSE portDevice
  BY DEF updateDeviceChain, addChild
<1>5. address \in Addresses /\ Unbroken(address) /\ address[1] \in Ports
  BY <1>1, AddressBytes
<1> SUFFICES ASSUME NEW other \in placed'
             PROVE  /\ place[other] # Unknown
                    /\ OnPort(place[other]) => portDevice'[place[other][1]] = other
                    /\ BehindPort(place[other]) =>
                         chain'[place[other][1]][SlotOf(place[other])] = other
  BY DEF Recorded, OnPort, BehindPort, SlotOf, Hops, Hop
<1>6. other \in Devices /\ place[other] # Unknown
  BY <1>3 DEF PathInv, TypeOK, Recorded
<1>7. place[other] \in Addresses /\ Unbroken(place[other]) /\ place[other][1] \in Ports
  BY <1>1, <1>6, AddressBytes
<1>8. ASSUME OnPort(place[other]) PROVE portDevice'[place[other][1]] = other
  <2>1. CASE other = device
    <3>1. IsDirect(device, address)
      BY <1>3, <1>8, <2>1 DEF IsChild, BehindPort, OnPort
    <3> QED
      BY <1>4, <1>5, <2>1, <3>1 DEF PathInv, TypeOK
  <2>2. CASE other # device
    <3>1. portDevice[place[other][1]] = other
      BY <1>3, <1>8, <2>2 DEF PathInv, Recorded
    <3>2. CASE IsDirect(device, address) /\ place[other][1] = address[1]
      <4>1. place[other] = address
        BY <1>8, <3>2 DEF IsDirect, OnPort
      <4> QED
        BY <1>6, <2>2, <4>1 DEF PathInv, Located
    <3>3. CASE ~(IsDirect(device, address) /\ place[other][1] = address[1])
      BY <1>4, <1>7, <3>1, <3>3 DEF PathInv, TypeOK
    <3> QED
      BY <3>2, <3>3
  <2> QED
    BY <2>1, <2>2
<1>9. ASSUME BehindPort(place[other])
      PROVE  chain'[place[other][1]][SlotOf(place[other])] = other
  <2>0. SlotOf(place[other]) \in Slots
    BY <1>7, <1>9, SlotIs
  <2>1. CASE other = device
    <3>1. IsChild(device, address)
      BY <1>3, <1>9, <2>1 DEF IsDirect, BehindPort, OnPort
    <3> QED
      BY <1>4, <1>5, <2>0, <2>1, <3>1 DEF PathInv, TypeOK
  <2>2. CASE other # device
    <3>1. chain[place[other][1]][SlotOf(place[other])] = other
      BY <1>3, <1>9, <2>2 DEF PathInv, Recorded
    <3>2. CASE IsChild(device, address)
      <4>1. ~(place[other][1] = address[1] /\ SlotOf(place[other]) = SlotOf(address))
        BY <1>2, <1>6, <1>9, <2>2, <3>2
      <4> QED
        BY <1>4, <1>7, <2>0, <3>1, <3>2, <4>1 DEF PathInv, TypeOK
    <3>3. CASE ~IsChild(device, address)
      BY <1>4, <3>1, <3>3
    <3> QED
      BY <3>2, <3>3
  <2> QED
    BY <2>1, <2>2
<1> QED
  BY <1>6, <1>8, <1>9

\* What the map keeps when a device is removed: what is behind other ports.
LEMMA RemovalKeepsPath ==
  ASSUME RoutesAssumption, PlacesUnbroken, PathInv, NEW device \in Devices,
         removeDevice(device), UNCHANGED place
  PROVE  Recorded'
<1> DEFINE address == record[device].address
<1>1. CASE address = Unknown
  <2>1. UNCHANGED <<place, chain, portDevice, placed>>
    BY <1>1 DEF removeDevice
  <2> SUFFICES ASSUME NEW other \in placed'
               PROVE  /\ place[other] # Unknown
                      /\ OnPort(place[other]) => portDevice'[place[other][1]] = other
                      /\ BehindPort(place[other]) =>
                           chain'[place[other][1]][SlotOf(place[other])] = other
    BY DEF Recorded, OnPort, BehindPort, SlotOf, Hops, Hop
  <2> QED
    BY <2>1 DEF PathInv, Recorded
<1>2. CASE address # Unknown
  <2>1. /\ address \in Addresses /\ address[1] \in Ports
        /\ placed' = placed \ OnBus(address[1])
        /\ portDevice' = [portDevice EXCEPT ![address[1]] = None]
        /\ \/ UNCHANGED chain
           \/ chain' = [chain EXCEPT ![address[1]][SlotOf(address)] = None]
    <3>1. address \in Addresses
      BY <1>2 DEF PathInv, TypeOK
    <3> QED
      BY <1>2, <3>1, AddressBytes DEF removeDevice, removeChild, PortsWithout
  <2> SUFFICES ASSUME NEW other \in placed'
               PROVE  /\ place[other] # Unknown
                      /\ OnPort(place[other]) => portDevice'[place[other][1]] = other
                      /\ BehindPort(place[other]) =>
                           chain'[place[other][1]][SlotOf(place[other])] = other
    BY DEF Recorded, OnPort, BehindPort, SlotOf, Hops, Hop
  <2>2. /\ other \in placed /\ other \in Devices /\ place[other] # Unknown
        /\ place[other][1] # address[1]
    BY <2>1 DEF PathInv, TypeOK, Recorded, OnBus
  <2>3. place[other] \in Addresses /\ place[other][1] \in Ports
    BY <2>2, AddressBytes DEF PathInv, TypeOK
  <2>4. portDevice'[place[other][1]] = portDevice[place[other][1]]
        /\ chain'[place[other][1]] = chain[place[other][1]]
    BY <2>1, <2>2, <2>3 DEF PathInv, TypeOK
  <2> QED
    BY <2>2, <2>4 DEF PathInv, Recorded
<1> QED
  BY <1>1, <1>2

LEMMA PathStep ==
  ASSUME RoutesAssumption, PlacesUnbroken, PathInv, [Next]_vars
  PROVE  Located' /\ Recorded'
<1>1. ASSUME UNCHANGED <<place, portDevice, chain>>, placed' \subseteq placed
      PROVE  Located' /\ Recorded'
  BY <1>1 DEF PathInv, Located, Recorded, OnPort, BehindPort, SlotOf, Hops, Hop
<1>2. UNCHANGED place => Located'
  BY DEF PathInv, Located
<1>3. ASSUME NEW device \in Devices, Receive(device) PROVE Located' /\ Recorded'
  <2>1. place[device] # Unknown /\ UNCHANGED place
    BY <1>3 DEF Receive
  <2>2. CASE updateDeviceChain(device)
    BY <1>2, <2>1, <2>2, ReportKeepsPath
  <2>3. CASE ~updateDeviceChain(device)
    <3>1. UNCHANGED <<place, portDevice, chain, placed>>
      BY <1>3, <2>3 DEF Receive, updateActiveSource, updateInActiveSource, updateImageViewOn,
                        addDevice, history
    <3> QED
      BY <1>1, <3>1
  <2> QED
    BY <2>2, <2>3
<1>4. ASSUME NEW device \in Devices, removeDevice(device), UNCHANGED place
      PROVE  Located' /\ Recorded'
  BY <1>2, <1>4, RemovalKeepsPath
<1>5. ASSUME NEW device \in Devices, Moves(device) PROVE Located' /\ Recorded'
  <2>1. PICK address \in (Places[device] \cup {Unknown}) \ {place[device]} :
          /\ address = Unknown \/ \A other \in Devices : place[other] # address
          /\ place' = [place EXCEPT ![device] = address]
          /\ placed' = placed \ {device}
          /\ UNCHANGED <<portDevice, chain>>
    BY <1>5 DEF Moves, pluginVars
  <2>2. \A other \in Devices : place'[other] = IF other = device THEN address ELSE place[other]
    BY <2>1 DEF PathInv, TypeOK
  <2>3. Located'
    BY <2>1, <2>2 DEF PathInv, Located
  <2>4. \A other \in placed' : other \in placed /\ place'[other] = place[other]
    BY <2>1, <2>2 DEF PathInv, TypeOK
  <2>5. Recorded'
    <3> SUFFICES ASSUME NEW other \in placed'
                 PROVE  /\ place'[other] # Unknown
                        /\ OnPort(place'[other]) => portDevice[place'[other][1]] = other
                        /\ BehindPort(place'[other]) =>
                             chain[place'[other][1]][SlotOf(place'[other])] = other
      BY <2>1 DEF Recorded, OnPort, BehindPort, SlotOf, Hops, Hop
    <3> QED
      BY <2>4 DEF PathInv, Recorded
  <2> QED
    BY <2>3, <2>5
<1>6. CASE Event
  <2>1. CASE \E device \in Devices : Moves(device)
    BY <1>5, <2>1
  <2>2. CASE ~\E device \in Devices : Moves(device)
    <3>1. UNCHANGED <<place, portDevice, chain>> /\ placed' \subseteq placed
      BY <1>6, <2>2 DEF Event, setActiveSource, setRoutingChange, onPowerModeChanged, CECEnable,
                        CECDisable, Take, history
    <3> QED
      BY <1>1, <3>1
  <2> QED
    BY <2>1, <2>2
<1>7. CASE UNCHANGED vars
  BY <1>1, <1>7 DEF vars, pluginVars, history
<1> QED
  BY <1>3, <1>4, <1>6, <1>7 DEF Next, PingFails, onHdmiHotPlug

\* GetActiveRoute answers the route of the current device.
LEMMA RouteOf ==
  ASSUME RoutesAssumption, PathInv, NEW address \in Addresses, Unbroken(address),
         getRoute(address) # <<>>
  PROVE  LET route == getRoute(address) IN
         /\ route \in Seq(Devices \cup {None})
         /\ Len(route) = Depth(address) + 1
         /\ \A i \in 1 .. Depth(address) :
              route[i] = chain[address[1]][<<Depth(address) + 1 - i, address[Depth(address) + 2 - i]>>]
         /\ route[Depth(address) + 1] = portDevice[address[1]]
<1> DEFINE hop(i) == chain[address[1]][<<Hops(address)[i], address[Hops(address)[i] + 1]>>]
           behind == [i \in DOMAIN Hops(address) |-> hop(i)]
           port == <<portDevice[address[1]]>>
<1>1. Depth(address) \in 0 .. 3 /\ address[1] \in Ports
  BY DepthIs, AddressBytes
<1>2. getRoute(address) = behind \o port
  BY DEF getRoute
<1>3. \A i \in 1 .. Depth(address) :
        /\ hop(i) = chain[address[1]][<<Depth(address) + 1 - i, address[Depth(address) + 2 - i]>>]
        /\ hop(i) \in Devices \cup {None}
  <2> SUFFICES ASSUME NEW i \in 1 .. Depth(address)
               PROVE  /\ hop(i) = chain[address[1]][<<Depth(address) + 1 - i, address[Depth(address) + 2 - i]>>]
                      /\ hop(i) \in Devices \cup {None}
    OBVIOUS
  <2>1. Hops(address)[i] = Depth(address) + 1 - i
    BY HopsAre
  <2>2. Hops(address)[i] \in 1 .. 3 /\ Hops(address)[i] + 1 \in 2 .. 4
        /\ Hops(address)[i] + 1 <= Depth(address) + 1
        /\ Hops(address)[i] + 1 = Depth(address) + 2 - i
    BY <1>1, <2>1
  <2>3. address[Hops(address)[i] + 1] \in 1 .. MaxByte
    <3>1. address[Hops(address)[i] + 1] # 0
      BY <2>2, DepthIs
    <3> QED
      BY <2>2, <3>1, AddressBytes DEF RoutesAssumption
  <2>4. <<Hops(address)[i], address[Hops(address)[i] + 1]>> \in Slots
    BY <2>2, <2>3 DEF Slots
  <2>5. hop(i) \in Devices \cup {None}
    BY <1>1, <2>4 DEF PathInv, TypeOK
  <2> QED
    BY <2>1, <2>2, <2>5
<1>4. behind = [i \in 1 .. Depth(address) |-> hop(i)]
  BY HopsAre
<1> HIDE DEF hop
<1>5. behind \in Seq(Devices \cup {None}) /\ Len(behind) = Depth(address)
      /\ \A i \in 1 .. Depth(address) : behind[i] = hop(i)
  <2>1. behind \in [1 .. Depth(address) -> Devices \cup {None}]
    BY <1>3, <1>4
  <2>2. \A i \in 1 .. Depth(address) : behind[i] = hop(i)
    BY <1>4
  <2>3. Depth(address) \in Nat
    BY <1>1
  <2> HIDE DEF behind
  <2>4. behind \in Seq(Devices \cup {None})
    BY <2>1, <2>3
  <2>5. Len(behind) = Depth(address)
    BY <2>1, <2>3, <2>4, LenProperties
  <2> QED
    BY <2>2, <2>4, <2>5
<1>6. port \in Seq(Devices \cup {None}) /\ Len(port) = 1 /\ port[1] = portDevice[address[1]]
  BY <1>1 DEF PathInv, TypeOK
<1> HIDE DEF behind, port
<1>7. /\ behind \o port \in Seq(Devices \cup {None})
      /\ Len(behind \o port) = Len(behind) + Len(port)
      /\ \A i \in 1 .. Len(behind) + Len(port) :
           (behind \o port)[i] = IF i <= Len(behind) THEN behind[i] ELSE port[i - Len(behind)]
  BY <1>5, <1>6, ConcatProperties
<1>8. \A i \in 1 .. Depth(address) : (behind \o port)[i] = hop(i)
  BY <1>1, <1>5, <1>6, <1>7
<1>9. (behind \o port)[Depth(address) + 1] = portDevice[address[1]]
  BY <1>1, <1>5, <1>6, <1>7
<1> QED
  BY <1>1, <1>2, <1>3, <1>5, <1>6, <1>7, <1>8, <1>9

\* A recorded device on the way to an address is where the route looks for it.
LEMMA OnTheWay ==
  ASSUME RoutesAssumption, PlacesUnbroken, PathInv, NEW address \in Addresses, Unbroken(address),
         NEW i \in 1 .. Depth(address) + 1, NEW device \in placed,
         place[device] = [byte \in 1 .. 4 |-> IF byte <= Depth(address) + 2 - i
                                             THEN address[byte] ELSE 0]
  PROVE  /\ i <= Depth(address) =>
              chain[address[1]][<<Depth(address) + 1 - i, address[Depth(address) + 2 - i]>>] = device
         /\ i = Depth(address) + 1 => portDevice[address[1]] = device
<1> DEFINE above == place[device]
<1>1. device \in Devices /\ above # Unknown
  BY DEF PathInv, TypeOK, Recorded
<1>2. above \in Addresses /\ Unbroken(above)
  BY <1>1 DEF PathInv, TypeOK, Located, PlacesUnbroken
<1>3. Depth(address) \in 0 .. 3 /\ i \in 1 .. 4
  BY DepthIs
<1>4. /\ \A byte \in 1 .. 4 : above[byte] = IF byte <= Depth(address) + 2 - i THEN address[byte] ELSE 0
      /\ above[1] = address[1]
  BY <1>3
<1> HIDE DEF above
<1>5. ASSUME i <= Depth(address)
      PROVE  chain[address[1]][<<Depth(address) + 1 - i, address[Depth(address) + 2 - i]>>] = device
  <2> DEFINE m == Depth(address) + 1 - i
  <2>1. m \in 1 .. 3 /\ m + 1 = Depth(address) + 2 - i
    BY <1>3, <1>5
  <2>2. \A byte \in 2 .. 4 : above[byte] # 0 <=> byte <= m + 1
    <3>1. \A byte \in 2 .. 4 : address[byte] # 0 <=> byte <= Depth(address) + 1
      BY DepthIs
    <3> QED
      BY <1>3, <1>4, <1>5, <2>1, <3>1
  <2>3. Depth(above) = m
    BY <1>2, <2>1, <2>2, DepthIs
  <2>4. BehindPort(above)
    BY <1>1, <2>1, <2>2 DEF BehindPort, above
  <2>5. SlotOf(above) = <<m, above[m + 1]>>
    BY <1>2, <2>3, <2>4, SlotIs
  <2>6. above[m + 1] = address[Depth(address) + 2 - i]
    BY <1>3, <1>4, <2>1
  <2>7. chain[above[1]][SlotOf(above)] = device
    BY <2>4 DEF PathInv, Recorded, above
  <2> QED
    BY <1>4, <2>5, <2>6, <2>7
<1>6. ASSUME i = Depth(address) + 1
      PROVE  portDevice[address[1]] = device
  <2>1. above[2] = 0 /\ above[3] = 0 /\ above[4] = 0
    BY <1>3, <1>4, <1>6
  <2>2. OnPort(above)
    BY <1>2, <2>1, AddressBytes DEF OnPort
  <2>3. portDevice[above[1]] = device
    BY <2>2 DEF PathInv, Recorded, above
  <2> QED
    BY <1>4, <2>3
<1> QED
  BY <1>5, <1>6

\* What GetActiveRoute answers is the true path through the network when every device
\* on the path has been recorded (addChild, removeChild, getRoute), wherever devices
\* move to and whatever comes in between, as long as physical addresses are what HDMI
\* makes them: the address of the device above with one byte more.
THEOREM RouteIsTrue == RoutesAssumption /\ PlacesUnbroken => (Spec => []RouteIsPath)
<1> SUFFICES ASSUME RoutesAssumption, PlacesUnbroken
             PROVE  Spec => []RouteIsPath
  OBVIOUS
<1>1. Init => Located /\ Recorded
  BY PathInit
<1>2. TypeOK /\ Located /\ Recorded /\ [Next]_vars => (Located /\ Recorded)'
  BY PathStep DEF PathInv
<1>3. TypeOK /\ Located /\ Recorded => RouteIsPath
  <2> DEFINE address == place[current]
             raw == getRoute(address)
             path == Path(address)
  <2> SUFFICES ASSUME PathInv, current \in Devices, GetActiveRoute.path # <<>>,
                      record[current].address = address,
                      \A i \in DOMAIN path : path[i] # {} /\ path[i] \subseteq placed
               PROVE  /\ Len(GetActiveRoute.path) = Len(path)
                      /\ \A i \in DOMAIN path : path[i] = {GetActiveRoute.path[i]}
    BY DEF RouteIsPath, PathInv
  <2>1. Named(<<>>) = <<>>
    <3> DEFINE nothing == <<>>
    <3>1. nothing \in Seq(Devices \cup {None}) /\ Len(nothing) = 0
      BY EmptySeq
    <3> HIDE DEF nothing
    <3>2. \A i \in 1 .. Len(nothing) : nothing[i] # None
      BY <3>1
    <3>3. Named(nothing) = nothing
      BY <3>1, <3>2, NamedIs
    <3> QED
      BY <3>3 DEF nothing
  <2>2. getActiveRoute = raw /\ raw # <<>> /\ GetActiveRoute.path = Named(raw)
    BY <2>1 DEF GetActiveRoute, getActiveRoute
  <2>3. address \in Addresses /\ Unbroken(address)
    BY <2>2 DEF getRoute, PathInv, TypeOK, Located, PlacesUnbroken
  <2> DEFINE k == Depth(address)
             prefix(i) == [byte \in 1 .. 4 |-> IF byte <= k + 2 - i THEN address[byte] ELSE 0]
  <2>4. k \in 0 .. 3 /\ Len(Hops(address)) = k
    BY <2>3, DepthIs, HopsAre
  <2>5. path = [i \in 1 .. k + 1 |-> {device \in Devices : place[device] = prefix(i)}]
    BY <2>4 DEF Path
  <2>6. raw \in Seq(Devices \cup {None}) /\ Len(raw) = k + 1
    BY <2>2, <2>3, RouteOf
  <2>7. ASSUME NEW i \in 1 .. k + 1
        PROVE  raw[i] \in Devices /\ path[i] = {raw[i]}
    <3>1. i \in DOMAIN path /\ path[i] = {device \in Devices : place[device] = prefix(i)}
      BY <2>5
    <3>2. PICK device \in placed : device \in Devices /\ place[device] = prefix(i)
      BY <3>1
    <3>3. raw[i] = device
      <4>1. /\ i <= k => chain[address[1]][<<k + 1 - i, address[k + 2 - i]>>] = device
            /\ i = k + 1 => portDevice[address[1]] = device
        <5>1. place[device] = [byte \in 1 .. 4 |-> IF byte <= Depth(address) + 2 - i
                                                   THEN address[byte] ELSE 0]
          BY <3>2
        <5>2. i \in 1 .. Depth(address) + 1
          OBVIOUS
        <5> HIDE DEF address
        <5> QED
          BY <2>3, <5>1, <5>2, OnTheWay
      <4>2. /\ i <= k => raw[i] = chain[address[1]][<<k + 1 - i, address[k + 2 - i]>>]
            /\ i = k + 1 => raw[i] = portDevice[address[1]]
        <5>1. /\ \A j \in 1 .. k : raw[j] = chain[address[1]][<<k + 1 - j, address[k + 2 - j]>>]
              /\ raw[k + 1] = portDevice[address[1]]
          BY <2>2, <2>3, RouteOf
        <5> HIDE DEF raw
        <5> QED
          BY <2>4, <5>1
      <4> QED
        BY <2>4, <4>1, <4>2
    <3>4. place[device] # Unknown
      BY <3>2 DEF PathInv, Recorded
    <3>5. \A other \in Devices : place[other] = prefix(i) => other = device
      BY <3>2, <3>4 DEF PathInv, Located
    <3> QED
      BY <3>1, <3>2, <3>3, <3>5
  <2>8. Named(raw) = raw
    <3>1. \A i \in 1 .. Len(raw) : raw[i] # None
      BY <2>6, <2>7 DEF RoutesAssumption
    <3> QED
      BY <2>6, <3>1, NamedIs
  <2>9. DOMAIN path = 1 .. k + 1 /\ Len(path) = k + 1
    BY <2>4, <2>5
  <2> QED
    BY <2>2, <2>6, <2>7, <2>8, <2>9
<1> HIDE DEF Located, Recorded, PlacesUnbroken
<1> QED
  BY <1>1, <1>2, <1>3, RoutesTypeCorrect, PTL DEF Spec

=============================================================================
