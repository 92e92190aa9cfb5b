----------------------------- MODULE SinkRoutes -----------------------------
(***************************************************************************)
(* Routing and the active source in HdmiCecSinkImplementation: the map of  *)
(* each HDMI port (the device on the port and the chain of devices behind  *)
(* it), the records that the route is read from, m_currentActiveSource,    *)
(* and what the clients have been told of it.                              *)
(*                                                                         *)
(* A handler of the reader thread, a hot plug, a ping that fails and an    *)
(* API call are one step each; how addDevice and removeDevice interleave   *)
(* is SinkDevices.  Frames that change nothing in the plugin (requests     *)
(* that it answers, frames it only sends) are left out.                    *)
(*                                                                         *)
(* The variables displaced, returned, hushed, placed and strayed are       *)
(* history: no guard reads them.                                           *)
(***************************************************************************)
EXTENDS Naturals, Sequences, FiniteSets

CONSTANTS
  Devices,     \* logical addresses of the devices, the TV's not among them
  None,        \* LogicalAddress::UNREGISTERED, and m_currentActiveSource = -1
  TV,          \* the TV's own logical address
  Ports,       \* first bytes of the physical addresses, m_portID + 1
  MaxByte,     \* the largest other byte of a physical address
  Places,      \* for each device the physical addresses it may be found at
  Unknown,     \* the physical address F.F.F.F of a cleared record
  MaxEvents    \* moves, hot plugs, power changes and API calls in a behaviour

Addresses == Ports \X (0 .. MaxByte) \X (0 .. MaxByte) \X (0 .. MaxByte)

RoutesAssumption ==
  /\ None \notin Devices /\ TV \notin Devices /\ TV # None
  /\ Ports \subseteq Nat \ {0}
  /\ MaxByte \in Nat /\ MaxEvents \in Nat
  /\ Unknown \notin Addresses
  /\ Places \in [Devices -> SUBSET Addresses]

\* DeviceNode: a slot for each byte of each level below the port.
Slots == (1 .. 3) \X (1 .. MaxByte)

Cleared == [present |-> FALSE, active |-> FALSE, address |-> Unknown]

VARIABLES
  linked,      \* a logical address is allocated and the listener attached
  powerOn,     \* powerState
  record,      \* deviceList: m_isDevicePresent, m_isActiveSource, m_physicalAddr
  portDevice,  \* HdmiPortMap::m_logicalAddr
  chain,       \* HdmiPortMap::m_deviceChain
  current,     \* m_currentActiveSource
  told,        \* the active source according to the last notifications
  place,       \* where the devices are, Unknown when off the bus
  events,      \* bounded events so far
  displaced,   \* lost the active source without a message of their own
  returned,    \* removed while they were the active source
  hushed,      \* told inactive by an <Image View On> while active
  placed,      \* recorded in the map of their port, and nothing since undid it
  strayed      \* told another address, or was cleared by CECDisable, on a port

pluginVars == <<linked, powerOn, record, portDevice, chain, current, told>>
history == <<displaced, returned, hushed, placed, strayed>>
vars == <<pluginVars, place, events, history>>

(***************************************************************************)
(* The map of a port.                                                      *)
(***************************************************************************)

\* The levels below the port that an address names, the deepest first.
Hop(address, level) == IF address[2] # 0 /\ address[level + 1] # 0 THEN <<level>> ELSE <<>>
Hops(address) == Hop(address, 3) \o Hop(address, 2) \o Hop(address, 1)

SlotOfNearest(address) == <<1, address[2]>>

\* The slot that addChild and removeChild use: the deepest byte decides.
SlotOf(address) == LET level == Head(Hops(address)) IN <<level, address[level + 1]>>

BehindPort(address) == address # Unknown /\ address[2] # 0

OnPort(address) == address = <<address[1], 0, 0, 0>>

\* The children of a port are kept once the port's own device is known.
IsChild(device, address) ==
  portDevice[address[1]] \notin {None, device} /\ BehindPort(address)

IsDirect(device, address) ==
  portDevice[address[1]] \in {None, device} /\ OnPort(address)

addChild(device, address) ==
  /\ chain' = IF IsChild(device, address)
              THEN [chain EXCEPT ![address[1]][SlotOf(address)] = device] ELSE chain
  /\ portDevice' = IF IsDirect(device, address)
                   THEN [portDevice EXCEPT ![address[1]] = device] ELSE portDevice

removeChild(address) ==
  chain' = IF portDevice[address[1]] # None /\ BehindPort(address)
           THEN [chain EXCEPT ![address[1]][SlotOf(address)] = None] ELSE chain

\* The logical addresses from the device at this address up to the port.
getRoute(address) ==
  IF address = Unknown \/ portDevice[address[1]] = None THEN <<>>
  ELSE [i \in DOMAIN Hops(address) |->
          chain[address[1]][<<Hops(address)[i], address[Hops(address)[i] + 1]>>]]
         \o <<portDevice[address[1]]>>

(***************************************************************************)
(* Records.                                                                *)
(***************************************************************************)

ForgottenFlagOnly(device) == [record EXCEPT ![device].present = FALSE]

\* clear.
Forgotten(device) == [record EXCEPT ![device] = Cleared]

\* addDevice: the record keeps what it held, which clear has emptied.
Added(device) == [record EXCEPT ![device].present = TRUE]

\* History: the devices on this port, and those that some port still names.
OnBus(port) == {device \in Devices : place[device] # Unknown /\ place[device][1] = port}
Held(holders) == {holders[port] : port \in Ports} \cap Devices

\* History: the device is recorded on a port and tells another address.
Strays(device) ==
  IF record[device].address # place[device] THEN {device} \cap Held(portDevice) ELSE {}

PortsKept(port) == portDevice

PortsWithout(port) == [portDevice EXCEPT ![port] = None]

\* removeDevice: any device that goes unsets the device of its port.
removeDevice(device) ==
  LET address == record[device].address IN
  /\ linked /\ record[device].present
  /\ IF address = Unknown THEN UNCHANGED <<chain, portDevice, placed, strayed>>
     ELSE /\ removeChild(address)
          /\ portDevice' = PortsWithout(address[1])
          /\ placed' = placed \ OnBus(address[1])
          /\ strayed' = strayed \cap Held(portDevice')
  /\ record' = Forgotten(device)
  /\ returned' = IF current = device THEN returned \cup {device} ELSE returned
  /\ UNCHANGED <<linked, powerOn, current, told, displaced, hushed>>

(***************************************************************************)
(* Messages.                                                               *)
(***************************************************************************)

ActivatedToo(device) ==
  [record EXCEPT ![device] = [present |-> TRUE, active |-> TRUE, address |-> place[device]]]

\* The flag goes from the current source to the new one, and to no other.
Activated(device) == [other \in Devices |->
  IF other = device THEN [present |-> TRUE, active |-> TRUE, address |-> place[device]]
  ELSE [record[other] EXCEPT !.active = @ /\ other # current]]

updateActiveSource(device) ==
  /\ record' = Activated(device)
  /\ current' = device /\ told' = device
  /\ displaced' = displaced \ {device}
  /\ returned' = returned \ {device}
  /\ hushed' = hushed \ {device}
  /\ strayed' = strayed \cup Strays(device)
  /\ UNCHANGED <<linked, powerOn, portDevice, chain, placed>>

VacatedByAny(device) == None

Vacated(device) == IF current = device THEN None ELSE current

updateInActiveSource(device) ==
  /\ record' = [record EXCEPT ![device].active = FALSE]
  /\ current' = Vacated(device)
  /\ told' = IF told = device THEN None ELSE told
  /\ displaced' = displaced \ {device}
  /\ UNCHANGED <<linked, powerOn, portDevice, chain, returned, hushed, placed, strayed>>

\* Clients hear OnInActiveSource of a device that wants to be seen.
updateImageViewOn(device) ==
  /\ record' = Added(device)
  /\ told' = IF told = device THEN None ELSE told
  /\ hushed' = hushed \cup {device}
  /\ UNCHANGED <<linked, powerOn, portDevice, chain, current, displaced, returned, placed, strayed>>

\* A successful ping, <CEC Version>, <Set OSD Name>, <Device Vendor ID>,
\* <Report Power Status> and <Text View On>.
addDevice(device) ==
  /\ record' = Added(device)
  /\ UNCHANGED <<linked, powerOn, portDevice, chain, current, told, history>>

\* <Report Physical Address>; history: which devices lose their slot to this one.
updateDeviceChain(device) ==
  LET address == place[device]
      rivals == {other \in Devices :
                   /\ BehindPort(address) /\ BehindPort(place[other])
                   /\ place[other][1] = address[1]
                   /\ Len(Hops(place[other])) = Len(Hops(address))
                   /\ place[other][Len(Hops(address)) + 1] = address[Len(Hops(address)) + 1]} IN
  /\ record' = [Added(device) EXCEPT ![device].address = address]
  /\ addChild(device, address)
  /\ placed' = IF IsChild(device, address) \/ IsDirect(device, address)
               THEN (placed \ rivals) \cup {device} ELSE placed \ {device}
  /\ strayed' = strayed \cup Strays(device)
  /\ UNCHANGED <<linked, powerOn, current, told, displaced, returned, hushed>>

Receive(device) ==
  /\ linked /\ place[device] # Unknown
  /\ \/ updateActiveSource(device)
     \/ updateInActiveSource(device)
     \/ updateImageViewOn(device)
     \/ addDevice(device)
     \/ updateDeviceChain(device)
  /\ UNCHANGED <<place, events>>

(***************************************************************************)
(* The bus, the cables, the calls.                                         *)
(***************************************************************************)

Moves(device) ==
  \E address \in (Places[device] \cup {Unknown}) \ {place[device]} :
    /\ address = Unknown \/ \A other \in Devices : place[other] # address
    /\ place' = [place EXCEPT ![device] = address]
    /\ placed' = placed \ {device}
    /\ UNCHANGED <<pluginVars, displaced, returned, hushed, strayed>>

PingFails(device) ==
  place[device] = Unknown /\ removeDevice(device) /\ UNCHANGED <<place, events>>

\* The cable of a port is out: the device on the port goes.
onHdmiHotPlug(port) ==
  /\ OnBus(port) = {} /\ portDevice[port] \in Devices
  /\ removeDevice(portDevice[port])
  /\ UNCHANGED <<place, events>>

\* What is taken from the current source without a message of its own.
Take(source) ==
  /\ current' = source
  /\ displaced' = displaced \cup ({current} \cap Devices)
  /\ UNCHANGED <<linked, record, portDevice, chain, told, returned, hushed, placed, strayed>>

setActiveSource == linked /\ Take(TV) /\ UNCHANGED powerOn

\* Sets m_currentActiveSource before the ports are checked, and whatever the frame does.
setRoutingChange ==
  \E from, to \in {"TV", "HDMI"} :
    /\ linked /\ "TV" \in {from, to}
    /\ Take(IF to = "TV" THEN TV ELSE None)
    /\ UNCHANGED powerOn

onPowerModeChanged ==
  /\ powerOn' = ~powerOn
  /\ IF linked /\ powerOn THEN Take(None)
     ELSE UNCHANGED <<linked, record, portDevice, chain, current, told, history>>

\* CECEnable and the first pass of threadRun.
CECEnable ==
  /\ ~linked /\ linked' = TRUE
  /\ UNCHANGED <<powerOn, record, portDevice, chain, current, told, history>>

\* The records go; the ports and m_currentActiveSource stay.
CECDisable ==
  /\ linked /\ linked' = FALSE
  /\ record' = [device \in Devices |-> Cleared]
  /\ returned' = returned \cup ({current} \cap Devices)
  /\ placed' = {}
  /\ strayed' = strayed \cup Held(portDevice)
  /\ UNCHANGED <<powerOn, portDevice, chain, current, told, displaced, hushed>>

Event ==
  /\ events < MaxEvents /\ events' = events + 1
  /\ \/ \E device \in Devices : Moves(device)
     \/ /\ setActiveSource \/ setRoutingChange \/ onPowerModeChanged \/ CECEnable \/ CECDisable
        /\ UNCHANGED place

Init ==
  /\ linked = FALSE /\ powerOn = TRUE
  /\ record = [device \in Devices |-> Cleared]
  /\ portDevice = [port \in Ports |-> None]
  /\ chain = [port \in Ports |-> [slot \in Slots |-> None]]
  /\ current = None /\ told = None
  /\ place = [device \in Devices |-> Unknown]
  /\ events = 0
  /\ displaced = {} /\ returned = {} /\ hushed = {} /\ placed = {} /\ strayed = {}

Next ==
  \/ \E device \in Devices : Receive(device) \/ PingFails(device)
  \/ \E port \in Ports : onHdmiHotPlug(port)
  \/ Event

Spec == Init /\ [][Next]_vars
-----------------------------------------------------------------------------
(***************************************************************************)
(* Answers to the clients.                                                 *)
(***************************************************************************)

\* The record of a removed device has the logical address 0, the TV's.
GetActiveSource ==
  [available |-> current # None,
   source |-> IF current \in Devices /\ record[current].present THEN current ELSE TV]

getActiveRoute ==
  IF current \in Devices /\ linked /\ record[current].present /\ record[current].active
  THEN getRoute(record[current].address) ELSE <<>>

\* The devices of a route; a slot that holds none is passed over.
Named(route) ==
  LET at == {i \in DOMAIN route : route[i] # None}
      Nth(n) == CHOOSE i \in at : Cardinality({j \in at : j < i}) = n - 1
  IN [n \in 1 .. Cardinality(at) |-> route[Nth(n)]]

GetActiveRoute ==
  [available |-> (current = TV /\ linked) \/ getActiveRoute # <<>>,
   path |-> Named(getActiveRoute)]

\* GetDeviceList: the ports reported for a device.
HdmiPortsOf(device) == {port \in Ports : portDevice[port] = device}

(***************************************************************************)
(* Properties.                                                             *)
(***************************************************************************)

\* Every record is of a shape the code gives it, and a device that is absent
\* from deviceList has the record that clear leaves.
TypeOK ==
  /\ linked \in BOOLEAN /\ powerOn \in BOOLEAN
  /\ record \in [Devices -> [present : BOOLEAN, active : BOOLEAN,
                             address : Addresses \cup {Unknown}]]
  /\ portDevice \in [Ports -> Devices \cup {None}]
  /\ chain \in [Ports -> [Slots -> Devices \cup {None}]]
  /\ current \in Devices \cup {None, TV}
  /\ told \in Devices \cup {None}
  /\ place \in [Devices -> Addresses \cup {Unknown}]
  /\ events \in 0 .. MaxEvents
  /\ displaced \subseteq Devices /\ returned \subseteq Devices
  /\ hushed \subseteq Devices /\ placed \subseteq Devices /\ strayed \subseteq Devices
  /\ \A device \in Devices : ~record[device].present => record[device] = Cleared

\* m_isActiveSource and m_currentActiveSource agree: a device that is flagged
\* and not current lost its place to the TV, a routing change or standby, and
\* GetActiveSource names the current device and GetActiveRoute has its route,
\* unless the device was removed meanwhile (removeDevice leaves
\* m_currentActiveSource, and GetActiveSource then names the TV).
OneActiveSource ==
  /\ \A device \in Devices :
       record[device].active => device = current \/ device \in displaced
  /\ current \in Devices \ returned =>
       /\ GetActiveSource = [available |-> TRUE, source |-> current]
       /\ getActiveRoute = getRoute(record[current].address)
  /\ GetActiveRoute.available => GetActiveSource.available

\* A client that follows OnActiveSourceChange and OnInActiveSource knows the
\* active source: what it was told last is current, or was replaced without a
\* message, and it misses a current device only after <Image View On>, which is
\* passed on as OnInActiveSource.
ClientKnowsSource ==
  /\ told \in Devices => told = current \/ told \in displaced
  /\ current \in Devices \ hushed => told = current

\* The device that a port names is present and known at the port's own address,
\* unless it told another address without having been removed, or CECDisable
\* cleared its record: then GetDeviceList names the right port, and one only.
PortsTrue ==
  \A device \in Devices \ strayed : \A port \in HdmiPortsOf(device) :
    record[device].present /\ record[device].address = <<port, 0, 0, 0>>

\* The device at each address from this one up to its port, in the network itself.
Path(address) ==
  LET prefix(i) == [byte \in 1 .. 4 |->
        IF byte <= Len(Hops(address)) + 2 - i THEN address[byte] ELSE 0] IN
  [i \in 1 .. Len(Hops(address)) + 1 |->
     {device \in Devices : place[device] = prefix(i)}]

\* GetActiveRoute is the true path through the network when every device on the
\* path has been recorded since the last removal behind its port: the levels,
\* their order and the slots of addChild, removeChild and getRoute fit together.
RouteIsPath ==
  LET route == GetActiveRoute.path
      path == Path(place[current]) IN
  current \in Devices /\ route # <<>> /\ record[current].address = place[current]
  /\ (\A i \in DOMAIN path : path[i] # {} /\ path[i] \subseteq placed)
  => Len(route) = Len(path) /\ \A i \in DOMAIN path : path[i] = {route[i]}

=============================================================================
