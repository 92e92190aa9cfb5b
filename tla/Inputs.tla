------------------------------- MODULE Inputs -------------------------------
(***************************************************************************)
(* HdmiInput and AVInput: two plugins over one device settings driver.     *)
(* Clients start and stop inputs and set the mixer levels, each call step  *)
(* by step, since the plugins lock nothing and keep the plane and the      *)
(* balance flag in static variables; the driver's changes reach each       *)
(* plugin as events, in order and late, and the plugin tells its clients.  *)
(*                                                                         *)
(* The variables torn, chosen, steady and vrrPorts are history: no guard    *)
(* reads them.                                                             *)
(***************************************************************************)
EXTENDS Integers, Sequences

CONSTANTS
  Callers,         \* threads that serve client calls
  HdmiPorts,       \* port numbers of the HDMI inputs
  CompositePorts,  \* port numbers of the composite inputs, none of them HDMI's
  Signals,         \* dsHdmiInSignalStatus_t values the driver reports
  Pixels,          \* pixel resolutions the driver reports, <<width, height>>
  Rates,           \* frame rates the driver reports, in hundredths of a hertz
  VrrTypes,        \* dsVRRType_t other than dsVRR_NONE
  Contents,        \* AVI content types
  Levels,          \* mixer levels clients ask for
  Planes,          \* planes clients ask for; 0 and 1 exist
  MaxChanges,      \* changes of the driver and calls, together
  MaxFaults        \* driver calls that throw

InputsAssumption ==
  /\ HdmiPorts \cap CompositePorts = {} /\ -1 \notin HdmiPorts \cup CompositePorts
  /\ Levels \subseteq Int /\ Rates \subseteq Nat /\ "dsVRR_NONE" \notin VrrTypes

InputPorts   == HdmiPorts \cup CompositePorts
Plugins == {"HdmiInput", "AVInput"}
Full    == 100   \* MAX_PRIM_VOL_LEVEL and DEFAULT_INPUT_VOL_LEVEL
NoVrr   == "dsVRR_NONE"
Idle    == [op |-> "none"]

TypeOf(port) == IF port \in HdmiPorts THEN "HDMI" ELSE "COMPOSITE"

\* The events a plugin registers for.
Listens(plugin, kind, type) ==
  plugin = "AVInput" \/ (type = "HDMI" /\ kind # "VRR")

\* What the driver reports of a port, by kind, apart from presentation.
Values(port) ==
  [connected |-> BOOLEAN, signal |-> Signals, mode |-> Pixels \X Rates]

HdmiValues == [ALLM |-> BOOLEAN, VRR |-> VrrTypes \cup {NoVrr}, content |-> Contents]

VARIABLES
  driver,      \* kind |-> port |-> the value the driver has
  select,      \* type |-> the port presented and its plane, -1 for none
  mixer,       \* the mixer's primary and input level
  queue,       \* plugin |-> events not yet delivered
  reported,    \* plugin |-> kind |-> port |-> what clients heard last
  planeType,   \* plugin |-> the static variable
  balanceSet,  \* plugin |-> isAudioBalanceSet
  vrrType,     \* AVInput: m_currentVrrType
  request,     \* caller |-> the call and its next step
  changes, failed,   \* bounded
  torn,        \* a restoration met a new balance, or a balance failed half-way
  chosen,      \* the plane asked for by the call that selected the HDMI port,
               \* and whether that call ran alone in its plugin
  vrrPorts,    \* the HDMI ports whose VRR AVInput has heard of
  steady       \* the plugin whose call it was, unless another call of the
               \* plugin began before its events were delivered

driverVars == <<driver, select, mixer>>
vrr        == <<vrrType, vrrPorts>>
pluginVars == <<planeType, balanceSet, vrr>>
history    == <<torn, chosen, steady>>
vars == <<driverVars, queue, reported, pluginVars, request, changes, failed, history>>

Busy(plugin) == {c \in Callers : request[c] # Idle /\ request[c].plugin = plugin}

Pending(plugin, kind) == \E i \in DOMAIN queue[plugin] : queue[plugin][i].kind = kind

(***************************************************************************)
(* Events.                                                                 *)
(***************************************************************************)

Event(kind, port, value) == [kind |-> kind, port |-> port, value |-> value]

\* Events of one kind and type of input, in this order, join the queue of every
\* plugin that listens.
Send(kind, type, events) ==
  queue' = [plugin \in Plugins |->
     IF Listens(plugin, kind, type) THEN queue[plugin] \o events ELSE queue[plugin]]

Sizes == {<<720, 480>>, <<720, 576>>, <<1280, 720>>, <<1920, 1080>>, <<3840, 2160>>, <<4096, 2160>>}

\* Width and height; a composite input knows the two small ones.
Size(type, pixels) ==
  IF type = "HDMI"
  THEN IF pixels \in Sizes THEN pixels ELSE <<1920, 1080>>
  ELSE IF pixels \in {<<720, 480>>, <<720, 576>>} THEN pixels ELSE <<720, 576>>

KnownRates == {2398, 2400, 2500, 2997, 3000, 5000, 5994, 6000, 10000, 11988, 12000,
               20000, 23976, 24000}

\* frameRateN and frameRateD: the odd rates are the next whole one by 1.001.
FrameRate(rate) ==
  CASE rate \notin KnownRates -> <<60000, 1000>>
    [] rate = 24000 -> <<240000, 100>>
    [] rate % 100 = 0 -> <<rate * 10, 1000>>
    [] OTHER -> <<(rate \div 100 + 1) * 1000, 1001>>

dsAVGameFeatureStatusOnOnly(on, port, new) ==
  [on EXCEPT ![port] = @ \cup ({new} \ {NoVrr})]

\* AVInput keeps one VRR type for all ports: the old one is told to be off, on
\* this event's port, before the new one is told to be on.
dsAVGameFeatureStatusEventHandler(on, port, new) ==
  [on EXCEPT ![port] = (@ \ {vrrType}) \cup ({new} \ {NoVrr})]

\* getHDMIInputDevices, getInputDevices: the hot plug handlers read the driver anew.
getInputDevices(type, known) ==
  [port \in InputPorts |-> IF TypeOf(port) = type THEN driver.connected[port] ELSE known[port]]

Deliver(plugin) ==
  /\ queue[plugin] # <<>>
  /\ queue' = [queue EXCEPT ![plugin] = Tail(@)]
  /\ LET e == Head(queue[plugin])
         heard(value) == [reported EXCEPT ![plugin][e.kind][e.port] = value] IN
     /\ reported' = CASE
          e.kind = "connected" ->
            [reported EXCEPT ![plugin].connected = getInputDevices(TypeOf(e.port), @)]
          [] e.kind = "mode" ->
            heard(<<Size(TypeOf(e.port), e.value[1]), FrameRate(e.value[2])>>)
          [] e.kind = "status" -> heard([started |-> e.value, plane |-> planeType[plugin]])
          [] e.kind = "VRR" ->
            [reported EXCEPT ![plugin].VRR =
               dsAVGameFeatureStatusEventHandler(@, e.port, e.value)]
          [] OTHER -> heard(e.value)
     /\ vrrType' = IF e.kind = "VRR" THEN e.value ELSE vrrType
     /\ vrrPorts' = IF e.kind = "VRR" THEN vrrPorts \cup {e.port} ELSE vrrPorts
  /\ UNCHANGED <<driverVars, planeType, balanceSet, request, changes, failed, history>>

\* The cable, the signal, the source: the driver changes and says so.
DriverChanges ==
  /\ changes < MaxChanges /\ changes' = changes + 1
  /\ \E port \in InputPorts :
       LET of == IF port \in HdmiPorts THEN HdmiValues ELSE <<>>
           change(kind, value) ==
             /\ driver[kind][port] # value
             /\ driver' = [driver EXCEPT ![kind][port] = value]
             /\ Send(kind, TypeOf(port), <<Event(kind, port, value)>>) IN
       \/ \E kind \in DOMAIN Values(port) : \E value \in Values(port)[kind] : change(kind, value)
       \/ \E kind \in DOMAIN of : \E value \in of[kind] : change(kind, value)
  /\ UNCHANGED <<select, mixer, reported, pluginVars, request, failed, history>>

(***************************************************************************)
(* Calls.                                                                  *)
(***************************************************************************)

\* A call begins at this step; history: which calls run alone.
Begin(c, call) ==
  /\ request[c] = Idle /\ changes < MaxChanges /\ changes' = changes + 1
  /\ request' = [other \in Callers |->
       IF other = c THEN [call EXCEPT !.alone = Busy(call.plugin) = {}]
       ELSE IF other \in Busy(call.plugin) THEN [request[other] EXCEPT !.alone = FALSE]
       ELSE request[other]]

At(c, op, step) == request[c].op = op /\ request[c].step = step
Go(c, step)     == request' = [request EXCEPT ![c].step = step]
Return(c)       == request' = [request EXCEPT ![c] = Idle]

\* History: planeType is about to change while a last event may be on its way.
Disturb(plugin) ==
  steady' = IF Busy(plugin) # {} \/ Pending(plugin, "status") THEN steady \ {plugin} ELSE steady

\* The driver presents a port, or none, and reports what has changed.
selectPort(type, port, plane) ==
  LET old == select[type].port IN
  /\ select' = [select EXCEPT ![type] = [port |-> port, plane |-> plane]]
  /\ Send("status", type,
          (IF old \notin {-1, port} THEN <<Event("status", old, FALSE)>> ELSE <<>>)
            \o IF port # -1 THEN <<Event("status", port, TRUE)>> ELSE <<>>)

\* startHdmiInput, startInput: the plane goes through the static variable.
start(c) ==
  \E plugin \in Plugins, port \in InputPorts, plane \in Planes :
    /\ Listens(plugin, "status", TypeOf(port))
    /\ Begin(c, [op |-> "start", plugin |-> plugin, port |-> port, plane |-> plane,
                 step |-> "plane", alone |-> TRUE])
    /\ planeType' = [planeType EXCEPT ![plugin] = 0]
    /\ Disturb(plugin)
    /\ UNCHANGED <<driverVars, queue, reported, balanceSet, vrr, failed, torn, chosen>>

\* A plane that does not exist is refused, and stays in the variable.
startPlane(c) ==
  /\ At(c, "start", "plane")
  /\ planeType' = [planeType EXCEPT ![request[c].plugin] = request[c].plane]
  /\ IF request[c].plane \in {0, 1} THEN Go(c, "select") ELSE Return(c)
  /\ UNCHANGED <<driverVars, queue, reported, balanceSet, vrr, changes, failed, history>>

PlaneReset(call) == 0

PlaneOf(call) == planeType[call.plugin]

startSelect(c) ==
  /\ At(c, "start", "select") /\ Return(c)
  /\ LET call == request[c] IN
     IF call.port \in HdmiPorts
     THEN /\ selectPort("HDMI", call.port, PlaneOf(call))
          /\ chosen' = [plane |-> call.plane, alone |-> call.alone]
          /\ steady' = IF call.alone THEN {call.plugin} ELSE {}
     ELSE selectPort("COMPOSITE", call.port, 0) /\ UNCHANGED <<chosen, steady>>
  /\ UNCHANGED <<mixer, driver, reported, pluginVars, changes, failed, torn>>

\* stopHdmiInput, stopInput: AVInput resets the plane before the mixer's
\* levels, HdmiInput after them.
stop(c) ==
  \E plugin \in Plugins, type \in {"HDMI", "COMPOSITE"} :
    /\ plugin = "HdmiInput" => type = "HDMI"
    /\ Begin(c, [op |-> "stop", plugin |-> plugin, type |-> type, alone |-> TRUE,
                 step |-> IF balanceSet[plugin] THEN "primary" ELSE "select"])
    /\ planeType' = [planeType EXCEPT ![plugin] =
                       IF plugin = "AVInput" \/ ~balanceSet[plugin] THEN -1 ELSE @]
    /\ torn' = (torn \/ (balanceSet[plugin] /\ \E m \in Busy(plugin) : request[m].op = "mix"))
    /\ Disturb(plugin)
    /\ UNCHANGED <<driverVars, queue, reported, balanceSet, vrr, failed, chosen>>

LowersFirst(step) == step = "primary"

\* isAudioBalanceSet falls when both levels are back.
Lowers(step) == step = "lower"

\* The levels one by one, then the flag and HdmiInput's plane.
stopRestores(c) ==
  /\ request[c].op = "stop" /\ request[c].step \in {"primary", "input", "lower"}
  /\ LET step == request[c].step IN
     /\ mixer' = IF step = "lower" THEN mixer ELSE [mixer EXCEPT ![step] = Full]
     /\ balanceSet' = [balanceSet EXCEPT ![request[c].plugin] = @ /\ ~Lowers(step)]
     /\ planeType' = [planeType EXCEPT !["HdmiInput"] =
                        IF step = "lower" /\ request[c].plugin = "HdmiInput" THEN -1 ELSE @]
     /\ Go(c, CASE step = "primary" -> "input" [] step = "input" -> "lower" [] OTHER -> "select")
  /\ UNCHANGED <<driver, select, queue, reported, vrr, changes, failed, history>>

stopSelect(c) ==
  /\ At(c, "stop", "select") /\ Return(c)
  /\ selectPort(request[c].type, -1, -1)
  /\ UNCHANGED <<driver, mixer, reported, planeType, balanceSet, vrr, changes, failed, history>>

\* The levels given to the driver are those asked for: only the members
\* m_primVolume and m_inputVolume, which nothing reads, are kept within 100.
setMixerLevels(c) ==
  \E plugin \in Plugins, primary, input \in Levels :
    /\ primary >= 0 /\ input >= 0
    /\ Begin(c, [op |-> "mix", plugin |-> plugin, primary |-> primary, input |-> input,
                 step |-> "primary", alone |-> TRUE])
    /\ torn' = (torn \/ \E s \in Busy(plugin) : request[s].op = "stop" /\ request[s].step # "select")
    /\ UNCHANGED <<driverVars, queue, reported, pluginVars, failed, chosen, steady>>

mixLevels(c) ==
  /\ request[c].op = "mix" /\ request[c].step \in {"primary", "input"}
  /\ LET step == request[c].step IN
     /\ mixer' = [mixer EXCEPT ![step] = request[c][step]]
     /\ Go(c, IF step = "primary" THEN "input" ELSE "raise")
  /\ UNCHANGED <<driver, select, queue, reported, pluginVars, changes, failed, history>>

mixRaises(c) ==
  /\ At(c, "mix", "raise") /\ Return(c)
  /\ balanceSet' = [balanceSet EXCEPT ![request[c].plugin] = TRUE]
  /\ UNCHANGED <<driverVars, queue, reported, planeType, vrr, changes, failed, history>>

\* device::Exception: the call answers false and leaves the rest undone.
DriverFails(c) ==
  /\ failed < MaxFaults /\ failed' = failed + 1
  /\ request[c] # Idle /\ request[c].step \in {"select", "primary", "input"}
  /\ Return(c)
  /\ torn' = (torn \/ At(c, "mix", "input"))
  /\ UNCHANGED <<driverVars, queue, reported, pluginVars, changes, chosen, steady>>

CallStep(c) ==
  \/ start(c) \/ startPlane(c) \/ startSelect(c)
  \/ stop(c) \/ stopRestores(c) \/ stopSelect(c)
  \/ setMixerLevels(c) \/ mixLevels(c) \/ mixRaises(c)
  \/ DriverFails(c)

Some(values) == CHOOSE value \in values : TRUE

\* Nothing connected; clients have asked for the rest.
Init ==
  /\ driver = [connected |-> [port \in InputPorts |-> FALSE],
               signal    |-> [port \in InputPorts |-> Some(Signals)],
               mode      |-> [port \in InputPorts |-> <<Some(Pixels), Some(Rates)>>],
               ALLM      |-> [port \in HdmiPorts |-> FALSE],
               VRR       |-> [port \in HdmiPorts |-> NoVrr],
               content   |-> [port \in HdmiPorts |-> Some(Contents)]]
  /\ reported = [plugin \in Plugins |->
       [connected |-> driver.connected, signal |-> driver.signal,
        mode      |-> [port \in InputPorts |->
                         <<Size(TypeOf(port), Some(Pixels)), FrameRate(Some(Rates))>>],
        ALLM      |-> driver.ALLM, content |-> driver.content,
        VRR       |-> [port \in HdmiPorts |-> {}],
        status    |-> [port \in InputPorts |-> [started |-> FALSE, plane |-> -1]]]]
  /\ select = [type \in {"HDMI", "COMPOSITE"} |-> [port |-> -1, plane |-> -1]]
  /\ mixer = [primary |-> Full, input |-> Full]
  /\ queue = [plugin \in Plugins |-> <<>>]
  /\ planeType = [plugin \in Plugins |-> 0]
  /\ balanceSet = [plugin \in Plugins |-> FALSE]
  /\ vrrType = NoVrr /\ vrrPorts = {}
  /\ request = [c \in Callers |-> Idle]
  /\ changes = 0 /\ failed = 0
  /\ torn = FALSE /\ chosen = [plane |-> -1, alone |-> TRUE] /\ steady = {}

Next ==
  \/ \E plugin \in Plugins : Deliver(plugin)
  \/ DriverChanges
  \/ \E c \in Callers : CallStep(c)

Spec == Init /\ [][Next]_vars
-----------------------------------------------------------------------------
(***************************************************************************)
(* Answers to clients that ask.                                            *)
(***************************************************************************)

getHdmiALLMStatus(port) == driver.ALLM[port]

getGameFeatureStatus(port, type) == driver.VRR[port] = type

(***************************************************************************)
(* Properties.                                                             *)
(***************************************************************************)

\* The static planeType may keep any number a client sent; the driver is given one
\* but 0 or 1, and -1 with a port, only by calls that met in the plugin.
TypeOK ==
  /\ \A type \in DOMAIN select :
       /\ select[type].port \in InputPorts \cup {-1}
       /\ select[type].port # -1 => TypeOf(select[type].port) = type
       /\ select[type].plane \in Planes \cup {-1, 0}
  /\ planeType \in [Plugins -> Planes \cup {-1, 0}] /\ balanceSet \in [Plugins -> BOOLEAN]
  /\ vrrType \in VrrTypes \cup {NoVrr}
  /\ \A level \in DOMAIN mixer : mixer[level] \in Levels \cup {Full}
  /\ \A plugin \in Plugins : \A i \in DOMAIN queue[plugin] :
       Listens(plugin, queue[plugin][i].kind, TypeOf(queue[plugin][i].port))
  /\ steady \subseteq Plugins /\ chosen.plane \in {-1, 0, 1}

\* Whenever no call is in progress and neither plugin has a balance to undo, the
\* mixer is at its full levels: no order of setMixerLevels, stop and driver
\* failures in the two plugins leaves an input's balance behind, except a
\* setMixerLevels that met a restoration in the same plugin or failed half-way.
MixerRestorable ==
  ~torn /\ (\A c \in Callers : request[c] = Idle) /\ (\A plugin \in Plugins : ~balanceSet[plugin])
    => mixer = [primary |-> Full, input |-> Full]

\* A rate told as a fraction is the driver's rate to the hundredth, except
\* 240 Hz, which is told as 2400 (frameRateD is 100), and unlisted rates.
RateTold(rate, fraction) ==
  rate \in KnownRates \ {24000} =>
    (fraction[1] * 100) \div fraction[2] \in {rate - 1, rate}

\* When a plugin has delivered all events, what its clients heard of every port
\* is what the driver has and what they would get by asking: hot plug, signal,
\* video mode, ALLM, content and presentation, in both plugins; VRR in AVInput as
\* long as a single port has had any, since the old type is told to be off on the
\* port of the new event.
EventsConverge ==
  \A plugin \in Plugins : queue[plugin] = <<>> =>
    LET heard == reported[plugin] IN
    \A port \in InputPorts : Listens(plugin, "status", TypeOf(port)) =>
      /\ heard.connected[port] = driver.connected[port]
      /\ heard.signal[port] = driver.signal[port]
      /\ heard.mode[port][1] = Size(TypeOf(port), driver.mode[port][1])
      /\ RateTold(driver.mode[port][2], heard.mode[port][2])
      /\ heard.status[port].started <=> select[TypeOf(port)].port = port
      /\ port \in HdmiPorts =>
           /\ heard.ALLM[port] = getHdmiALLMStatus(port)
           /\ heard.content[port] = driver.content[port]
           /\ plugin = "AVInput" /\ vrrPorts \subseteq {port} =>
                heard.VRR[port] = {type \in VrrTypes : getGameFeatureStatus(port, type)}

\* The plane goes from the call to the driver and from the plugin to its clients
\* through one static variable, and arrives: the HDMI port is on the plane that
\* the selecting call asked for if that call ran alone in its plugin, and clients
\* heard this plane if no other call of the plugin began before the event.
PlaneTrue ==
  LET port == select["HDMI"].port IN
  port # -1 =>
    /\ chosen.alone => select["HDMI"].plane = chosen.plane
    /\ \A plugin \in steady : ~Pending(plugin, "status") =>
         reported[plugin].status[port].plane = select["HDMI"].plane

=============================================================================
