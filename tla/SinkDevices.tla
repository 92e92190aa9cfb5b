----------------------------- MODULE SinkDevices ------------------------------
(***************************************************************************)
(* HdmiCecSink: the table of CEC devices and the thread that polls them    *)
(* (HdmiCecSinkImplementation.cpp).                                        *)
(*                                                                         *)
(* Threads, each with a program counter in pc:                             *)
(*   - "poll": threadRun;                                                  *)
(*   - "cec": the reader thread of libCEC, for the messages that change a  *)
(*     record of the table;                                                *)
(*   - "hpd": the IARM thread that runs onHdmiHotPlug;                     *)
(*   - "api": CECEnable and CECDisable, which exclude each other.          *)
(* No lock protects the table: two threads meet between a test of          *)
(* m_isDevicePresent and what follows it, so these are steps of their own. *)
(* Plain variables are taken as sequentially consistent and ++ as atomic.  *)
(* The television's own record is left out, and so are exceptions of       *)
(* libCEC.  Every device hangs on an HDMI port of its own.                 *)
(***************************************************************************)
EXTENDS Integers, FiniteSets, FiniteSetsExt

CONSTANTS
  Devices,      \* logical addresses of other devices
  Fields,       \* what is asked of a device in this instance
  MaxRetry,     \* HDMICECSINK_REQUEST_MAX_RETRY
  MaxEvents,    \* bound: power and cable events, devices that come and go
  MaxEnables    \* bound: the number of times that CEC is switched on

\* PA stands for the physical address and the device type, which come together.
\* requestType asks in this order.
FieldOrder == <<"PA", "NAME", "VERSION", "VENDOR", "POWER">>
AllFields  == {FieldOrder[i] : i \in 1..5}
Threads    == {"poll", "cec", "hpd", "api"}

ASSUME ConstantsAssumption ==
  /\ Devices \subseteq 0..14 /\ IsFiniteSet(Devices)
  /\ Fields \subseteq AllFields
  /\ MaxRetry \in Nat /\ MaxEvents \in Nat /\ MaxEnables \in Nat

NoDevice == 15    \* LogicalAddress::UNREGISTERED

VARIABLES
  pc,
  target,             \* the device a thread adds, removes or heard from
  present,            \* deviceList[d].m_isDevicePresent
  info,               \* of each field: unknown, told by the device, default, or
                      \* for PA: the address is told, the type is not
  requested, retry,   \* deviceList[d].m_isRequested, m_isRequestRetry
  m_numberOfDevices,
  m_pollThreadState, m_pollNextState, m_pollThreadExit,
  cecEnableStatus,
  allocated,          \* m_logicalAddressAllocated # UNREGISTERED
  listening,          \* the frame listener is attached
  unpinged, connected, disconnected,  \* threadRun's pass over the addresses
  logicalAddressRequested,            \* threadRun's, or NoDevice
  elapsed,            \* the outstanding request is older than its time limit
  message,            \* the field that the message being handled is about
  portOwned,          \* m_logicalAddr of the device's port is the device
  attached,           \* environment: the device answers a ping
  events, enables,    \* what the bounds count
  clash,              \* history: two threads have met over one record
  early               \* history: since CEC came on, a next state was asked for
                      \* before the listener was attached

tableVars == <<present, info, requested, retry, m_numberOfDevices>>
stateVars == <<m_pollThreadState, m_pollNextState, m_pollThreadExit>>
linkVars  == <<cecEnableStatus, allocated, listening>>
pollVars  == <<unpinged, connected, disconnected, logicalAddressRequested,
               elapsed>>
envVars   == <<attached, events, enables>>
history   == <<clash, early>>
vars == <<pc, target, tableVars, stateVars, linkVars, pollVars, message,
          portOwned, envVars, history>>

Step(t, from, to) == pc[t] = from /\ pc' = [pc EXCEPT ![t] = to]

Unknown == [f \in Fields |-> "unknown"]

\* An <Active Source> tells the physical address alone: "address" is its mark.
Known(d, f)     == info[d][f] \notin {"unknown", "address"}
isAllUpdated(d) == \A f \in Fields : Known(d, f)

\* The first field, in the order of requestType, that is not known.
requestType(d) ==
  FieldOrder[Min({i \in 1..5 : FieldOrder[i] \in Fields
                               /\ ~Known(d, FieldOrder[i])})]

Incomplete == {d \in Devices : present[d] /\ ~isAllUpdated(d)}

(***************************************************************************)
(* addDevice and removeDevice, by any thread.                              *)
(***************************************************************************)
Inside(t) == pc[t] \in {"addSet", "rmCount", "rmClear"}

\* The history of a step of thread t on device d.
Meets(t, d) ==
  clash' = (clash \/ \E u \in Threads \ {t} : Inside(u) /\ target[u] = d)

\* Another step asks for the next state, before POLL has had its turn or later.
AsksFor(state) == m_pollNextState' = state /\ early' = (early \/ ~listening)

\* Thread t is busy with device d, or with none.
Aim(t, d) == target' = [target EXCEPT ![t] = d]

AfterAdd(t)    == IF t = "poll" THEN "add" ELSE "heard"
AfterRemove(t) == IF t = "poll" THEN "remove" ELSE "hpdPing"

AddCheck(t, d, from) ==
  /\ pc[t] = from
  /\ IF allocated /\ ~present[d]
     THEN Step(t, from, "addSet") /\ Aim(t, d)
     ELSE Step(t, from, AfterAdd(t)) /\ UNCHANGED target

AddDevice(t) ==
  LET d == target[t] IN
  /\ Step(t, "addSet", AfterAdd(t))
  /\ present' = [present EXCEPT ![d] = TRUE]
  /\ m_numberOfDevices' = m_numberOfDevices + 1
  /\ AsksFor("INFO")
  /\ Meets(t, d)
  /\ IF t = "poll" THEN Aim(t, NoDevice) ELSE UNCHANGED target
  /\ UNCHANGED <<info, requested, retry, m_pollThreadState, m_pollThreadExit,
                 linkVars, pollVars, message, portOwned, envVars>>

RemoveCheck(t, d, from) ==
  /\ pc[t] = from
  /\ IF allocated /\ present[d]
     THEN Step(t, from, "rmCount") /\ Aim(t, d)
     ELSE Step(t, from, AfterRemove(t)) /\ UNCHANGED target

\* Mutant of RemoveCount: the ports are cleaned, the count is forgotten.
RemoveCountForgotten(t) ==
  LET d == target[t] IN
  /\ Step(t, "rmCount", "rmClear")
  /\ Meets(t, d)
  /\ UNCHANGED <<target, tableVars, portOwned, stateVars, linkVars, pollVars,
                 message, envVars, early>>

\* The count and the port, which is found by the record's physical address.
RemoveCount(t) ==
  LET d == target[t] IN
  /\ Step(t, "rmCount", "rmClear")
  /\ m_numberOfDevices' = m_numberOfDevices - 1
  /\ portOwned' = [portOwned EXCEPT
       ![d] = @ /\ ~("PA" \in Fields /\ info[d]["PA"] \in {"told", "address"})]
  /\ Meets(t, d)
  /\ UNCHANGED <<target, present, info, requested, retry, stateVars, linkVars,
                 pollVars, message, envVars, early>>

\* clear() leaves m_isRequested as it is.
RemoveClear(t) ==
  LET d == target[t] IN
  /\ Step(t, "rmClear", AfterRemove(t))
  /\ present' = [present EXCEPT ![d] = FALSE]
  /\ info' = [info EXCEPT ![d] = Unknown]
  /\ retry' = [retry EXCEPT ![d] = 0]
  /\ Meets(t, d) /\ Aim(t, NoDevice)
  /\ UNCHANGED <<requested, m_numberOfDevices, stateVars, linkVars,
                 pollVars, message, portOwned, envVars, early>>

RemoveStep(t) == RemoveCount(t) \/ RemoveClear(t)

(***************************************************************************)
(* threadRun: the top of its loop.  The next state is copied and then      *)
(* forgotten, in two steps; what another thread asks for in between is     *)
(* lost.  The sleep at the end of the loop is the pause before "top".      *)
(***************************************************************************)
PollTop ==
  /\ \/ /\ m_pollThreadExit
        /\ Step("poll", "top", "ended") /\ UNCHANGED m_pollThreadState
     \/ /\ ~m_pollThreadExit /\ m_pollNextState # "NONE"
        /\ Step("poll", "top", "forget") /\ m_pollThreadState' = m_pollNextState
     \/ /\ ~m_pollThreadExit /\ m_pollNextState = "NONE"
        /\ Step("poll", "top", "run") /\ UNCHANGED m_pollThreadState
  /\ UNCHANGED <<target, tableVars, m_pollNextState, m_pollThreadExit,
                 linkVars, pollVars, message, portOwned, envVars, history>>

PollForget ==
  /\ Step("poll", "forget", "run")
  /\ m_pollNextState' = "NONE"
  /\ UNCHANGED <<target, tableVars, m_pollThreadState, m_pollThreadExit,
                 linkVars, pollVars, message, portOwned, envVars, history>>

\* Mutant of PollAllocate: the address is got, the listener is not attached.
PollAllocateUnheard ==
  /\ m_pollThreadState = "POLL"
  /\ Step("poll", "run", "top")
  /\ \/ /\ allocated' = TRUE
        /\ m_numberOfDevices' = 0 /\ m_pollThreadState' = "PING"
        /\ clash' = (clash \/ \E u \in Threads : Inside(u))
     \/ /\ allocated' = FALSE /\ m_pollThreadState' = "EXIT"
        /\ UNCHANGED <<m_numberOfDevices, clash>>
  /\ UNCHANGED <<target, present, info, requested, retry, m_pollNextState,
                 m_pollThreadExit, cecEnableStatus, listening, pollVars,
                 message, portOwned, envVars, early>>

\* POLL: the count starts anew and the listener is attached if there is a
\* logical address; CECEnable has tried to get one already.
PollAllocate ==
  /\ m_pollThreadState = "POLL"
  /\ Step("poll", "run", "top")
  /\ \/ /\ allocated' = TRUE /\ listening' = TRUE
        /\ m_numberOfDevices' = 0 /\ m_pollThreadState' = "PING"
        /\ clash' = (clash \/ \E u \in Threads : Inside(u))
     \/ /\ allocated' = FALSE /\ m_pollThreadState' = "EXIT"
        /\ UNCHANGED <<listening, m_numberOfDevices, clash>>
  /\ UNCHANGED <<target, present, info, requested, retry, m_pollNextState,
                 m_pollThreadExit, cecEnableStatus, pollVars, message,
                 portOwned, envVars, early>>

(***************************************************************************)
(* PING: ping every address, remove who is gone, add who is new.           *)
(***************************************************************************)
PollBeginsPing ==
  /\ m_pollThreadState = "PING"
  /\ Step("poll", "run", "ping")
  /\ unpinged' = (IF allocated THEN Devices ELSE {})
  /\ UNCHANGED <<target, tableVars, stateVars, linkVars, connected,
                 disconnected, logicalAddressRequested, elapsed, message,
                 portOwned, envVars, history>>

PingDevice ==
  /\ pc["poll"] = "ping" /\ unpinged # {}
  /\ LET d == Min(unpinged) IN
     /\ unpinged' = unpinged \ {d}
     /\ connected' = connected \cup {e \in {d} : attached[e] /\ ~present[e]}
     /\ disconnected' = disconnected \cup {e \in {d} : ~attached[e] /\ present[e]}
  /\ UNCHANGED <<pc, target, tableVars, stateVars, linkVars,
                 logicalAddressRequested, elapsed, message, portOwned, envVars,
                 history>>

PollPinged ==
  /\ unpinged = {} /\ Step("poll", "ping", "remove")
  /\ UNCHANGED <<target, tableVars, stateVars, linkVars, pollVars, message,
                 portOwned, envVars, history>>

\* Mutant of PollRemoves: the devices that are gone are left in the table.
PollRemovesNobody ==
  /\ pc["poll"] = "remove" /\ disconnected # {}
  /\ disconnected' = disconnected \ {Min(disconnected)}
  /\ UNCHANGED <<pc, target, tableVars, stateVars, linkVars, unpinged,
                 connected, logicalAddressRequested, elapsed, message,
                 portOwned, envVars, history>>

PollRemoves ==
  /\ disconnected # {}
  /\ LET d == Min(disconnected) IN
     /\ RemoveCheck("poll", d, "remove")
     /\ disconnected' = disconnected \ {d}
  /\ UNCHANGED <<tableVars, stateVars, linkVars, unpinged, connected,
                 logicalAddressRequested, elapsed, message, portOwned, envVars,
                 history>>

\* Nobody is new: known devices with missing information are asked first.
PollRemoved ==
  /\ disconnected = {}
  /\ IF connected # {}
     THEN /\ Step("poll", "remove", "add")
          /\ m_pollThreadState' = "INFO" /\ UNCHANGED m_pollNextState
     ELSE /\ Step("poll", "remove", "top")
          /\ m_pollThreadState' = "UPDATE"
          /\ m_pollNextState' = IF Incomplete # {} THEN "INFO"
                                                   ELSE m_pollNextState
  /\ UNCHANGED <<target, tableVars, m_pollThreadExit, linkVars, pollVars,
                 message, portOwned, envVars, history>>

PollAdds ==
  /\ connected # {}
  /\ LET d == Min(connected) IN
     /\ AddCheck("poll", d, "add")
     /\ connected' = connected \ {d}
  /\ UNCHANGED <<tableVars, stateVars, linkVars, unpinged, disconnected,
                 logicalAddressRequested, elapsed, message, portOwned, envVars,
                 history>>

PollAdded ==
  /\ connected = {} /\ Step("poll", "add", "top")
  /\ UNCHANGED <<target, tableVars, stateVars, linkVars, pollVars, message,
                 portOwned, envVars, history>>

PollPings ==
  PollBeginsPing \/ PingDevice \/ PollPinged \/ PollRemoves \/ PollRemoved
  \/ PollAdds \/ PollAdded

(***************************************************************************)
(* INFO: one request at a time, to the first device with something         *)
(* missing; requestStatus tests for the answer and then for the time limit.*)
(***************************************************************************)
PollRequests ==
  /\ m_pollThreadState = "INFO" /\ logicalAddressRequested = NoDevice
  /\ IF Incomplete = {}
     THEN /\ m_pollThreadState' = "IDLE"
          /\ UNCHANGED <<requested, logicalAddressRequested>>
     ELSE LET d == Min(Incomplete) IN
          /\ logicalAddressRequested' = d
          /\ requested' = IF allocated
                          THEN [requested EXCEPT ![d] = requestType(d)]
                          ELSE requested
          /\ UNCHANGED m_pollThreadState
  /\ Step("poll", "run", "top")
  /\ UNCHANGED <<target, present, info, retry, m_numberOfDevices,
                 m_pollNextState, m_pollThreadExit, linkVars, unpinged,
                 connected, disconnected, elapsed, message, portOwned, envVars,
                 history>>

\* Mutant of EndRequest: the request is over, its address is kept.
EndRequestKept(d) ==
  /\ requested' = [requested EXCEPT ![d] = "none"] /\ elapsed' = FALSE
  /\ UNCHANGED logicalAddressRequested

EndRequest(d) ==
  /\ requested' = [requested EXCEPT ![d] = "none"] /\ elapsed' = FALSE
  /\ logicalAddressRequested' = NoDevice

RequestAnswered(d) ==
  requested[d] = "none" \/ (requested[d] \in Fields /\ Known(d, requested[d]))

\* Without a logical address requestStatus returns -1 and nothing is done.
PollAsksStatus ==
  LET d == logicalAddressRequested IN
  /\ m_pollThreadState = "INFO" /\ d # NoDevice
  /\ \/ /\ allocated /\ RequestAnswered(d) /\ EndRequest(d)
        /\ Step("poll", "run", "top")
     \/ /\ ~allocated /\ Step("poll", "run", "top")
        /\ UNCHANGED <<requested, logicalAddressRequested, elapsed>>
     \/ /\ allocated /\ ~RequestAnswered(d)
        /\ Step("poll", "run", IF elapsed THEN "timeout" ELSE "top")
        /\ UNCHANGED <<requested, logicalAddressRequested, elapsed>>
  /\ UNCHANGED <<target, present, info, retry, m_numberOfDevices, stateVars,
                 linkVars, unpinged, connected, disconnected, message,
                 portOwned, envVars, history>>

\* Mutant of AskAgain: one retry more.
AskAgainOnceMore(d) == requested[d] \in {"PA", "NAME"} /\ retry[d] <= MaxRetry

\* Address and name are asked for again, up to a limit.
AskAgain(d) == requested[d] \in {"PA", "NAME"} /\ retry[d] < MaxRetry

\* Everything else gets a default value.  The record is written whether or not
\* its device is present.
RequestElapsed ==
  LET d == logicalAddressRequested IN
  /\ Step("poll", "timeout", "top")
  /\ IF AskAgain(d)
     THEN /\ retry' = [retry EXCEPT ![d] = @ + 1]
          /\ UNCHANGED info
     ELSE /\ info' = [info EXCEPT ![d][requested[d]] = "default"]
          /\ retry' = IF requested[d] \in {"PA", "NAME"}
                      THEN [retry EXCEPT ![d] = 0] ELSE retry
  /\ EndRequest(d)
  /\ UNCHANGED <<target, present, m_numberOfDevices, stateVars, linkVars,
                 unpinged, connected, disconnected, message, portOwned, envVars,
                 history>>

\* UPDATE: a power status that is older than a minute is asked for again.
PollUpdates ==
  /\ m_pollThreadState = "UPDATE"
  /\ Step("poll", "run", "top")
  /\ \E old \in SUBSET {d \in Devices : present[d] /\ "POWER" \in Fields
                                        /\ Known(d, "POWER")} :
       /\ info' = [d \in Devices |-> IF d \in old
                     THEN [info[d] EXCEPT !["POWER"] = "unknown"] ELSE info[d]]
       /\ m_pollNextState' = IF old # {} THEN "INFO" ELSE m_pollNextState
  /\ m_pollThreadState' = "IDLE"
  /\ UNCHANGED <<target, present, requested, retry, m_numberOfDevices,
                 m_pollThreadExit, linkVars, pollVars, message, portOwned,
                 envVars, history>>

PollIdles ==
  /\ m_pollThreadState = "IDLE"
  /\ Step("poll", "run", "top")
  /\ m_pollThreadState' = "PING"
  /\ UNCHANGED <<target, tableVars, m_pollNextState, m_pollThreadExit,
                 linkVars, pollVars, message, portOwned, envVars, history>>

PollEnds ==
  /\ m_pollThreadState = "EXIT"
  /\ Step("poll", "run", "ended")
  /\ UNCHANGED <<target, tableVars, stateVars, linkVars, pollVars, message,
                 portOwned, envVars, history>>

PollStep ==
  PollTop \/ PollForget \/ PollAllocate \/ PollPings
  \/ AddDevice("poll") \/ RemoveStep("poll") \/ PollRequests \/ PollAsksStatus
  \/ RequestElapsed \/ PollUpdates \/ PollIdles \/ PollEnds

\* The time limit of the outstanding request passes.
TimePasses ==
  /\ logicalAddressRequested # NoDevice /\ ~elapsed
  /\ elapsed' = TRUE
  /\ UNCHANGED <<pc, target, tableVars, stateVars, linkVars, unpinged,
                 connected, disconnected, logicalAddressRequested, message,
                 portOwned, envVars, history>>

(***************************************************************************)
(* The message handlers: CECVersion, SetOSDName, ReportPhysicalAddress,    *)
(* DeviceVendorID and ReportPowerStatus tell a field; ActiveSource         *)
(* ("SOURCE") tells the address, ImageViewOn and TextViewOn ("none") only  *)
(* add the device; a FeatureAbort for an unrecognized request stores a     *)
(* default without adding the device.                                      *)
(***************************************************************************)
Receive(d, f) ==
  /\ listening /\ attached[d] /\ pc["cec"] = "idle"
  /\ Aim("cec", d) /\ message' = f
  /\ UNCHANGED <<tableVars, stateVars, linkVars, pollVars, portOwned, envVars,
                 history>>

ReceiveFrom(d) ==
  \/ \E f \in Fields \cup {"SOURCE", "none"} :
       Receive(d, f) /\ Step("cec", "idle", "addCheck")
  \/ \E f \in Fields \ {"PA"} :
       Receive(d, f) /\ Step("cec", "idle", "abort")

HandlerAddCheck ==
  /\ AddCheck("cec", target["cec"], "addCheck")
  /\ UNCHANGED <<tableVars, stateVars, linkVars, pollVars, message,
                 portOwned, envVars, history>>

HandlerEnds(from) ==
  Step("cec", from, "idle") /\ Aim("cec", NoDevice) /\ message' = "none"

\* updateActiveSource writes the physical address of the record.
SourceLocated(d) ==
  IF message = "SOURCE" /\ "PA" \in Fields /\ allocated
  THEN [info EXCEPT ![d]["PA"] =
          IF info[d]["PA"] \in {"unknown", "address"} THEN "address" ELSE "told"]
  ELSE info

HandlerTells ==
  LET d == target["cec"] IN
  /\ IF message = "PA"
     THEN Step("cec", "heard", "chain") /\ UNCHANGED <<target, message>>
     ELSE HandlerEnds("heard")
  /\ IF message \in Fields
     THEN /\ info' = [info EXCEPT ![d][message] = "told"]
          /\ retry' = IF message \in {"PA", "NAME"} /\ requested[d] = message
                      THEN [retry EXCEPT ![d] = 0] ELSE retry
     ELSE info' = SourceLocated(d) /\ UNCHANGED retry
  /\ UNCHANGED <<present, requested, m_numberOfDevices, stateVars, linkVars,
                 pollVars, portOwned, envVars, history>>

\* updateDeviceChain and addChild: the device owns its port.
HandlerChains ==
  LET d == target["cec"] IN
  /\ HandlerEnds("chain")
  /\ portOwned' = [portOwned EXCEPT ![d] = @ \/ (allocated /\ present[d])]
  /\ UNCHANGED <<tableVars, stateVars, linkVars, pollVars, envVars, history>>

HandlerAborts ==
  /\ HandlerEnds("abort")
  /\ info' = [info EXCEPT ![target["cec"]][message] = "default"]
  /\ UNCHANGED <<present, requested, retry, m_numberOfDevices, stateVars,
                 linkVars, pollVars, portOwned, envVars, history>>

CecStep ==
  HandlerAddCheck \/ AddDevice("cec") \/ HandlerTells \/ HandlerChains
  \/ HandlerAborts

(***************************************************************************)
(* Hot plug, power, and devices that come and go behind a plugged cable.   *)
(***************************************************************************)
Event == events < MaxEvents /\ events' = events + 1

\* The device that owns the port is removed, or address 15, which never is in
\* the table.
CableOut(d) ==
  /\ Event
  /\ attached' = [attached EXCEPT ![d] = FALSE]
  /\ IF portOwned[d] THEN RemoveCheck("hpd", d, "idle")
                     ELSE Step("hpd", "idle", "hpdPing") /\ UNCHANGED target
  /\ UNCHANGED <<tableVars, stateVars, linkVars, pollVars, message, portOwned,
                 enables, history>>

\* Mutant of CableIn: removeDevice is called whatever the cable does.
CableInRemoves(d) ==
  /\ Event
  /\ attached' = [attached EXCEPT ![d] = TRUE]
  /\ IF portOwned[d] THEN RemoveCheck("hpd", d, "idle")
                     ELSE Step("hpd", "idle", "hpdPing") /\ UNCHANGED target
  /\ UNCHANGED <<tableVars, stateVars, linkVars, pollVars, message, portOwned,
                 enables, history>>

CableIn(d) ==
  /\ Event
  /\ attached' = [attached EXCEPT ![d] = TRUE]
  /\ Step("hpd", "idle", "hpdPing")
  /\ UNCHANGED <<target, tableVars, stateVars, linkVars, pollVars, message,
                 portOwned, enables, history>>

HotPlugPings ==
  /\ Step("hpd", "hpdPing", "idle")
  /\ IF cecEnableStatus THEN AsksFor("PING")
                        ELSE UNCHANGED <<m_pollNextState, early>>
  /\ UNCHANGED <<target, tableVars, m_pollThreadState, m_pollThreadExit,
                 linkVars, pollVars, message, portOwned, envVars, clash>>

HpdStep == RemoveStep("hpd") \/ HotPlugPings

\* onPowerModeChanged
PowerPings ==
  /\ Event /\ cecEnableStatus /\ allocated
  /\ AsksFor("PING")
  /\ UNCHANGED <<pc, target, tableVars, m_pollThreadState, m_pollThreadExit,
                 linkVars, pollVars, message, portOwned, attached, enables,
                 clash>>

\* A device is switched off or on, or its address changes.
Appears(d) ==
  /\ Event
  /\ attached' = [attached EXCEPT ![d] = ~@]
  /\ UNCHANGED <<pc, target, tableVars, stateVars, linkVars, pollVars, message,
                 portOwned, enables, history>>

(***************************************************************************)
(* CECEnable and CECDisable, as far as they touch the table.               *)
(***************************************************************************)
CECEnable ==
  /\ enables < MaxEnables /\ enables' = enables + 1
  /\ ~cecEnableStatus /\ pc["api"] = "idle"
  /\ pc' = [pc EXCEPT !["api"] = "started", !["poll"] = "top"]
  /\ allocated' \in BOOLEAN
  /\ m_pollThreadState' = "POLL" /\ m_pollNextState' = "NONE"
  /\ m_pollThreadExit' = FALSE /\ early' = FALSE
  /\ UNCHANGED <<target, tableVars, cecEnableStatus, listening, pollVars,
                 message, portOwned, attached, events, clash>>

Enabled ==
  /\ Step("api", "started", "idle")
  /\ cecEnableStatus' = TRUE
  /\ UNCHANGED <<target, tableVars, stateVars, allocated, listening, pollVars,
                 message, portOwned, envVars, history>>

CECDisable ==
  /\ cecEnableStatus /\ Step("api", "idle", "join")
  /\ cecEnableStatus' = FALSE /\ m_pollThreadExit' = TRUE
  /\ UNCHANGED <<target, tableVars, m_pollThreadState, m_pollNextState,
                 allocated, listening, pollVars, message, portOwned, envVars,
                 history>>

\* The thread is joined and the connection closed.  A handler that still runs
\* then may add its device later: the history keeps that apart.
DisableJoins ==
  /\ pc["poll"] = "ended"
  /\ pc["api"] = "join"
  /\ pc' = [pc EXCEPT !["api"] = "clear", !["poll"] = "none"]
  /\ m_pollThreadState' = "NONE" /\ m_pollNextState' = "NONE"
  /\ listening' = FALSE /\ allocated' = FALSE
  /\ logicalAddressRequested' = NoDevice /\ elapsed' = FALSE
  /\ clash' = (clash \/ pc["cec"] # "idle")
  /\ UNCHANGED <<target, tableVars, m_pollThreadExit, cecEnableStatus, unpinged,
                 connected, disconnected, message, portOwned, envVars, early>>

\* Only the records: not the count, the ports or m_isRequestRetry.
DisableClears ==
  /\ Step("api", "clear", "idle")
  /\ present' = [d \in Devices |-> FALSE]
  /\ info' = [d \in Devices |-> IF present[d] THEN Unknown ELSE info[d]]
  /\ clash' = (clash \/ \E u \in Threads : Inside(u))
  /\ UNCHANGED <<target, requested, retry, m_numberOfDevices, stateVars,
                 linkVars, pollVars, message, portOwned, envVars, early>>

DisableStep == DisableJoins \/ DisableClears

(***************************************************************************)
(* Configure, with CEC still off.                                          *)
(***************************************************************************)
Init ==
  /\ pc = [t \in Threads |-> IF t = "poll" THEN "none" ELSE "idle"]
  /\ target = [t \in Threads |-> NoDevice]
  /\ present = [d \in Devices |-> FALSE]
  /\ info = [d \in Devices |-> Unknown]
  /\ requested = [d \in Devices |-> "none"] /\ retry = [d \in Devices |-> 0]
  /\ m_numberOfDevices = 0
  /\ m_pollThreadState = "NONE" /\ m_pollNextState = "NONE"
  /\ m_pollThreadExit = FALSE
  /\ cecEnableStatus = FALSE /\ allocated = FALSE /\ listening = FALSE
  /\ unpinged = {} /\ connected = {} /\ disconnected = {}
  /\ logicalAddressRequested = NoDevice /\ elapsed = FALSE
  /\ message = "none"
  /\ portOwned = [d \in Devices |-> FALSE]
  /\ attached \in [Devices -> BOOLEAN]
  /\ events = 0 /\ enables = 0 /\ clash = FALSE /\ early = FALSE

Environment ==
  \/ \E d \in Devices : ReceiveFrom(d) \/ CableOut(d) \/ CableIn(d) \/ Appears(d)
  \/ PowerPings \/ CECEnable \/ CECDisable

Next ==
  Environment \/ PollStep \/ TimePasses \/ CecStep \/ HpdStep \/ Enabled
  \/ DisableStep

Spec == Init /\ [][Next]_vars

\* Every thread that can run is run, and time passes.  Devices need not answer.
FairSpec ==
  /\ Spec
  /\ WF_vars(PollStep) /\ WF_vars(TimePasses) /\ WF_vars(CecStep)
  /\ WF_vars(HpdStep) /\ WF_vars(Enabled) /\ WF_vars(DisableStep)

-------------------------------------------------------------------------------
(***************************************************************************)
(* Properties                                                              *)
(***************************************************************************)
PollLabels == {"none", "top", "forget", "run", "ping", "remove", "add",
               "timeout", "ended", "addSet", "rmCount", "rmClear"}
CecLabels  == {"idle", "addCheck", "addSet", "heard", "chain", "abort"}
HpdLabels  == {"idle", "rmCount", "rmClear", "hpdPing"}
ApiLabels  == {"idle", "started", "join", "clear"}
PollStates == {"NONE", "IDLE", "POLL", "PING", "INFO", "UPDATE", "EXIT"}

ThreadsOK ==
  /\ pc["poll"] \in PollLabels /\ pc["cec"] \in CecLabels
  /\ pc["hpd"] \in HpdLabels /\ pc["api"] \in ApiLabels
  /\ target \in [Threads -> Devices \cup {NoDevice}]
  /\ \A t \in Threads : Inside(t) => target[t] \in Devices
TableOK ==
  /\ present \in [Devices -> BOOLEAN]
  /\ info \in [Devices -> [Fields -> {"unknown", "address", "told", "default"}]]
  /\ requested \in [Devices -> Fields \cup {"none"}]
  /\ retry \in [Devices -> 0..MaxRetry]
  /\ m_numberOfDevices \in Int
StatesOK ==
  /\ m_pollThreadState \in PollStates
  /\ m_pollNextState \in {"NONE", "PING", "INFO"}
  /\ logicalAddressRequested \in Devices \cup {NoDevice}
  /\ UNION {unpinged, connected, disconnected} \subseteq Devices

\* Every variable holds a value of its kind, and no record counts more retries
\* than HDMICECSINK_REQUEST_MAX_RETRY.
TypeOK == ThreadsOK /\ TableOK /\ StatesOK

NumberPresent == Cardinality({d \in Devices : present[d]})

\* While CEC is on, m_numberOfDevices is the number of devices in the table,
\* through every removal and addition by poll, messages and hot plug and through
\* CEC going off and on.  It goes wrong only once two threads have been inside
\* addDevice or removeDevice of one address, or one of them inside while CEC
\* goes off or the poll thread resets the count.
CountExact ==
  listening /\ ~clash /\ ~(\E t \in Threads : Inside(t))
    => m_numberOfDevices = NumberPresent

\* A device that is in the table is asked until everything is known of it, with
\* default values for what it does not answer, whatever is plugged meanwhile.
InfoAcquired ==
  \A d \in Devices :
    present[d] /\ listening
      ~> isAllUpdated(d) \/ ~present[d] \/ m_pollThreadExit

\* A device that has gone without a word leaves the table, even when it goes
\* while it is being asked or added.
GoneNoticed ==
  \A d \in Devices :
    present[d] /\ ~attached[d] /\ listening
      ~> ~present[d] \/ attached[d] \/ m_pollThreadExit

\* CEC that is on is heard: the poll thread attaches the frame listener, or ends
\* because there is no logical address, unless CEC goes off first.  An event (or an
\* old message) that asks for another state before the first pass of threadRun
\* makes it skip POLL: that, and nothing else, is the exception.
ListenerAttached ==
  cecEnableStatus
    ~> listening \/ early \/ ~cecEnableStatus \/ m_pollThreadState = "EXIT"

\* m_numberOfDevices is the number of connected devices other than the own one.
CountIsOfConnected ==
  (\A t \in Threads : pc[t] \in {"idle", "none", "top"})
    => m_numberOfDevices = NumberPresent
==============================================================================
