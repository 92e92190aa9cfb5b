------------------------------ MODULE SourceCec -------------------------------
(***************************************************************************)
(* The HdmiCecSource plugin (HdmiCecSourceImplementation.cpp): the CEC     *)
(* link, the table of devices, and the three threads that serve them.      *)
(*                                                                         *)
(* Threads, each with a program counter in pc:                             *)
(*   - the API threads, for SetEnabled with CECEnable and CECDisable;      *)
(*   - "key": threadSendKeyEvent;  "poll": threadRun;                      *)
(*   - "update": threadUpdateCheck;                                        *)
(*   - "cec": libCEC's reader thread, which runs the frame processor;      *)
(*   - "plug": threadHotPlugEventHandler.                                  *)
(* The three threads of the plugin are "absent" when their std::thread is  *)
(* not joinable, and "ended" when it is but has run to its end.  Calls     *)
(* that touch the link once are single steps.  Of the two details of a     *)
(* device, the OSD name and the vendor, one is followed.                   *)
(***************************************************************************)
EXTENDS Integers, FiniteSets

CONSTANTS
  Api,        \* API threads
  Devices,    \* logical addresses of other devices
  Tries,      \* attempts of the update thread, 5 in the code
  MaxCalls, MaxEvents, MaxKeys, MaxFaults   \* bounds

Workers == {"key", "poll", "update"}
Threads == Api \cup Workers \cup {"cec", "plug"}

ASSUME ConstantsAssumption ==
  /\ Api \cap (Workers \cup {"cec", "plug"}) = {}
  /\ Devices \subseteq Nat
  /\ {Tries, MaxCalls, MaxEvents, MaxKeys, MaxFaults} \subseteq Nat

VARIABLES
  pc,
  at,           \* the device a thread works on; "n" is the update thread's try, and
                \* the poll thread's flag that a device has acknowledged
  left,         \* the devices a thread has still to visit
  cecSettingEnabled, cecEnableStatus,
  libcecInitStatus, libUp,
  smConnection, \* TRUE: allocated; open and with its listener while CEC is on
  exit,         \* m_sendKeyEventThreadExit, m_pollThreadExit, m_updateThreadExit
  run,          \* m_sendKeyEventThreadRun
  queue,        \* how many keys m_SendKeyQueue holds
  lock,         \* holders of m_lock ("poll") and m_lockUpdate ("update")
  present, known,         \* deviceList: presence bit and detail flag
  m_numberOfDevices,
  isDeviceActiveSource,
  bus,          \* the devices that acknowledge a ping
  fresh,        \* ghost: pinged in this pass and unchanged on the bus since
  overlap,      \* ghost: an addition met another thread's change of its device
  failed,       \* ghost: Connection::open has thrown
  used          \* uses of the bounds

linkVars   == <<cecSettingEnabled, cecEnableStatus, libcecInitStatus, libUp, smConnection>>
signalVars == <<exit, run, queue, lock>>
tableVars  == <<present, known, m_numberOfDevices>>
localVars  == <<at, left>>
vars == <<pc, localVars, linkVars, signalVars, tableVars, isDeviceActiveSource, bus,
          fresh, overlap, failed, used>>

Nothing == [dev |-> 0, n |-> 0]
Step(t, from, to) == pc[t] = from /\ pc' = [pc EXCEPT ![t] = to]
Use(what, bound)  == used[what] < bound /\ used' = [used EXCEPT ![what] = @ + 1]
----------------------------------------------------------------------------
(* Condition variables of pthread: a signal wakes the thread if it waits,  *)
(* and the thread goes on when it has its mutex again.                     *)

Signalled(f, t) == IF f[t] = "wait" THEN [f EXCEPT ![t] = "wake"] ELSE f

Acquire(t, l) == lock[l] = "free" /\ lock' = [lock EXCEPT ![l] = t]
Free(l)       == lock' = [lock EXCEPT ![l] = "free"]

\* The device's addition is under way in another thread than t.
Meets(t, d) == \E u \in {"cec", "poll"} \ {t} : pc[u] = "add" /\ at[u].dev = d
----------------------------------------------------------------------------
(* SetEnabled, CECEnable and CECDisable.                                   *)

linkSame == UNCHANGED <<at, left, bus, used>>

\* The setting is persisted and changed if it is new; CECEnable and CECDisable
\* are called in any case.
SetEnabled(a, enabled) ==
  /\ pc[a] = "idle" /\ Use("calls", MaxCalls)
  /\ cecSettingEnabled' = enabled
  /\ pc' = [pc EXCEPT ![a] = IF enabled THEN "enable" ELSE "disable"]
  /\ UNCHANGED <<localVars, cecEnableStatus, libcecInitStatus, libUp, smConnection,
                 signalVars, tableVars, isDeviceActiveSource, bus, fresh, overlap, failed>>

\* Joining waits for the thread's end.
JoinDone(t) == pc[t] \in {"absent", "ended"}

EnableInit(a) ==
  /\ IF cecEnableStatus
     THEN Step(a, "enable", "idle") /\ UNCHANGED <<libcecInitStatus, libUp, exit>>
     ELSE /\ Step(a, "enable", "enableKey")
          /\ libUp' = (libUp \/ libcecInitStatus = 0)
          /\ libcecInitStatus' = libcecInitStatus + 1
          /\ exit' = [exit EXCEPT !["key"] = FALSE]
  /\ UNCHANGED <<cecSettingEnabled, cecEnableStatus, smConnection, run, queue, lock,
                 tableVars, isDeviceActiveSource, fresh, overlap, failed>>
  /\ linkSame

Start(a, t, to) ==
  /\ JoinDone(t)
  /\ pc' = [pc EXCEPT ![a] = to, ![t] = "start"]

EnableKeyThread(a) ==
  /\ pc[a] = "enableKey" /\ Start(a, "key", "enableOpen")
  /\ UNCHANGED <<linkVars, signalVars, tableVars, isDeviceActiveSource, fresh, overlap, failed>>
  /\ linkSame

\* Connection::open may throw: the exception leaves CECEnable with a connection
\* that is allocated, not open and without a listener.
EnableOpen(a) ==
  /\ smConnection' = TRUE
  /\ \/ /\ Step(a, "enableOpen", "enableUpdate")
        /\ cecEnableStatus' = TRUE
        /\ isDeviceActiveSource' = FALSE
        /\ UNCHANGED <<failed, used>>
     \/ /\ Step(a, "enableOpen", "idle")
        /\ Use("faults", MaxFaults) /\ failed' = TRUE
        /\ UNCHANGED <<cecEnableStatus, isDeviceActiveSource>>
  /\ UNCHANGED <<localVars, cecSettingEnabled, libcecInitStatus, libUp, signalVars, tableVars,
                 bus, fresh, overlap>>

EnableUpdateThread(a) ==
  /\ pc[a] = "enableUpdate" /\ Start(a, "update", "enablePoll")
  /\ exit' = [exit EXCEPT !["update"] = FALSE]
  /\ UNCHANGED <<linkVars, run, queue, lock, tableVars, isDeviceActiveSource, fresh, overlap, failed>>
  /\ linkSame

\* The number is reset, the records are not.
EnablePollThread(a) ==
  /\ pc[a] = "enablePoll" /\ Start(a, "poll", "idle")
  /\ exit' = [exit EXCEPT !["poll"] = FALSE]
  /\ m_numberOfDevices' = 0
  /\ fresh' = {}
  /\ UNCHANGED <<linkVars, run, queue, lock, present, known, isDeviceActiveSource, overlap, failed>>
  /\ linkSame

\* The key thread's flags are set and it is notified under its mutex.
DisableKeyThread(a) ==
  /\ IF cecEnableStatus
     THEN /\ Step(a, "disable", "joinKey")
          /\ exit' = [exit EXCEPT !["key"] = TRUE] /\ run' = TRUE
     ELSE Step(a, "disable", "idle") /\ UNCHANGED <<exit, run>>
  /\ UNCHANGED <<linkVars, queue, lock, tableVars, isDeviceActiveSource, fresh, overlap, failed>>
  /\ linkSame

JoinForgotten(a, t, from, to) ==
  /\ Step(a, from, to)
  /\ UNCHANGED <<linkVars, signalVars, tableVars, isDeviceActiveSource, fresh, overlap, failed>>
  /\ linkSame

Join(a, t, from, to) ==
  /\ pc[a] = from /\ JoinDone(t)
  /\ pc' = [pc EXCEPT ![a] = to, ![t] = "absent"]
  /\ UNCHANGED <<linkVars, signalVars, tableVars, isDeviceActiveSource, fresh, overlap, failed>>
  /\ linkSame

\* The exit flag goes up before the mutex is taken: the thread reads it under
\* the mutex, and cannot be between its test and its wait when it is signalled.
Stop(a, t, from, to) ==
  /\ Step(a, from, to)
  /\ exit' = [exit EXCEPT ![t] = TRUE]
  /\ UNCHANGED <<linkVars, run, queue, lock, tableVars, isDeviceActiveSource, fresh, overlap, failed>>
  /\ linkSame

SignalUnlocked(a, t, from, to) ==
  /\ pc[a] = from
  /\ pc' = Signalled([pc EXCEPT ![a] = to], t)
  /\ UNCHANGED <<linkVars, signalVars, tableVars, isDeviceActiveSource, fresh, overlap, failed>>
  /\ linkSame

\* Lock, signal and unlock.
Signal(a, t, from, to) ==
  /\ lock[t] = "free"
  /\ SignalUnlocked(a, t, from, to)

DisableThreads(a) ==
  \/ Join(a, "key", "joinKey", "stopUpdate")
  \/ Stop(a, "update", "stopUpdate", "signalUpdate")
  \/ Signal(a, "update", "signalUpdate", "joinUpdate")
  \/ Join(a, "update", "joinUpdate", "stopPoll")
  \/ Stop(a, "poll", "stopPoll", "signalPoll")
  \/ Signal(a, "poll", "signalPoll", "joinPoll")
  \/ Join(a, "poll", "joinPoll", "clear")

RemovedUncounted(D) ==
  /\ present' = present \ D /\ known' = known \ (D \cap present)
  /\ UNCHANGED m_numberOfDevices
\* removeAllCecDevices: a device is removed only if its bit is set.
Removed(D) ==
  /\ present' = present \ D
  /\ known' = known \ (D \cap present)
  /\ m_numberOfDevices' = m_numberOfDevices - Cardinality(D \cap present)

removeAllCecDevices(a) ==
  /\ Step(a, "clear", "close")
  /\ Removed(Devices)
  /\ overlap' = (overlap \/ \E d \in Devices : Meets(a, d))
  /\ UNCHANGED <<linkVars, signalVars, isDeviceActiveSource, fresh, failed>>
  /\ linkSame

\* The count of initialisations falls whether or not libCEC was terminated.
DisableCloseUncounted(a) ==
  /\ Step(a, "close", "idle")
  /\ smConnection' = FALSE /\ cecEnableStatus' = FALSE
  /\ libUp' = (libUp /\ libcecInitStatus # 1)
  /\ UNCHANGED <<cecSettingEnabled, libcecInitStatus, signalVars, tableVars,
                 isDeviceActiveSource, fresh, overlap, failed>>
  /\ linkSame

DisableClose(a) ==
  /\ Step(a, "close", "idle")
  /\ smConnection' = FALSE /\ cecEnableStatus' = FALSE
  /\ libUp' = (libUp /\ libcecInitStatus # 1)
  /\ libcecInitStatus' = libcecInitStatus - 1
  /\ UNCHANGED <<cecSettingEnabled, signalVars, tableVars, isDeviceActiveSource, fresh, overlap, failed>>
  /\ linkSame
----------------------------------------------------------------------------
(* threadSendKeyEvent.  The exit flag is read by the loop and once more    *)
(* after the wait; the run flag falls outside the mutex.                   *)

keySame == UNCHANGED <<localVars, linkVars, lock, tableVars, isDeviceActiveSource, bus,
                       fresh, overlap, failed>>

SendKeyPressEvent ==
  /\ Use("keys", MaxKeys)
  /\ queue' = queue + 1 /\ run' = TRUE
  /\ UNCHANGED <<pc, exit>> /\ keySame

KeyLoop ==
  /\ pc["key"] \in {"start", "loop"}
  /\ pc' = [pc EXCEPT !["key"] = IF exit["key"] THEN "ended" ELSE "wait"]
  /\ UNCHANGED <<exit, run, queue, used>> /\ keySame

KeyWakes ==
  /\ pc["key"] = "wait" /\ run
  /\ pc' = [pc EXCEPT !["key"] = IF exit["key"] THEN "ended" ELSE "check"]
  /\ run' = ~exit["key"]
  /\ UNCHANGED <<exit, queue, used>> /\ keySame

KeyCheckQueueUntested ==
  /\ Step("key", "check", "loop")
  /\ queue' = queue - 1
  /\ UNCHANGED <<exit, run, used>> /\ keySame

KeyCheckQueue ==
  /\ Step("key", "check", IF queue = 0 THEN "goIdle" ELSE "send")
  /\ queue' = IF queue = 0 THEN 0 ELSE queue - 1
  /\ UNCHANGED <<exit, run, used>> /\ keySame

\* The press and the release; each is dropped when there is no connection.
KeySends ==
  /\ Step("key", "send", "loop")
  /\ UNCHANGED <<exit, run, queue, used>> /\ keySame

KeyGoesIdle ==
  /\ Step("key", "goIdle", "loop")
  /\ run' = FALSE
  /\ UNCHANGED <<exit, queue, used>> /\ keySame
----------------------------------------------------------------------------
(* addDevice and removeDevice.                                             *)

\* The test of the bit and the addition are two steps: "at" holds the device.
AddDevice(t, d) ==
  /\ present' = present \cup {d}
  /\ m_numberOfDevices' = m_numberOfDevices + 1
  /\ UNCHANGED known

\* threadRun and pingDeviceUpdateList.
pollSame == UNCHANGED <<linkVars, exit, run, queue, isDeviceActiveSource, bus, failed>>

PollStart ==
  /\ pc["poll"] = "start"
  /\ IF smConnection
     THEN Acquire("poll", "poll") /\ Step("poll", "start", "loop")
     ELSE UNCHANGED lock /\ Step("poll", "start", "ended")
  /\ UNCHANGED <<localVars, tableVars, fresh, overlap, used>> /\ pollSame

PollLoop ==
  /\ pc["poll"] = "loop"
  /\ IF exit["poll"]
     THEN Free("poll") /\ Step("poll", "loop", "ended") /\ UNCHANGED left
     ELSE UNCHANGED lock /\ Step("poll", "loop", "ping")
          /\ left' = [left EXCEPT !["poll"] = Devices]
  /\ at' = [at EXCEPT !["poll"] = Nothing]
  /\ fresh' = {}
  /\ UNCHANGED <<tableVars, overlap, used>> /\ pollSame

NextOf(t) == CHOOSE d \in left[t] : \A e \in left[t] : d <= e

\* No acknowledgement removes the device, an IOException leaves it alone, and an
\* acknowledgement, or any other error, adds it if its bit is not set.  Nothing
\* is sent while CEC is off.
Refused(d) ==
  /\ cecEnableStatus /\ d \notin bus
  /\ Removed({d})
  /\ fresh' = fresh \cup {d}
  /\ overlap' = (overlap \/ Meets("poll", d))
  /\ UNCHANGED <<pc, at>>

AcknowledgedUnseen(d) ==
  /\ cecEnableStatus /\ d \in bus
  /\ at' = [at EXCEPT !["poll"].n = 1]
  /\ fresh' = fresh \cup {d}
  /\ UNCHANGED <<pc, overlap, tableVars>>

Found(d) ==
  /\ at' = [at EXCEPT !["poll"] = [dev |-> d, n |-> 1]]
  /\ IF d \in present
     THEN UNCHANGED <<pc, overlap>>
     ELSE /\ Step("poll", "ping", "add")
          /\ overlap' = (overlap \/ Meets("poll", d))
  /\ UNCHANGED tableVars

Acknowledged(d) ==
  /\ cecEnableStatus /\ d \in bus
  /\ Found(d)
  /\ fresh' = IF d \in present THEN fresh \cup {d} ELSE fresh

\* Of a device that has acknowledged, this is no different from Acknowledged.
TakenForAcknowledged(d) ==
  /\ cecEnableStatus /\ d \notin bus /\ Use("events", MaxEvents)
  /\ Found(d)
  /\ UNCHANGED fresh

pingDeviceUpdateList ==
  /\ pc["poll"] = "ping" /\ left["poll"] # {}
  /\ LET d == NextOf("poll") IN
       /\ left' = [left EXCEPT !["poll"] = @ \ {d}]
       /\ \/ Refused(d) /\ UNCHANGED used
          \/ Acknowledged(d) /\ UNCHANGED used
          \/ TakenForAcknowledged(d)
          \/ UNCHANGED <<pc, at, tableVars, fresh, overlap, used>>
  /\ UNCHANGED lock /\ pollSame

PollAdds ==
  /\ Step("poll", "add", "ping")
  /\ AddDevice("poll", at["poll"].dev)
  /\ fresh' = IF at["poll"].dev \in bus THEN fresh \cup {at["poll"].dev} ELSE fresh
  /\ UNCHANGED <<localVars, lock, overlap, used>> /\ pollSame

\* The update thread is signalled, without its mutex, if a device is there.
PollWaits ==
  /\ pc["poll"] = "ping" /\ left["poll"] = {}
  /\ LET waiting == [pc EXCEPT !["poll"] = "wait"]
     IN pc' = IF at["poll"].n = 1 THEN Signalled(waiting, "update") ELSE waiting
  /\ Free("poll")
  /\ UNCHANGED <<localVars, tableVars, fresh, overlap, used>> /\ pollSame

PollWakes ==
  /\ Step("poll", "wake", "loop") /\ Acquire("poll", "poll")
  /\ UNCHANGED <<localVars, tableVars, fresh, overlap, used>> /\ pollSame
----------------------------------------------------------------------------
(* threadUpdateCheck asks the present devices again for what is unknown.   *)

updateSame == UNCHANGED <<linkVars, exit, run, queue, tableVars, isDeviceActiveSource, bus,
                          fresh, overlap, failed, used>>

UpdateStart ==
  /\ pc["update"] = "start"
  /\ IF smConnection
     THEN Acquire("update", "update") /\ Step("update", "start", "loop")
     ELSE UNCHANGED lock /\ Step("update", "start", "ended")
  /\ UNCHANGED localVars /\ updateSame

UpdateLoop ==
  /\ Step("update", "loop", IF exit["update"] THEN "ended" ELSE "wait")
  /\ Free("update")
  /\ UNCHANGED localVars /\ updateSame

UpdateWakes ==
  /\ Step("update", "wake", "scan") /\ Acquire("update", "update")
  /\ left' = [left EXCEPT !["update"] = Devices]
  /\ UNCHANGED at /\ updateSame

\* Up to Tries questions to a present device, each after a pause that the exit
\* flag cuts short, until its detail is known.
UpdateScans ==
  /\ pc["update"] = "scan"
  /\ IF left["update"] = {} \/ exit["update"]
     THEN Step("update", "scan", "loop") /\ UNCHANGED localVars
     ELSE LET d == NextOf("update")
              try == at["update"].n
              done == d \notin present \/ d \in known \/ try = Tries
          IN /\ left' = IF done THEN [left EXCEPT !["update"] = @ \ {d}] ELSE left
             /\ at' = [at EXCEPT !["update"].n = IF done THEN 0 ELSE try + 1]
             /\ UNCHANGED pc
  /\ UNCHANGED lock /\ updateSame
----------------------------------------------------------------------------
(* The frame processor, on libCEC's reader thread.                         *)

frameSame == UNCHANGED <<linkVars, signalVars, bus, failed>>

\* <Active Source>, <Routing Change>, <Routing Information>, <Set Stream Path>.
ReceiveRouting ==
  /\ smConnection /\ cecEnableStatus /\ pc["cec"] = "idle" /\ Use("events", MaxEvents)
  /\ \E toUs \in BOOLEAN : isDeviceActiveSource' = toUs
  /\ UNCHANGED <<pc, localVars, tableVars, fresh, overlap>> /\ frameSame

\* <Active Source>, <Image View On>, <Text View On>, <CEC Version>, <Report
\* Physical Address>, <Report Power Status> add the device they come from.
ReceiveFrom(d) ==
  /\ smConnection /\ cecEnableStatus /\ pc["cec"] = "idle" /\ Use("events", MaxEvents)
  /\ d \in bus
  /\ IF d \in present THEN UNCHANGED <<pc, at, overlap>>
     ELSE /\ Step("cec", "idle", "add")
          /\ at' = [at EXCEPT !["cec"] = [dev |-> d, n |-> 0]]
          /\ overlap' = (overlap \/ Meets("cec", d))
  /\ UNCHANGED <<left, tableVars, isDeviceActiveSource, fresh>> /\ frameSame

FrameAdds ==
  /\ Step("cec", "add", "idle")
  /\ AddDevice("cec", at["cec"].dev)
  /\ at' = [at EXCEPT !["cec"] = Nothing]
  /\ overlap' = (overlap \/ ~cecEnableStatus \/ \E a \in Api : pc[a] \in {"close", "enableUpdate", "enablePoll"})
  /\ fresh' = fresh \ {at["cec"].dev}
  /\ UNCHANGED <<left, isDeviceActiveSource, used>> /\ frameSame

\* <Set OSD Name> and <Device Vendor ID> write the record, present or not.
ReceiveDetail(d) ==
  /\ smConnection /\ cecEnableStatus /\ pc["cec"] = "idle" /\ Use("events", MaxEvents)
  /\ d \in bus
  /\ known' = known \cup {d}
  /\ UNCHANGED <<pc, localVars, present, m_numberOfDevices, isDeviceActiveSource, fresh, overlap>>
  /\ frameSame
----------------------------------------------------------------------------
(* Hot plug, the device list and the bus.                                  *)

\* A detached thread per event; it signals m_condSig without m_lock.
dsHdmiEventHandler ==
  /\ cecEnableStatus /\ pc["plug"] = "idle" /\ Use("events", MaxEvents)
  /\ pc' = [pc EXCEPT !["plug"] = "signal"]
  /\ UNCHANGED <<localVars, linkVars, signalVars, tableVars, isDeviceActiveSource, bus,
                 fresh, overlap, failed>>

threadHotPlugEventHandler ==
  /\ pc["plug"] = "signal"
  /\ pc' = Signalled([pc EXCEPT !["plug"] = "idle"], "poll")
  /\ UNCHANGED <<localVars, linkVars, signalVars, tableVars, isDeviceActiveSource, bus,
                 fresh, overlap, failed, used>>

GetDeviceList ==
  /\ pc["poll"] = "wait" /\ Use("events", MaxEvents)
  /\ pc' = Signalled(pc, "poll")
  /\ UNCHANGED <<localVars, linkVars, signalVars, tableVars, isDeviceActiveSource, bus,
                 fresh, overlap, failed>>

\* <Image View On> and <Active Source> go out, and the flag goes up.  A call that
\* cecOTPSettingEnabled refuses changes nothing: it is not a step.
PerformOTPAction ==
  /\ cecEnableStatus /\ smConnection /\ Use("events", MaxEvents)
  /\ isDeviceActiveSource' = TRUE
  /\ UNCHANGED <<pc, localVars, linkVars, signalVars, tableVars, bus, fresh, overlap, failed>>

BusChanges(d) ==
  /\ Use("events", MaxEvents)
  /\ bus' = IF d \in bus THEN bus \ {d} ELSE bus \cup {d}
  /\ fresh' = fresh \ {d}
  /\ UNCHANGED <<pc, localVars, linkVars, signalVars, tableVars, isDeviceActiveSource,
                 overlap, failed>>
----------------------------------------------------------------------------
Init ==
  /\ pc = [t \in Threads |-> IF t \in Workers THEN "absent" ELSE "idle"]
  /\ at = [t \in {"poll", "update", "cec"} |-> Nothing]
  /\ left = [t \in {"poll", "update"} |-> {}]
  /\ cecSettingEnabled = FALSE /\ cecEnableStatus = FALSE
  /\ libcecInitStatus = 0 /\ libUp = FALSE /\ smConnection = FALSE
  /\ exit = [t \in Workers |-> FALSE] /\ run = FALSE /\ queue = 0
  /\ lock = [l \in {"poll", "update"} |-> "free"]
  /\ present = {} /\ known = {} /\ m_numberOfDevices = 0
  /\ isDeviceActiveSource = FALSE
  /\ bus \in SUBSET Devices
  /\ fresh = {} /\ overlap = FALSE /\ failed = FALSE
  /\ used = [b \in {"calls", "events", "keys", "faults"} |-> 0]

ApiStep(a) ==
  \/ EnableInit(a) \/ EnableKeyThread(a) \/ EnableOpen(a) \/ EnableUpdateThread(a)
  \/ EnablePollThread(a)
  \/ DisableKeyThread(a) \/ DisableThreads(a) \/ removeAllCecDevices(a) \/ DisableClose(a)

KeyStep    == KeyLoop \/ KeyWakes \/ KeyCheckQueue \/ KeySends \/ KeyGoesIdle
PollStep   == PollStart \/ PollLoop \/ pingDeviceUpdateList \/ PollAdds \/ PollWaits \/ PollWakes
UpdateStep == UpdateStart \/ UpdateLoop \/ UpdateWakes \/ UpdateScans

Environment ==
  \/ \E a \in Api, enabled \in BOOLEAN : SetEnabled(a, enabled)
  \/ SendKeyPressEvent \/ PerformOTPAction \/ GetDeviceList
  \/ ReceiveRouting
  \/ \E d \in Devices : ReceiveFrom(d) \/ ReceiveDetail(d) \/ BusChanges(d)
  \/ dsHdmiEventHandler

Next ==
  \/ \E a \in Api : ApiStep(a)
  \/ KeyStep \/ PollStep \/ UpdateStep \/ FrameAdds \/ threadHotPlugEventHandler
  \/ Environment

Spec == Init /\ [][Next]_vars

\* The threads are scheduled; nothing is assumed of callers, frames and events.
Fairness ==
  /\ \A a \in Api : WF_vars(ApiStep(a))
  /\ WF_vars(KeyStep) /\ WF_vars(PollStep) /\ WF_vars(UpdateStep)
  /\ WF_vars(FrameAdds) /\ WF_vars(threadHotPlugEventHandler)

LiveSpec == Spec /\ Fairness
----------------------------------------------------------------------------
(* Properties.                                                             *)

ApiPoints == {"idle", "enable", "enableKey", "enableOpen", "enableUpdate", "enablePoll",
              "disable", "joinKey", "stopUpdate", "signalUpdate", "joinUpdate",
              "stopPoll", "signalPoll", "joinPoll", "clear", "close"}

ThreadPoints == {"absent", "start", "loop", "wait", "wake", "ended",
                 "check", "send", "goIdle", "ping", "add", "scan", "signal"}

PointsOK ==
  /\ pc \in [Threads -> ApiPoints \cup ThreadPoints]
  /\ \A a \in Api : pc[a] \in ApiPoints
LinkOK ==
  /\ cecSettingEnabled \in BOOLEAN /\ cecEnableStatus \in BOOLEAN
  /\ libUp \in BOOLEAN /\ smConnection \in BOOLEAN /\ failed \in BOOLEAN
  /\ libcecInitStatus \in Int
SignalsOK ==
  /\ exit \in [Workers -> BOOLEAN] /\ run \in BOOLEAN /\ queue \in Nat
  /\ lock \in [{"poll", "update"} -> {"free", "poll", "update"}]
TableOK ==
  /\ at \in [{"poll", "update", "cec"} -> [dev : Devices \cup {0}, n : Nat]]
  /\ left \in [{"poll", "update"} -> SUBSET Devices]
  /\ m_numberOfDevices \in Int
  /\ present \subseteq Devices /\ IsFiniteSet(present) /\ known \subseteq Devices
  /\ bus \subseteq Devices /\ fresh \subseteq Devices
  /\ overlap \in BOOLEAN /\ isDeviceActiveSource \in BOOLEAN
AddersOK == \A t \in {"poll", "cec"} : pc[t] = "add" => at[t].dev \in Devices
UsesOK == used \in [{"calls", "events", "keys", "faults"} -> Nat]

\* Every thread is at a point of its own code, and the counters are numbers.
TypeOK == PointsOK /\ LinkOK /\ SignalsOK /\ TableOK /\ AddersOK /\ UsesOK

Quiet == \A a \in Api : pc[a] = "idle"

\* Between calls, unless opening the connection has failed, the setting, the
\* status, the connection and libCEC agree, and CECEnable and CECDisable keep
\* the count of initialisations balanced.
LinkInForce ==
  Quiet /\ ~failed =>
    /\ cecEnableStatus = cecSettingEnabled
    /\ smConnection = cecSettingEnabled
    /\ libUp = cecSettingEnabled
    /\ libcecInitStatus = IF cecSettingEnabled THEN 1 ELSE 0

\* The connection is deleted after the threads that use it have ended, and
\* between calls the three threads run if and only if CEC is on.
WorkersOwned ==
  /\ ~smConnection => pc["poll"] = "absent" /\ pc["update"] = "absent"
  /\ (\E a \in Api : pc[a] = "close") => pc["key"] = "absent"
  /\ Quiet /\ ~failed =>
       \A t \in Workers : IF cecEnableStatus THEN pc[t] \notin {"absent", "ended"}
                                             ELSE pc[t] = "absent"

\* When the poll thread sleeps, its table tells the truth of every device that
\* answered the pass and has not come or gone since, whatever frames were
\* handled meanwhile.
PollTruth ==
  pc["poll"] = "wait" => \A d \in fresh : d \in present <=> d \in bus

\* The number of devices is the number of records, unless an addition by a
\* frame has met a removal, another addition of its device, or the reset of
\* the number by CECEnable.
CountExact ==
  ~overlap => m_numberOfDevices = Cardinality(present)

\* SetEnabled returns: the threads that CECDisable joins are not left asleep,
\* although their exit flags go up outside the mutexes they wait with, and
\* whatever they were doing.
ApiCompletes == \A a \in Api : pc[a] # "idle" ~> (pc[a] = "idle" \/ failed)
===============================================================================
