# Verification of entservices-inputoutput

TLA+ models, model-checking runs and machine-checked proofs for the RDK
input/output plugins: `HdmiCecSink` and `HdmiCecSource`, which make a television
and a set-top box take part in HDMI-CEC, `AVOutput`, which keeps the picture
settings, `HdmiInput` and `AVInput`, which present inputs, and `HdcpProfile`. The
centre is `HdmiCecSink`, the most concurrent program of the repository. Line
numbers are those of `src/HdmiCecSink/HdmiCecSinkImplementation.cpp` unless
another file is named.

## 1. Inventory

| Component | State | Operations | What is hard | What makes it correct |
|---|---|---|---|---|
| **HdmiCecSink: CEC link** | `cecSettingEnabled`, `cecEnableStatus`, `libcecInitStatus`, `smConnection`, `m_pollThread`, `m_enableMutex` | `SetEnabled`, `CECEnable`, `CECDisable`, destructor | calls from several worker threads, a wait inside a mutex, threads to join | the link is up or down as a whole; no thread outlives what it uses; the destructor ends |
| **HdmiCecSink: ARC state machine** | `m_currentArcRoutingState`, the binary semaphore, `m_arcStartStopTimer` | `startArc`, `stopArc`, the handlers of `<Initiate ARC>`, `<Terminate ARC>`, `<Set System Audio Mode>`, power and hot-plug events, timer, `threadArcRouting` | six threads, late messages, a timer that races with the answer | the routing thread sees the last request; a request is answered or times out; nothing is initiated while CEC goes off |
| **HdmiCecSink: key queue and audio status** | `m_SendKeyQueue`, two thread flags, three audio status flags, `m_audioStatusDetectionTimer` | three key calls, `threadSendKeyEvent`, `<Report Audio Status>`, timer, resets | flags outside the mutex, a lost wake-up, a timer that is stopped late | keys are sent, the thread ends, the volume is learned |
| **HdmiCecSink: device table and poll thread** | `deviceList`, `m_numberOfDevices`, `m_pollThreadState`, `m_pollNextState` | `threadRun`, `addDevice`, `removeDevice`, `request`, `requestStatus`, the handlers that write records, hot plug | no lock at all, four threads, requests that outlive their device | count and table agree; who is gone is removed; everything is asked for |
| **HdmiCecSink: routing and active source** | `hdmiInputs` with their chains, `m_currentActiveSource` | `addChild`, `removeChild`, `getRoute`, `updateActiveSource`, `GetActiveSource`, `GetActiveRoute` | four places that speak of one active source, stale owners of a port, cascades of devices | record, variable, notifications and answers agree; a port names the device that is on it; a route is the path through the network |
| **HdmiCecSource** | like the sink's, with poll, update and sender threads | enable, disable, keys, frames, `GetDeviceList` | no mutex around enable and disable, signals without a lock | link and threads are up or down as a whole; the table tells who is there; `SetEnabled` returns |
| **HdcpProfile** | the HDCP status, notification list | IARM events, worker-pool jobs | four reads of a driver that changes meanwhile; a job carries what was true when it was made | the last notification tells the present status |
| **HdmiInput, AVInput** | static plane and latencies, mixer flag, VRR type | selection, mixer levels, device-settings events | two plugins over one driver and one mixer; static variables shared by calls and events | what clients heard is what the driver has; the mixer can be restored; the plane asked for is the one used |
| **AVOutput** | local store, the driver's saved data, the panel | set, get and reset of each parameter and of the picture mode, synchronisation at start | one level in three places, written one after the other for several contexts while the pipeline changes | the three places agree between calls |
| **Settings persistence** (`helpers/UtilssyncPersistFile.h`, `loadSettings` of the CEC plugins) | a JSON file and the members read from it | read, delete, rewrite, reload | crash between delete and write, two writers | a setting survives |
| **TpTimer** (`helpers/tptimer.h`) | what the timer queue holds, `m_isActive` | `start`, `stop`, `Timed` | a callback that runs while it is stopped or restarted | at most one expiry is due |
| **Plugin shells, other helpers, tests** | - | creation, registration, wrappers | - | - |

Interactions. API calls arrive on worker threads. libCEC's reader thread calls
the message handlers, one after the other. The power manager and the IARM bus
call `onPowerModeChanged` and `onHdmiHotPlug` on threads of their own. Timers
call back on the thread of the timer queue. These and the plugin's own three
threads (`threadRun`, `threadArcRouting`, `threadSendKeyEvent`) meet in members
of one object. Only two pieces of it have locks: `m_enableMutex` is held
throughout `CECEnable` and `CECDisable`, and `m_arcRoutingStateMutex` covers most
writes of the ARC state. `CECDisable` touches every part: it asks for the end of
ARC and spins until it has come, joins the poll thread, deletes the connection
and forgets the devices.

`PROJECT.json` lists the hazards of this code at their lines, each with the
properties that would catch it going wrong.

## 2. Modules

| Module | Models | Lines |
|---|---|---|
| `TpTimer` | the single-shot timer that both HdmiCecSink timers are; instantiated by the next two | `helpers/tptimer.h` |
| `SinkArc` | CEC link and ARC state machine | 605-660, 861-987, 1640-1653, 1851-1869, 3009-3348, 3441-3565 |
| `SinkDisable` | `SinkArc` with a history of the wait in `CECDisable`: who owes it an answer, and what overtook it | 3078-3095, 3305-3315, 3463-3490 |
| `ArcMailbox` | abstract specification: what the ARC state machine promises to its routing thread | - |
| `SinkKeys` | key queue and audio status | 642-660, 1095-1120, 1683-1728, 2490-2497, 3350-3438 |
| `SinkDevices` | device table and poll thread | 134-470, 885-943, 1933-1955, 2255-2321, 2423-2952, 3009-3145 |
| `SinkPresence` | `SinkDevices` with a history of what each thread that changes the table has seen on the bus | - |
| `SinkRoutes` | port maps, active source, what clients are told of it | `HdmiCecSinkImplementation.h` 151-386, here 134-188, 876-943, 1383-1604, 1871-2179, 2360-2513, 2747-2814, 3119-3145 |
| `SourceCec` | HdmiCecSource: link, table, the three threads | `HdmiCecSourceImplementation.cpp` |
| `PictureParams` | picture parameters and picture mode | `AVOutputTV.cpp`, `AVOutputTVHelper.cpp` |
| `Inputs` | HdmiInput and AVInput over one driver | `HdmiInput.cpp`, `AVInput.cpp` |
| `Latency` | latency reports from HdmiInput to HdmiCecSink | `HdmiInput.cpp` 73-76, 789-845, 1273-1291; here 1028-1049, 1736-1749 |
| `HdcpProfile` | events, reads, jobs and notifications | `HdcpProfileImplementation.cpp`, `.h` |
| `SettingsFile` | the settings file with crashes | `UtilssyncPersistFile.h`, `loadSettings` and the setters of both CEC plugins |
| `MCSinkArc`, `MCSinkDisable`, `MCSinkKeys`, `MCSinkDevices`, `MCSinkPresence`, `MCSourceCec` | symmetry and the fairness of single runs | - |
| `MCPlugins` | instances of the six modules that share no state | - |
| `SinkArcProofs`, `SinkArcLinkProofs`, `SinkKeysProofs`, `SinkDevicesProofs`, `SinkRoutesProofs`, `SourceCecProofs` | theorems about the module of that name (`SinkDevicesProofs` also about `SinkPresence`) | - |
| `PluginsProofs`, `PictureProofs` | theorems about `Latency`, `HdcpProfile`, `Inputs` and `SettingsFile`, and about `PictureParams`, as `MCPlugins` runs them | - |

The last column is an outline; `PROJECT.json` gives the lines of every definition.

`SinkArc`, `SinkKeys`, `SinkDevices` and `SourceCec` have the same form. `pc` maps every thread to the label
of its next step; a label is a place between two statements where another
thread can get in and the order matters. Members keep their names (`cecEnableStatus`,
`m_pollNextState`, ...); a variable with another name stands for the member
its comment gives. History variables (`unseen`, `owed`, `overlap`, `displaced`, `torn`,
`may`, ...) are written and never read by an action.

**SinkArc.** `startArc` and `stopArc` are `CheckEnabled`, `CheckState`, `Request`,
`SignalRequest`, `RestartTimer`, run by API threads and also by the reader and
power threads, which return to their own callers (`ReturnLabel`). A block under
`m_arcRoutingStateMutex` is one step and the release of the semaphore that
follows it is another. `CECDisable` is a chain of steps with the spin in
`DisableSpin`; `m_enableMutex` is the variable `enableMutex`. The routing thread
takes the semaphore and copies the state in two steps (`AcquireSemaphore`,
`CopyState`): everything interesting happens between them.

**SinkDisable** adds two variables to the same steps: `asked`, that a request to
terminate has been sent while a listener was attached and has not been answered,
and `overtaken`, that during `CECDisable` the reader thread wrote
`ARC_STATE_ARC_INITIATED` over the request or over the end that had been reached,
with no answer to come. They tell the wait that ends from the one that does not.

**SinkKeys.** The sender holds `m_sendKeyEventMutex` only inside its wait, so each
of its accesses to the queue and to each flag is a step. A push, which holds
the mutex, is one step. `ResetStatus` is what `removeDevice(5)` and `CECDisable`
do to the flags, by any of `Resetters`.

**SinkDevices.** `threadRun` is a loop: `PollTop`, `PollForget` (the next state is
copied and cleared in two steps) and one action, or for PING a group of
actions, per state. `addDevice` and `removeDevice` are split after their test of
`m_isDevicePresent`, which is where two threads meet. A record is its presence,
its outstanding request, its retries and, per field, unknown, told or default;
the physical address and the device type, which one message tells, are one field,
of which `updateActiveSource` writes the address alone (`address`).
`CECDisable` clears the records and nothing else, as the code does. `SinkPresence`
adds one variable, `lately`, to the same steps: of the poll, the hot plug and the
reader thread, whether each device was attached at the moments since the thread
last stood at rest.

**SinkRoutes.** The devices of the bus are where `place` says, and move. A frame
handler, a hot plug, a failed ping and an API call are one step each: how they
interleave is the business of `SinkDevices`. A port has its own device and a
chain, which is a map from slots to devices; a slot is a level and the byte of
that level (`DeviceNode::m_childsLogicalAddr`). `told` is what a client knows that
follows `OnActiveSourceChange` and `OnInActiveSource`.

**SourceCec.** The conditions of pthread are the points `wait` and `wake` of the poll
and update threads; a signal to a thread that does not wait is lost. `CECEnable`
starts three threads and `CECDisable` joins them one by one, each a chain of
steps. `Connection::open` may throw, which leaves `CECEnable` half done: the next
`CECEnable` then joins a key thread that nobody has told to end, and `failed`
marks the behaviour; the connection that did not open stays allocated. A ping may
fail with an exception that `pingDeviceUpdateList` takes for an acknowledgement
(`TakenForAcknowledged`): the device is added though it is not there. `present` and `known` are the presence bit and the detail
flags of the records.

**PictureParams.** A context is a source, a picture mode and a format. `store` is
the TR181 store, `ssm` what the driver has saved, `panel` what it shows. A call
resolves its arrays of names (`convertToValidInputParameter`), checks them, drives
the panel if the current context is meant (`isSetRequired`, which searches names
as text), and then writes `store` and `ssm` for one context after the other
(`FirstHalf`, `SecondHalf`). The order depends on the parameter: `DriveFirst`,
`DriveLast` and `SaveFirst` say which method does what. Between any two steps the
pipeline may change, the driver refuse or the process die. The thirteen
parameters are followed one at a time, since no step relates two of them; the
eight whose methods take the same steps are one. The picture mode is followed
with each of them. The start is a chain of steps as well: the levels one by one,
the modes one by one up to a refusal, the reading of source and format, and the
setting of the mode that belongs to what was read. The two reads are one step.

**Inputs.** The calls of both plugins go step by step through the static variables
`planeType` and `isAudioBalanceSet`. The driver's changes go to a queue per plugin
and from there to `reported`, which is what a client knows. Resolutions and frame
rates are translated as the code's tables do.

**Latency**, **HdcpProfile** and **SettingsFile** read and write one variable per
step where the code has no lock: three statics read one by one into the
parameters of a call; four reads of the driver that make one status; a file that
is opened, read, deleted, created and written. A file of `SettingsFile` is a
function of the labels it has, and lives on for whoever has it open.

**MCPlugins.** These six modules have no variable in common. A behaviour of
`MCPlugins` runs one of them, `part`, and the others stand still. It extends
`SinkRoutes`, so that the properties checked are those the theorems are about, and
instantiates the others. One run therefore answers for six small systems, as
separate runs would.

## 3. Runs

| Run | Question | Instance |
|---|---|---|
| `sink_arc` | is a wake-up ever lost, is the link ever half open, does a thread outlive its connection, is the destructor clean | two API threads (symmetric) that switch CEC on and off and destroy the object; all messages; ARC port plugged and unplugged |
| `sink_arc_mailbox` | does the ARC state machine implement `ArcMailbox`, its liveness included | requests, `<Terminate ARC>`, power on and off, destructor |
| `sink_arc_live` | does `CECDisable` end | one API thread that starts ARC and switches CEC on and off, all messages, timer, the ARC port plugged, an audio system that answers |
| `sink_arc_disable_race` | *violation*: ARC is initiated while CEC is disabled | see finding 1 |
| `sink_arc_stop_timer` | *violation*: a termination is left without its timer | see finding 2 |
| `sink_keys` | do keys go out, does the sender end, is the volume learned | two keys of any kind, one resetting thread |
| `sink_keys_wakeup` | *violation*: the sender sleeps on a key | see finding 3 |
| `sink_devices` | do count and table agree, are retries bounded, has every device that enters or leaves the table given reason to | one device, two fields, CEC on twice, one cable or power event |
| `sink_devices_live` | is the listener attached, is everything asked for, is who is gone removed | the same, CEC on once |
| `sink_devices_count` | *violation*: a count of devices that are not there | see finding 4 |
| `source_cec` | are link, count of initialisations and threads whole between calls, is the table true when the poll thread sleeps, does `SetEnabled` return | one device, three calls of `SetEnabled`, two bus or cable events, one key, one failing `open` |
| `plugins` | do the four places of the active source agree, are ports and routes true; do clients of the inputs hear the truth and can the mixer be restored; does the sink report HdmiInput's latency; is the last HDCP word the status; are settings kept; do store, driver and panel agree | four devices on two ports; two HDMI inputs and a composite one under two callers; two handlers; two workers; two callers of the setters; two modes and two formats |

Bounds. `SinkArc` has no counters and no bounds: its instances differ in the
calls, messages and events offered, and two API threads suffice for one that
holds the mutex and one that comes in between; the theorems do not depend on
the number. `sink_arc_live` offers every message at every moment, `<Initiate ARC>`
among them, so that the late one that defeats the wait is in the instance and has
to be excepted: without `overtaken`, and without `CanBeAnswered`, TLC finds
`DisableCompletes` violated. Its one API thread is the one that waits; another one
could at most start or stop ARC. Smaller instances with the port unplugged and
with the television in standby were checked once. The destructor is not in it:
it leaves `cecSettingEnabled` true, so that every `<Initiate ARC>` during its wait
is taken up and each may overtake the request. `MaxKeys = 2` gives a key that arrives while the sender is busy with
the one before it, and while it goes to sleep; `Keys` contains a volume key, the
mute key and another one, so that all branches after a key are taken.
`SinkDevices` has three bounds: `MaxRetry` (3 in the code, 1 here: a first try, a
retry and the giving up), `MaxEvents` and `MaxEnables`. One event is a device that
goes away or a cable that is pulled at any moment of a request, removal or
addition; two enables give everything `CECDisable` leaves behind a second life.
`"PA"` and `"POWER"` are one field that is retried and one that is not and that
ages. One device suffices for two threads that meet over a record; larger
instances (two events with two enables, 10 million states; two devices with one
field, 1 million states) were checked once and hold too; `TableFollowsBus` was also
checked with two events, so that a device may go and come back in one pass. That it
needs its history is seen without: a device that goes after its ping is added
though it is gone, which TLC finds in eight states.

`SourceCec` (429 000 states): one API thread, as Thunder serialises the calls to a
plugin's out-of-process interface from one client and the code assumes it;
`MaxCalls = 3` is on, off and on again, so that records and counts survive one
`CECDisable` and one `CECEnable`; one device is enough for an addition that meets
a removal of the same record; one try of the update thread instead of five, since
a further try repeats the first; `MaxFaults = 1` is one exception of `open`;
`MaxEvents` bounds changes of bus and cable and the failed pings that are taken for
acknowledgements, together.

`plugins` (820 000 states). `SinkRoutes`: two ports, a device that changes between
them, two devices below it at the same level and one further down, where the
slots of two addresses collide; `MaxEvents = 5` moves, hot plugs and calls, while
frames are not bounded. `Inputs`: `MaxChanges = 3` calls and changes of the driver
and `MaxFaults = 1`: a balance, a stop that restores it and a call that comes in
between. `Latency`: `MaxReports = 3`, with a delay beyond the 510 ms that fit in a
byte. `HdcpProfile`: `MaxPortChanges = 2`, `MaxFaults = 1`. `SettingsFile`:
`MaxCalls = 2`, `MaxCrashes = 2`, a vendor identifier of more than three bytes and
one that is no number. `PictureParams`: `MaxTrouble = 1` refusal or crash, and
one more refusal in the start that follows a crash, any number of calls and of changes of the pipeline, and the name of one format occurs in
that of the other (`PartOf`), as HDR10 does in HDR10PLUS. The two callers are symmetric.

Deadlock is not checked: with CEC off, the object destroyed or a bound reached,
the systems rest.

Fairness. A thread that can take a step takes one (`WF` for each thread's steps):
they are plain threads of the operating system. A scheduled timer expires and
the time limit of a request passes. Callers, devices, cables and the power
button owe nothing. A device need not answer in `SinkDevices`. In
`sink_arc_live` the audio system answers a request to terminate that it was sent
(`AvrAnswers`, strong fairness of the receipt of `<Terminate ARC>` while `asked`; strong,
because the reader thread may be busy with other messages in between and reads
frames in the order they arrive): the code's spin in `CECDisable` has no time
limit of its own. Unasked, it owes nothing. In `SourceCec` the API threads, the
plugin's three threads, the reader and the hot plug thread are scheduled; callers,
frames, devices and cables owe nothing. `HdcpProfile`, `Inputs` and the other
parts of `plugins` have safety properties only: what is promised holds whenever
nothing is under way.

### Findings

1. `Process_InitiateArc` tests `cecSettingEnabled` without a lock (3299). A handler
   past the test initiates ARC while `CECDisable` is under way, which is what
   the comment above the test says it prevents. Worse may follow: if the handler
   stops the timer and writes the state before `threadArcRouting` has copied the
   request, nobody is asked any more, and `CECDisable` spins at 3088 for ever with
   `m_enableMutex` held. `DisableCompletes` excepts exactly this (`overtaken`).
2. `Process_InitiateArc` stops the timer before it looks at the power state
   (3307). In standby it then changes nothing, and a termination that `stopArc`
   has asked for has lost its time limit.
3. `threadSendKeyEvent` lowers the run flag without the mutex after it has seen an
   empty queue (3377). A key pushed in between stays until the next call.
   `AwakeSenderDelivers` and `SenderEnds` show that this is the whole damage.
4. `CECDisable` forgets the devices and keeps `m_numberOfDevices` (3139);
   `GetDeviceList` then reports a number of devices and an empty list. It is
   reset in the next POLL pass: `CountExact` shows that nothing worse follows.

### Exceptions that the properties name

Some properties hold only outside of situations in which the code does
otherwise. A history variable marks exactly these, and the comment of the
property says so:

- `DisableCompletes`: the late `<Initiate ARC>` of finding 1 (`overtaken`); and a
  request that was sent before `CECEnable` had attached the listener, the answer to
  which nobody hears (`CanBeAnswered`). The wait then depends on the timer alone, which a
  handler, or its own `stop` after the callback, may stop.
- `CountExact` (source): an addition by a frame that meets a removal, another
  addition or the reset of the count.
- `OneActiveSource`, `ClientKnowsSource`: the TV, a routing change or standby
  replaces `m_currentActiveSource` without a message (2068); `removeDevice` leaves it
  at a device that is gone, and `GetActiveSource` then names logical address 0;
  `updateImageViewOn` passes `<Image View On>` on as `OnInActiveSource` (1896).
- `PortsTrue`: a device that tells another address without having been removed,
  or that `CECDisable` forgot, still owns its port.
- `MixerRestorable`: `setMixerLevels` that fails after the first level leaves it in
  the driver with the flag down, and one that meets a restoration may be undone.
- `EventsConverge`: AVInput keeps one `m_currentVrrType` for all ports, so VRR is
  compared only on a port that alone has had any (`vrrPorts`); 240 Hz is told as
  2400. An earlier form of the property compared VRR as soon as one port had it. It
  held in the run and could not be proved: four changes of VRR on two ports leave
  a type on at the clients for good, one more change than `MaxChanges` allows.
- `PlaneTrue`: a second call of the plugin overwrites the static `planeType`.
- `LatencyAgrees`: the two handlers overlap, or the sink plugin restarts, which
  nobody tells HdmiInput.
- `HdcpLastWord`: two workers deliver in the other order.
- `SettingsKept`: two writers overlap. A crash in a call may bring back every
  default, since the file is deleted before it is written.
- `ListenerAttached`: a hot plug, power event or old message asks for another state
  before the first pass of `threadRun` has run POLL (2739).
- `StoredIsSaved`: Bright of a DV context, Game of an HDR10 or HLG one, and an HDR mode
  that was saved from an uninitialised enumerator. The proof found the second: the
  run has the HDR mode for DV only.
- `StoredIsSaved`, `PanelShowsStored`, `ModeInForce`: a crash between two writes of a
  context that has no stored level, a pipeline that changes under a call, a
  refusal of the driver. This includes the start: `initializePictureMode` reads
  source and format, then sets the mode (`AVOutputTVHelper.cpp` 732-743), and a
  pipeline that moves in between is left with the mode of what played before.
- `PanelShowsStored`, `ModeInForce`: `isSetRequired` looks for the current names inside
  the text of the names requested (`AVOutputTVHelper.cpp` 357), so that on a platform
  with HDR10 and HDR10PLUS a level that is set for HDR10PLUS is driven to the panel
  while HDR10 plays. `astray` marks the calls that found a name so (`FoundInside`);
  without that exception TLC finds `PanelShowsStored` violated in six states.
- `TableFollowsBus`: `CECDisable` forgets devices that are there.

## 4. Proofs

TLAPS proves the theorems below for every value of the constants that the
assumptions allow: any set of API threads, any choice of calls, messages, power
modes and port states; any keys and `Resetters`; any devices, ports and places;
any delays, clients, workers, ports, modes, rates, names and vendor ids; any picture
sources, modes, formats, capabilities and platforms; and any
value of every bound (`MaxKeys`, `MaxRetry`, `MaxEvents`, `MaxChanges`, ...), so that what
is proved holds for unbounded numbers of calls, changes, failures and crashes.

Assumptions. `ConstantsAssumption` of `SinkArc`, `SinkKeys`, `SinkDevices` and `SourceCec`:
the names of threads do not collide, the offered calls are calls of the code, and
devices are natural numbers (logical addresses). `RoutesAssumption`: the names
differ and the places are addresses. `PartsAssumption` of `MCPlugins` is the
conjunction of what the parts assume: delays and vendor ids are natural numbers
(the code's are unsigned or come from the driver as counts of milliseconds), the
ports of the two kinds differ, `dsVRR_NONE` is no VRR type, no name of a source, mode
or format is one of the words of a request ("Global", "Current", "none"), SDR is a
format, the HDR modes and formats are those of `hdrModeIndexMap`, whose enumerators
differ, and no level has the text of one that was never set. TLC evaluates all of
them.

The theorems of `PluginsProofs` and `PictureProofs` are about `PartsSpec`, the specification that the
run checks. A behaviour of it is one of the part that runs (`PartsStep`), so that
each invariant is one of the part's own `Init` and `Next`. The two callers of `MCPlugins`
are the one thing that is fixed; no proof uses that they are two.

| Theorem | Statement | Argument |
|---|---|---|
| `SinkArcProofs!TypeCorrect` | `[]TypeOK` | `TypeOK` is inductive by itself, because it binds each thread to the labels of its own code |
| `SinkArcProofs!SignalNeverLost` | `[]NoLostSignal` | inductive relative to `TypeOK`; `QuietStep` disposes of the steps that touch neither state nor semaphore, the rest write a state and stand at a release, release, or take the semaphore and stand at the copy |
| `SinkArcLinkProofs!LinkNeverHalfOpen`, `!PollThreadNeverLost`, `!DestructorCleansUp` | `[]LinkConsistent`, `[]PollThreadOwned`, `[]ShutdownClean` | the three are not inductive: they say nothing of a thread inside `CECEnable` or `CECDisable`. `LinkInvariant` adds who holds the mutex (`MutexHeld`), what the holder has done so far at each of its labels (`HolderProgress`), that the link is whole when the mutex is free (`FreeLink`), when a listener may be attached, that at most one thread runs the destructor and that `exited` means joined |
| `SinkArcProofs!MailboxSteps` | every step is a step or a stutter of `ArcMailbox` | every write of the state is a `Post`, except the silent ones of `CECDisable`, hot plug and the timer, which are a `Reset`; `StopIsLast`, that the routing thread takes nothing after EXIT, is the invariant it needs |
| `SinkKeysProofs!KeysTypeCorrect` | `[]TypeOK` of `SinkKeys` | includes that the sender, which tests and pops without the mutex, never pops an empty queue: only the sender removes |
| `SinkKeysProofs!SenderNeverSleepsThroughExit` | `[]NoSleepAfterExit` | needs `ExitFlagHeld`: the exit flag is up exactly at the destructor's labels after the first. The sender tests it after its wait and before it can lower the run flag |
| `SinkDevicesProofs!DevicesTypeCorrect` | `[]TypeOK` of `SinkDevices` | one part per thread; that the requester's device is the least of those with work left needs that a nonempty set of addresses has a least one (`LeastElement`) |
| `SinkDevicesProofs!DevicesCountExact` | `[]CountExact` | the count is not that of the records while a thread is between the two halves of `addDevice` or `removeDevice`. `CountInv` says what it is then: the devices in the table without those about to leave (`Counted`), that a session has its threads in their places (`Session`), and that the table is empty and stays so while CEC is off and until the poll thread has reset the count (`Waiting`) |
| `SinkDevicesProofs!TableFollows` | `TableFollowsBus`, an action property of `SinkPresence` | `PresenceInv`: a thread that is about to change a record has seen the device so since it set to work (`Grounded`), what a pass has listed was so in the pass, and no pass leaves anything in its lists (`Listed`); for the last, `Session` says that a new poll thread starts only where no old one is |
| `SinkRoutesProofs!ActiveSourceUnique`, `!ClientsFollow` | `[]OneActiveSource`, `[]ClientKnowsSource` | `SourceInv`: the records are typed, a current device that was not removed is linked, present and flagged (`Current`), a flagged device is current or displaced (`Flagged`), and `ClientKnowsSource` itself. `OneActiveSource` follows, its part about the two API calls from `Current` |
| `SinkRoutesProofs!RoutesTypeCorrect` | `[]TypeOK` of `SinkRoutes` | inductive by itself; it includes that an absent device has a cleared record, which each removal has to establish |
| `SinkRoutesProofs!PortsAreTrue` | `[]PortsTrue` | inductive relative to `TypeOK`; the work is in removals, which clear the port of the device that goes, whoever holds it (`RemovalKeepsPorts`) |
| `SinkRoutesProofs!RouteIsTrue` | `[]RouteIsPath`, if `PlacesUnbroken` | inductive are that devices are at places of theirs, one at each (`Located`), and that a recorded device is in the slot of its address, or owns its port (`Recorded`): two addresses of one port share a slot only if their levels and last bytes agree, and then the later report displaces the earlier device from `placed`. That `getRoute` visits the slots of the addresses above is a matter of the operators (`DepthIs`, `HopsAre`, `SlotIs`, `RouteOf`, `OnTheWay`, `NamedIs`) |
| `SourceCecProofs!SourceTypeCorrect` | `[]TypeOK` of `SourceCec` | as for `SinkDevices` |
| `SourceCecProofs!SourceLinkInForce`, `!SourceWorkersOwned` | `[]LinkInForce`, `[]WorkersOwned`, if `[]Serial` | `CECEnable` and `CECDisable` of this plugin hold no mutex, so the hypothesis that at most one API thread is inside them stands where `SinkArc` has `MutexHeld`. `LinkInv` says what the one caller has done at each of its labels (`Progress`), thread by thread, that everything agrees when nobody is inside, and what is left for good after a connection that failed to open (`Broken`) |
| `SourceCecProofs!SourcePollTruth`, `!SourceCountExact` | `[]PollTruth`, `[]CountExact`, if `[]Serial` | `TableInv`, which needs `LinkInv` to know that no poll thread runs while the table is cleared: `Counted`, and which devices a pass has still to visit (`Visiting`) or has found right (`FreshTrue`) |
| `SourceCecProofs!SoleCaller` | the four of them, if `Api` has one element | `Serial` then holds; this is the instance of the run, whatever its other constants |
| `PluginsProofs!LatencyAgreement` | `[]LatencyAgrees` | `LatencyInv`: unless handlers have met, there is one at a time (`Alone`), what it has read so far is what the statics are (`ReadTrue`), and when none runs the sink has the last report (`Reported`) |
| `PluginsProofs!HdcpAgreement` | `[]HdcpLastWord` | `HdcpInv`: with no event outstanding, what the handler has read so far tells the port as it is (`ReadBefore`), and between two handlers the last status submitted does, on its way through the jobs to the client (`LastOnItsWay`) |
| `PluginsProofs!MixerIsRestorable` | `[]MixerRestorable` | `MixInv`: a level that is not full is owed by a plugin's flag, by a call that has yet to raise the flag, or by a stop that is about to restore it (`Owed`), and in one plugin no call of `setMixerLevels` meets a stop that restores (`MixApart`) |
| `PluginsProofs!EventsAgreement` | `[]EventsConverge` | `EventInv`: of every port, kind of event and plugin, the last event in the queue, or without one what was told, is the driver's value (`Following`); VRR of AVInput has a statement of its own (`VrrHeard`), since a hot plug event changes what later ones mean |
| `PluginsProofs!PlaneIsTrue` | `[]PlaneTrue` | `PlaneInv`: the static variable is the plane of the call that runs alone (`PlaneGiven`) until the driver has it (`PlaneChosen`), and stays so until the event is delivered or another call disturbs it (`PlaneTold`) |
| `PluginsProofs!SettingsAreKept` | `[]SettingsKept` | `SettingsInv`: for some settings that a restart may bring, the file the name leads to means them before the destruction and means them changed after the write, the content in the caller's hands means them changed in between, and the members are already what they will be (`Going`, step by step of `persistJsonSettings`); `loadSettings` is such a call without a change |
| `PictureProofs!SavedIsStored` | `[]StoredIsSaved` | `SavedInv`: every context that the current iteration of the loop has not half written agrees (`Agreed`), and of one that it has, the half is done that `SaveFirst` says (`HalfDone`); while the plugin synchronises, those it has still to visit are excepted. A text read back is the level that was written (`DecodeEncode`) |
| `PictureProofs!ModeIsInForce` | `[]ModeInForce` | `ModesAgree`: of a pair of source and format that is not half written, the saved mode is the stored one, and the mode applied is that of the pipeline except in the loop of `setPictureMode` before, and of `resetPictureMode` after, the pair of the pipeline is visited (`ModeApplied`); while the plugin synchronises, the pairs still to visit are excepted, and at the end none is left (`ModesSynced`) |
| `PictureProofs!PanelIsTrue` | `[]PanelShowsStored` | `PanelAgrees`, on top of the two above: the panel shows the stored level of the current context, or is ahead of it in a method that drives first (`PanelAhead`, `ModeAhead`), or behind it in one that drives last (`PanelBehind`, `ModeBehind`), with the contexts that are left saying which; `RequiredIs` says that `isSetRequired` finds the current context if it is requested and, unless it found a name inside another, only then |
| `PictureProofs!PartsTypesCorrect` | `[]PartsTypeOK` | the types are part of the five parts' invariants |

The theorems of `PluginsProofs` on inputs and settings rest on lemmas about the operators of the models: what
appending an event, delivering it or changing one key of a file does
(`SendTells`, `DeliverTypes`, `FileWithKey`, `MembersChange`).

One hypothesis is about addresses, and the instance of the run satisfies it.
`PlacesUnbroken`: a physical address has no zero byte before one that is not
zero. HDMI makes addresses so, each device adding a byte to that of the device
above; of 1.1.0.1, which only a broken frame can tell, it is not defined which
devices lie above it. About names there is none: which names occur in which others
is a constant (`PartOf`), and the theorems hold for any.

`Serial` is what the run `source_cec` has by its single API thread, and what
Thunder gives a plugin with one client. Without it the plugin's own
`SetEnabled(true)` and `SetEnabled(false)` interleave and nothing of the link holds;
this is the hazard listed at `HdmiCecSourceImplementation.cpp` 1152.

Every safety invariant and the action property that a passing run checks are theorems, and
so is the safety half of `MailboxImplemented`. Only model-checked:

- all liveness (`DisableCompletes`, `SenderEnds`, `AwakeSenderDelivers`, `StatusLearned`,
  `InfoAcquired`, `GoneNoticed`, `ListenerAttached`, `ApiCompletes` and the fairness half of
  `MailboxImplemented`): fairness and ENABLED are out of the prover's reach;
- the violations, which need no proof.

## 5. What is not modelled, and why

- **Frames.** Messages are their kind and sender. Encoding, names and vendor
  identifiers play no part in any property. Sending is a step without effect.
- **Failures of libCEC calls** in the sink (exceptions of `open`, `sendTo`, `init`),
  except that allocating a logical address may fail; in the source only `open`
  and the pings fail.
- **Data races as such.** Plain variables are sequentially consistent, `++` on an
  `int` and the operations of `std::queue` are atomic. The orders of whole
  statements are what the models explore.
- **The life of `smConnection` against `threadArcRouting`**, which tests the pointer
  and sends through it while `CECDisable` may delete it, and against the source's
  hot plug thread (`HdmiCecSourceImplementation.cpp` 826).
- **Lists of notification sinks**, which the sink iterates without their lock.
  `HdcpProfile` models registration with its lock.
- **One device per port** in `SinkDevices`; cascades are in `SinkRoutes`, where in turn
  additions and removals are single steps. The record of the television itself,
  address 15 and the flags of the audio device are left out of `SinkDevices` (the
  last are in `SinkKeys`).
- **Queries and single calls of the driver**: EDID, SPD, video rectangle, supported
  game features, capability queries of AVOutput, `GetSettopHDCPSupport`. They keep
  no state and are followed by nothing.
- **Overlapping calls of AVOutput.** The plugin has no lock; `PictureParams` runs one
  call at a time. Two sets of one parameter may write the store in one order and
  the driver in the other, and nothing in the code promises otherwise.
- **String tables of AVOutput** (names of enumerators, keys of the ini files) beyond
  what a level is encoded to and decoded from.
- **Plugin shells** (`HdmiCecSink.cpp`, `Module.cpp`, ...): creation of the
  out-of-process object and forwarding; the framework does the work.
- **Other helpers**: `frontpanel.cpp`, `cSettings.h` and the WebSocket helpers are not
  used by the plugins of this repository; the rest are wrappers.
- **Tests and mocks**, `L2HalMock` with its `dsMgr` among them: they stand for
  hardware and other processes, which the models take as an environment.

Observed in the code, without a property:

- Sink. The state `POLL_THREAD_STATE_WAIT` is never entered. A hot plug between
  `cecEnableStatus = true` and the first pass of `threadRun` replaces POLL by PING,
  and the listener is then never attached (the exception of `ListenerAttached`). A device that sends from address 15 is
  added and can never be removed. `FeatureAbort` and an elapsed request write
  records of absent devices. The timer may overwrite `ARC_STATE_ARC_EXIT`. The
  comment about the ARC timer says 3 seconds, its constant 4000 ms.
- Routes. The removal of any device resets the port's own device (2482-2498). A
  child that reports before the port's device is not recorded. `setRoutingChange`
  overwrites the active source before it checks anything. `GetDeviceList`
  overwrites the power status with the port number. `OnImageViewOnMsg`
  (`HdmiCecSink.h` 134) is never called.
- Source. `isLGTvConnected` is never reset (817). `PerformOTPAction` sets
  `isDeviceActiveSource` after the broadcast that makes it so (1278), and a frame
  handled in between is overwritten. Keys that were queued when CEC went off are
  sent when it is on again.
- AVOutput. `getLocalparam` decodes the HDR mode Bright of a DV context, and Game of an
  HDR10 or HLG one, as `tvDolbyMode_Game` (`AVOutputTVHelper.cpp` 1500; the table
  that encodes them is at 266). `setHDRMode` saves an enumerator that it has not initialised when the
  panel is not to be written (`AVOutputTV.cpp` 3363). `StoredIsSaved`
  excepts all three. `isSetRequired` drives the panel for HDR10 when HDR10PLUS is meant
  (357).
- Inputs. The levels given to the driver are not those that were limited to 100
  (`HdmiInput.cpp` 333). A status event carries the plane of whatever call came
  last. `getGameFeatureStatus` reads an uninitialised `vrrStatus` when the driver
  throws.
- Settings. The sink's `loadSettings` omits the OTP label from the file it creates
  (1836), so that the next start deletes and rewrites it.

## 6. Plan

1. `SinkArc` with failing calls of libCEC and the life of the connection.
2. The composition of `SinkDevices` and `SinkRoutes`: additions and removals that
   interleave while the route is read.
3. `PictureParams` with two calls that overlap.
