------------------------------ MODULE MCPlugins -----------------------------
(***************************************************************************)
(* Instances for TLC of the parts that share no state with one another: a  *)
(* behaviour runs one of them.  Meanwhile SinkRoutes, whose variables and  *)
(* properties are those of this module, stays in its initial state, and    *)
(* the variables of the others are 0.                                      *)
(***************************************************************************)
EXTENDS SinkRoutes, Integers, TLC

CONSTANTS c1, c2, d1, d2, d3, d4   \* callers and CEC devices

\* PictureParams
CONSTANTS Sources, Modes, Formats, Unsupported, PartOf, DefaultMode, HdrFormats,
          HdrModes, Follow, VideoFormats, MaxTrouble
\* Inputs
CONSTANTS HdmiPorts, CompositePorts, Signals, Rates, VrrTypes, Contents, MixerLevels, Planes,
          MaxChanges, MaxFaults
\* Latency and HdcpProfile
CONSTANTS Delays, MaxReports, Clients, Workers, MaxPortChanges
\* SettingsFile
CONSTANTS Names, DefaultName, VendorTexts, Invalid, MaxCalls, MaxCrashes

VARIABLES
  part,   \* the part that runs
  param, store, ssm, panel, video, modeStore, ssmMode, drvMode, up, call, astray,
  torn, lost, faults, crashes,
  driver, select, mixer, queue, reported, planeType, balanceSet, vrrType,
  request, changes, failed, mixerTorn, chosen, steady, vrrPorts,
  statics, sink, active, handler, reports, met, missed,
  port, portEvents, portHandler, jobs, held, registered, heard, portChanges,
  portFaults, outdated, dropped,
  plugin, phase, member, path, disk, setter, calls, deaths, may, overlapped

Callers == {c1, c2}
AnyCaller == Permutations(Callers)

\* SinkRoutes: a device that moves between two ports, two below it that share the
\* slot of a level, and one two levels down.
MCPlaces == (d1 :> {<<1, 0, 0, 0>>, <<2, 0, 0, 0>>}) @@ (d2 :> {<<1, 1, 0, 0>>})
         @@ (d3 :> {<<1, 1, 1, 0>>}) @@ (d4 :> {<<1, 2, 1, 0>>})

\* Inputs
Pixels == {<<1280, 720>>}

\* PictureParams: the Dolby Vision and HDR modes are offered for DV only, and so
\* are, to keep the instance small, the others that are not plain; the plain ones
\* are offered for both formats, and like the HDR mode for one picture mode; CMS
\* does not depend on the source.
MCCapability ==
  [p \in {"Plain", "DolbyVisionMode", "HDRMode", "LowLatencyState", "CMS",
          "WhiteBalance", "PictureMode"} |->
     [range |-> CASE p = "PictureMode" -> Modes
                  [] p = "DolbyVisionMode" -> {"Dark", "Game"}
                  [] p = "HDRMode" -> HdrModes
                  [] OTHER -> {"high"},
      source |-> IF p = "CMS" THEN {"none"} ELSE Sources,
      mode   |-> CASE p = "PictureMode" -> {"none"}
                  [] p \in {"Plain", "HDRMode"} -> {"game"}
                  [] OTHER -> Modes,
      format |-> IF p \in {"Plain", "PictureMode"} THEN Formats ELSE {"DV"}]]

\* Every context, the current one, one of them, a list, and mixtures.
MCRequests ==
  {[source |-> s, mode |-> m, format |-> f] :
     s \in {{"Current"}}, m \in {{"Current"}, {"game"}}, f \in {{"Current"}, {"DV"}}}
    \cup {[source |-> {"Global"}, mode |-> {"Global"}, format |-> {"Global"}]}

\* One name occurs in another, as HDR10 does in HDR10PLUS.
MCPartOf == {<<"SDR", "DV">>}

MCHdrEnumerator(f, m) == f \o m

\* The factory levels differ between the picture modes.
MCDefaultLevel(p, c) ==
  CASE p = "HDRMode" -> MCHdrEnumerator("DV", "Dark")
    [] p = "DolbyVisionMode" -> "Bright"
    [] OTHER -> IF c.mode = "game" THEN "low" ELSE "mid"

P == INSTANCE PictureParams WITH
       Capability <- MCCapability, DefaultLevel <- MCDefaultLevel,
       HdrEnumerator <- MCHdrEnumerator, Requests <- MCRequests
N == INSTANCE Inputs WITH torn <- mixerTorn, Levels <- MixerLevels
L == INSTANCE Latency
H == INSTANCE HdcpProfile WITH
       faults <- portFaults, changes <- portChanges, queue <- portEvents,
       handler <- portHandler, MaxChanges <- MaxPortChanges
S == INSTANCE SettingsFile WITH call <- setter, crashes <- deaths, met <- overlapped

PictureVars ==
  <<param, store, ssm, panel, video, modeStore, ssmMode, drvMode,
    up, call, astray, torn, lost, faults, crashes>>
InputsVars ==
  <<driver, select, mixer, queue, reported, planeType, balanceSet,
    vrrType, request, changes, failed, mixerTorn, chosen, steady, vrrPorts>>
LatencyVars ==
  <<statics, sink, active, handler, reports, met, missed>>
HdcpVars ==
  <<port, portEvents, portHandler, jobs, held, registered, heard,
    portChanges, portFaults, outdated, dropped>>
SettingsVars ==
  <<plugin, phase, member, path, disk, setter, calls, deaths,
    may, overlapped>>

NoPicture ==
  param = 0 /\ store = 0 /\ ssm = 0 /\ panel = 0 /\ video = 0 /\
  modeStore = 0 /\ ssmMode = 0 /\ drvMode = 0 /\ up = 0 /\ call = 0 /\
  astray = 0 /\ torn = 0 /\ lost = 0 /\ faults = 0 /\ crashes = 0
NoInputs ==
  driver = 0 /\ select = 0 /\ mixer = 0 /\ queue = 0 /\
  reported = 0 /\ planeType = 0 /\ balanceSet = 0 /\ vrrType = 0 /\
  request = 0 /\ changes = 0 /\ failed = 0 /\ mixerTorn = 0 /\ chosen = 0 /\
  steady = 0 /\ vrrPorts = 0
NoLatency ==
  statics = 0 /\ sink = 0 /\ active = 0 /\ handler = 0 /\
  reports = 0 /\ met = 0 /\ missed = 0
NoHdcp ==
  port = 0 /\ portEvents = 0 /\ portHandler = 0 /\ jobs = 0 /\
  held = 0 /\ registered = 0 /\ heard = 0 /\ portChanges = 0 /\
  portFaults = 0 /\ outdated = 0 /\ dropped = 0
NoSettings ==
  plugin = 0 /\ phase = 0 /\ member = 0 /\ path = 0 /\ disk = 0 /\
  setter = 0 /\ calls = 0 /\ deaths = 0 /\ may = 0 /\ overlapped = 0

\* Assumptions of the parts.
ASSUME PartsAssumption ==
  /\ P!PictureAssumption /\ RoutesAssumption
  /\ N!InputsAssumption /\ L!LatencyAssumption /\ S!SettingsAssumption

PartsInit ==
  /\ Init
  /\ \/ part = "picture"  /\ P!Init /\ NoInputs /\ NoLatency /\ NoHdcp /\ NoSettings
     \/ part = "routes"   /\ NoPicture /\ NoInputs /\ NoLatency /\ NoHdcp /\ NoSettings
     \/ part = "inputs"   /\ N!Init /\ NoPicture /\ NoLatency /\ NoHdcp /\ NoSettings
     \/ part = "latency"  /\ L!Init /\ NoPicture /\ NoInputs /\ NoHdcp /\ NoSettings
     \/ part = "hdcp"     /\ H!Init /\ NoPicture /\ NoInputs /\ NoLatency /\ NoSettings
     \/ part = "settings" /\ S!Init /\ NoPicture /\ NoInputs /\ NoLatency /\ NoHdcp

PartsNext ==
  /\ \/ /\ part = "picture" /\ P!Next
        /\ UNCHANGED <<vars, InputsVars, LatencyVars, HdcpVars, SettingsVars>>
     \/ /\ part = "routes" /\ Next
        /\ UNCHANGED <<PictureVars, InputsVars, LatencyVars, HdcpVars, SettingsVars>>
     \/ /\ part = "inputs" /\ N!Next
        /\ UNCHANGED <<PictureVars, vars, LatencyVars, HdcpVars, SettingsVars>>
     \/ /\ part = "latency" /\ L!Next
        /\ UNCHANGED <<PictureVars, vars, InputsVars, HdcpVars, SettingsVars>>
     \/ /\ part = "hdcp" /\ H!Next
        /\ UNCHANGED <<PictureVars, vars, InputsVars, LatencyVars, SettingsVars>>
     \/ /\ part = "settings" /\ S!Next
        /\ UNCHANGED <<PictureVars, vars, InputsVars, LatencyVars, HdcpVars>>
  /\ UNCHANGED part

PartsSpec ==
  PartsInit /\ [][PartsNext]_<<part, vars, PictureVars, InputsVars, LatencyVars, HdcpVars, SettingsVars>>
-----------------------------------------------------------------------------
(* The properties of the parts; the modules say what they mean.  Those of  *)
(* SinkRoutes are checked under their own names.                           *)

\* The type invariant of the part that runs.
PartsTypeOK ==
  /\ part = "picture"  => P!TypeOK
  /\ part = "inputs"   => N!TypeOK
  /\ part = "latency"  => L!TypeOK
  /\ part = "hdcp"     => H!TypeOK
  /\ part = "settings" => S!TypeOK

\* A level the plugin has stored is one the driver has saved, unless a write was lost
\* or the process died in a call (saveXToLocalStore in AVOutputTVHelper.cpp).
StoredIsSaved == part = "picture" => P!StoredIsSaved

\* The panel shows the level of the current context once a call or a change of
\* video has been dealt with.
PanelShowsStored == part = "picture" => P!PanelShowsStored

\* The picture mode the driver applies is the stored one of the current source and
\* format (SetTVPictureMode).
ModeInForce == part = "picture" => P!ModeInForce

\* A mixer whose input was raised over the program audio is set back by a stop
\* (stopHdmiInput, stopInput).
MixerRestorable == part = "inputs" => N!MixerRestorable

\* When the events are delivered, the clients know the driver's state (the event
\* handlers of HdmiInput.cpp and AVInput.cpp).
EventsConverge == part = "inputs" => N!EventsConverge

\* The plane in a status event is the one of the port that plays (planeType).
PlaneTrue == part = "inputs" => N!PlaneTrue

\* The latency the CEC sink reports is the one HdmiInput measured last
\* (reportLatencyInfoToHdmiCecSink, setLatencyInfo).
LatencyAgrees == part = "latency" => L!LatencyAgrees

\* The last HDCP status a client has heard is the one GetHDCPStatus answers.
HdcpLastWord == part = "hdcp" => H!HdcpLastWord

\* What was set is kept over restarts (persistJsonSettings, loadSettings).
SettingsKept == part = "settings" => S!SettingsKept
=============================================================================
