---------------------------- MODULE PictureParams -----------------------------
(***************************************************************************)
(* The picture parameters of the AVOutput plugin (AVOutputTV.cpp and       *)
(* AVOutputTVHelper.cpp).                                                  *)
(*                                                                         *)
(* A parameter has one level for every context, that is for every source,  *)
(* picture mode and format.  It lives in three places: the plugin's local  *)
(* store (TR181, only what was set), the driver's saved data (Save...), and  *)
(* the level the panel shows now (Set...).  A call writes them one after   *)
(* the other without a lock or a transaction, while the video pipeline     *)
(* may change source and format, the driver may refuse, and the process    *)
(* may die between any two writes.                                         *)
(*                                                                         *)
(* The methods of all parameters are here; a behaviour follows one of      *)
(* them, "param", because no step relates the levels of two parameters.    *)
(* "Plain" stands for the eight whose methods take the same steps, and one *)
(* colour and component (or control) for those of CMS and WhiteBalance:    *)
(* each has a key, and a loop iteration, of its own.                       *)
(***************************************************************************)
EXTENDS Naturals

CONSTANTS
  Sources, Modes, Formats,    \* names of pq_capabilities.ini
  Capability,                 \* Capability[p]: range and the names allowed per dimension
  Unsupported,                \* parameters without platform support; the methods of
                              \* the plain ones and of LowLatencyState do not ask
  PartOf,                     \* <<n, m>>: the name n occurs inside the name m
  DefaultLevel(_, _),         \* GetDefaultPQParams
  DefaultMode,                \* picture mode of the rfcdefaults file
  HdrFormats, HdrModes,       \* formats and modes with an enumerator of their own
  HdrEnumerator(_, _),        \* the driver's enumerator of a format and an HDR mode
  Requests,                   \* names a set or reset gives per dimension
  Follow,                     \* the parameters followed
  VideoFormats,               \* formats the pipeline reports, "NONE" among them
  MaxTrouble                  \* bound on refusals and crashes together; a start after
                              \* crashes may meet as many refusals

Params  == {"Plain", "DolbyVisionMode", "HDRMode", "LowLatencyState", "CMS", "WhiteBalance"}
Dims    == {"source", "mode", "format"}
Ctx     == [source : Sources, mode : Modes, format : Formats]

\* The mode enumeration of the Dolby, HDR10 and HLG drivers, and whatever else
\* an uninitialised variable of its type may hold.
HdrEnum    == {HdrEnumerator(f, m) : f \in HdrFormats, m \in HdrModes} \cup {"junk"}

\* What the picture mode is kept by.
Slots == [source : Sources, format : Formats]

Levels(p) == IF p = "HDRMode" THEN HdrEnum
             ELSE Capability[p].range \cup {DefaultLevel(p, c) : c \in Ctx}
                    \cup (IF p = "CMS" THEN {"off"} ELSE {})

Unset == "unset"
Strings(p) == IF p = "HDRMode" THEN HdrModes \cup {""} ELSE Levels(p)

\* The names of a dimension, none of which is one of the words of a request.
NamesOf == [source |-> Sources, mode |-> Modes, format |-> Formats]

NamesAssumption ==
  /\ DefaultMode \in Modes
  /\ "SDR" \in Formats /\ VideoFormats \subseteq Formats \cup {"NONE"}
  /\ {"none", "Global", "Current"} \cap (Sources \cup Modes \cup Formats) = {}

\* A dimension a parameter does not depend on is "none".
CapabilityAssumption ==
  /\ \A p \in Params \cup {"PictureMode"}, d \in Dims :
       Capability[p][d] = {"none"} \/ Capability[p][d] \subseteq NamesOf[d]
  /\ Capability["PictureMode"].range \subseteq Modes
  /\ \A p \in Params : /\ Unset \notin Capability[p].range
                       /\ \A c \in Ctx : DefaultLevel(p, c) # Unset

\* The enumerators of hdrModeIndexMap differ.
HdrAssumption ==
  /\ {"Dark", "Game"} \subseteq HdrModes /\ HdrModes \subseteq {"Dark", "Bright", "Game"}
  /\ "DV" \in HdrFormats /\ HdrFormats \subseteq {"DV", "HDR10", "HLG"}
  /\ {"HDR10", "HLG"} \cap Formats \subseteq HdrFormats
  /\ \A f, g \in Formats \cup HdrFormats, m, n \in HdrModes :
       /\ HdrEnumerator(f, m) = HdrEnumerator(g, n) => f = g /\ m = n
       /\ HdrEnumerator(f, m) # "junk"
  /\ \A c \in Ctx : DefaultLevel("HDRMode", c) \in HdrEnum

PictureAssumption ==
  /\ Follow \subseteq Params /\ MaxTrouble \in Nat
  /\ Unsupported \subseteq {"DolbyVisionMode", "HDRMode", "CMS", "WhiteBalance"}
  /\ NamesAssumption /\ CapabilityAssumption /\ HdrAssumption

VARIABLES
  param,       \* the parameter this behaviour follows
  store,       \* local store: level strings by context, or Unset
  ssm,         \* driver: saved levels by context
  panel,       \* driver: the level shown
  video,       \* driver: current source and format (format may be "NONE")
  modeStore,   \* local store: PictureModeString by source and format
  ssmMode,     \* driver: saved picture mode by source and format
  drvMode,     \* driver: the picture mode applied
  up,          \* is the plugin down, in Initialize, or up
  call,        \* the method being executed
  astray,      \* ghost: since the pipeline last changed between two calls, or the
               \* start set its mode, it changed under a call, or between the reads
               \* and the write of the start, or a call drove it under a name found
               \* inside another
  torn,        \* ghost: the process died inside a call
  lost,        \* ghost: the store or the driver lost a level write
  faults, crashes

modeVars  == <<modeStore, ssmMode, drvMode>>
levelVars == <<store, ssm, panel>>
ghosts    == <<astray, torn, lost, faults, crashes>>
vars == <<param, levelVars, video, modeVars, up, call, ghosts>>

NoCall  == [op |-> "none", at |-> "none", level |-> Unset,
            dims |-> [d \in Dims |-> {}], todo |-> {}, now |-> {},
            prev |-> Unset, ok |-> TRUE]
----------------------------------------------------------------------------
(* Names, contexts and conversions.                                        *)

FormatNow == IF video.format = "NONE" THEN "SDR" ELSE video.format
SlotNow   == [video EXCEPT !.format = FormatNow]
ModeNow   == modeStore[SlotNow]
Now       == [source |-> video.source, mode |-> ModeNow, format |-> FormatNow]

\* What the driver shows for a context of the pipeline.
Shown(saved, s, m, f) == saved[[source |-> s, mode |-> m, format |-> f]]

\* A request has an array of names per dimension.
convertToValidInputParameter(p, d, names) ==
  IF names = {"Global"} THEN Capability[p][d]
  ELSE IF names = {"Current"} THEN {Now[d]} ELSE names

parsingSetInputArgument(p, r) ==
  [d \in Dims |-> convertToValidInputParameter(p, d, r[d])]

\* The levels that pass the check of the range.
validateInputParameter(p) == Capability[p].range

isCapablityCheckPassed(p, dims) == \A d \in Dims : dims[d] \subseteq Capability[p][d]

isPlatformSupport(p) == p \notin Unsupported

\* The contexts a resolved request stands for; "none" stands for every name.
getSaveConfig(dims) ==
  {c \in Ctx : \A d \in Dims : dims[d] = {"none"} \/ c[d] \in dims[d]}

\* The names are searched as text in the comma separated list.
Mentions(list, name) ==
  \/ list \in {{"none"}, {"Global"}, {"Current"}}
  \/ \E n \in list : n = name \/ <<name, n>> \in PartOf

isSetRequired(dims) == \A d \in Dims : Mentions(dims[d], Now[d])

\* History: a current name was found inside requested names only.
FoundInside(dims) ==
  /\ isSetRequired(dims)
  /\ \E d \in Dims : ({"none", "Global", "Current"} \cup {Now[d]}) \cap dims[d] = {}

\* The text kept in the local store for a level.
EncodeAsIs(p, v) == v
Encode(p, v) ==
  IF p # "HDRMode" THEN v
  ELSE IF v = "junk" THEN ""
  ELSE CHOOSE m \in HdrModes : \E f \in HdrFormats : v = HdrEnumerator(f, m)

\* The level read back from it.
Decode(p, f, s) ==
  IF p # "HDRMode" THEN s
  ELSE IF s \in {"Dark", ""} /\ f \in HdrFormats THEN HdrEnumerator(f, "Dark")
  ELSE IF s = "Bright" /\ f \in {"HDR10", "HLG"} THEN HdrEnumerator(f, "Bright")
  ELSE HdrEnumerator("DV", "Game")

\* The level of a context as getLocalparam reports it.
getLocalparam(c) ==
  IF store[c] = Unset THEN DefaultLevel(param, c) ELSE Decode(param, c.format, store[c])
----------------------------------------------------------------------------
Init ==
  /\ param \in Follow
  /\ store = [c \in Ctx |-> Unset]
  /\ ssm = [c \in Ctx |-> DefaultLevel(param, c)]
  /\ video \in [source : Sources, format : VideoFormats]
  /\ modeStore = [x \in Slots |-> DefaultMode]
  /\ ssmMode = modeStore
  /\ drvMode = DefaultMode
  /\ panel = Shown(ssm, video.source, DefaultMode, FormatNow)
  /\ up = "up"
  /\ call = NoCall
  /\ astray = FALSE /\ torn = FALSE /\ lost = FALSE /\ faults = 0 /\ crashes = 0

Idle  == call.op = "none"
Ready == up = "up" /\ Idle
----------------------------------------------------------------------------
(* Set and reset.                                                          *)

\* Which of the three places a call writes first.
DriveFirst(p, op) == IF op = "set" THEN p # "LowLatencyState" ELSE p = "CMS"
DriveLastNever(p, op) == FALSE
DriveLast(p, op)  == ~DriveFirst(p, op) /\ op \in {"set", "reset"} /\ p # "WhiteBalance"
SaveFirst(p, op)  == op = "set" /\ p \in {"CMS", "WhiteBalance"}

\* setDolbyVisionMode asks for the driver with "Current" and "DV" whatever
\* was requested; it stores for "DV" only.
DriveDims(p, dims) ==
  IF p = "DolbyVisionMode" THEN [dims EXCEPT !["mode"] = {"Current"}, !["format"] = {"DV"}]
  ELSE dims
SaveDims(p, dims) == IF p = "DolbyVisionMode" THEN [dims EXCEPT !["format"] = {"DV"}] ELSE dims

Begin(p, op, v, r) ==
  /\ Ready /\ param = p
  /\ isPlatformSupport(p)
  /\ LET dims == parsingSetInputArgument(p, r)
         todo == getSaveConfig(SaveDims(p, dims))
     IN /\ isCapablityCheckPassed(p, dims)
        /\ todo # {}
        /\ call' = [op |-> op, at |-> IF DriveFirst(p, op) THEN "check" ELSE "write",
                    level |-> v, dims |-> dims, todo |-> todo, now |-> {},
                    prev |-> IF p = "LowLatencyState" THEN panel ELSE Unset, ok |-> TRUE]
  /\ UNCHANGED <<param, levelVars, video, modeVars, up, ghosts>>

SetParam(p, r)   == \E v \in validateInputParameter(p) : Begin(p, "set", v, r)
ResetParam(p, r) == Begin(p, "reset", Unset, r)

setBacklight(r)            == SetParam("Plain", r)
setBrightness(r)           == SetParam("Plain", r)
setContrast(r)             == SetParam("Plain", r)
setSaturation(r)           == SetParam("Plain", r)
setSharpness(r)            == SetParam("Plain", r)
setHue(r)                  == SetParam("Plain", r)
setColorTemperature(r)     == SetParam("Plain", r)
setBacklightDimmingMode(r) == SetParam("Plain", r)
setDolbyVisionMode(r)      == SetParam("DolbyVisionMode", r)
setLowLatencyState(r)      == SetParam("LowLatencyState", r)
setCMS(r)                  == SetParam("CMS", r)
set2PointWB(r)             == SetParam("WhiteBalance", r)
setHDRMode(r)              == \E m \in HdrModes : Begin("HDRMode", "set", m, r)

resetBacklight(r)            == ResetParam("Plain", r)
resetBrightness(r)           == ResetParam("Plain", r)
resetContrast(r)             == ResetParam("Plain", r)
resetSaturation(r)           == ResetParam("Plain", r)
resetSharpness(r)            == ResetParam("Plain", r)
resetHue(r)                  == ResetParam("Plain", r)
resetColorTemperature(r)     == ResetParam("Plain", r)
resetBacklightDimmingMode(r) == ResetParam("Plain", r)
resetDolbyVisionMode(r)      == ResetParam("DolbyVisionMode", r)
resetLowLatencyState(r)      == ResetParam("LowLatencyState", r)
resetHDRMode(r)              == ResetParam("HDRMode", r)
resetCMS(r)                  == ResetParam("CMS", r)
reset2PointWB(r)             == ResetParam("WhiteBalance", r)
----------------------------------------------------------------------------
(* The steps of a set or reset.                                            *)

Refuse == /\ faults + crashes < MaxTrouble \/ (up = "sync" /\ faults < MaxTrouble)
          /\ faults' = faults + 1

\* The call leaves step "at"; a call that has nothing left returns.
Goto(at)   == call' = [call EXCEPT !.at = at]
Return     == call' = NoCall
AfterDrive == IF DriveFirst(param, call.op) THEN Goto("write") ELSE Return

quiet == UNCHANGED <<param, video, modeVars, up, torn, crashes>>

\* The enumerator of an HDR mode is computed only when the driver is to be
\* called, from the format and the mode; otherwise it stays uninitialised, and
\* is saved all the same.
Check ==
  /\ call.op \in {"set", "reset"} /\ call.at = "check"
  /\ LET required == isSetRequired(DriveDims(param, call.dims))
     IN \/ /\ param = "HDRMode" /\ call.op = "set"
           /\ \/ /\ required
                 /\ \E f \in HdrFormats :
                      /\ call.dims["format"] = {f}
                      /\ call' = [call EXCEPT !.at = "drive", !.level = HdrEnumerator(f, call.level)]
              \/ /\ required
                 /\ \A f \in HdrFormats : call.dims["format"] # {f}
                 /\ Return
              \/ /\ ~required
                 /\ \E v \in HdrEnum : call' = [call EXCEPT !.at = "write", !.level = v]
        \/ /\ param # "HDRMode" \/ call.op = "reset"
           /\ IF required THEN Goto("drive") ELSE AfterDrive
  /\ astray' = (astray \/ (call.op = "set" /\ FoundInside(DriveDims(param, call.dims))))
  /\ UNCHANGED <<levelVars, lost, faults>>
  /\ quiet

\* The level a call hands to the driver.  A reset reads it back: of the current
\* context, except that resetHDRMode uses the requested names, which are no
\* index when they are a list.
IndexNames(d) == IF call.dims[d] = {"none"} THEN {Now[d]} ELSE call.dims[d]

DriveLevels ==
  IF call.op = "set" THEN {call.level}
  ELSE IF param = "CMS" THEN {"off"}
  ELSE IF param # "HDRMode" THEN {getLocalparam(Now)}
  ELSE LET named == {c \in Ctx : \A d \in Dims : IndexNames(d) = {c[d]}}
       IN IF named = {} THEN HdrEnum ELSE {getLocalparam(c) : c \in named}

Drive ==
  /\ call.at = "drive"
  /\ \E v \in DriveLevels : panel' = v
  /\ AfterDrive
  /\ UNCHANGED <<store, ssm, astray, lost, faults>>
  /\ quiet

\* The driver refuses: the call fails with nothing stored; setLowLatencyState
\* stores the level the driver had before, and setCMS and set2PointWB go on,
\* because the status of the driver is kept in an inner variable.  setCMS first
\* asks the driver for CMS as such (SetCMSState), and returns if that is refused.
DriveRefused ==
  /\ call.at = "drive"
  /\ Refuse
  /\ IF param \in {"CMS", "WhiteBalance"} /\ call.op = "set"
       THEN Goto("write") \/ (param = "CMS" /\ Return)
     ELSE IF param = "LowLatencyState" /\ call.op = "set"
       THEN call' = [call EXCEPT !.op = "fallback", !.at = "write", !.level = call.prev,
                                 !.todo = getSaveConfig(call.dims)]
     ELSE Return
  /\ UNCHANGED <<levelVars, astray, lost>>
  /\ quiet

\* updateAVoutputTVParam visits the contexts one by one.  The first half of an
\* iteration writes the store, the second the driver's data; for CMS and white
\* balance the other way round.
PutStore(c) ==
  store' = [store EXCEPT ![c] = IF call.op = "reset" THEN Unset ELSE Encode(param, call.level)]
PutSavedUnread(c) == ssm' = [ssm EXCEPT ![c] = call.level]
PutSaved(c) ==
  ssm' = [ssm EXCEPT ![c] = IF call.op = "reset" THEN getLocalparam(c) ELSE call.level]

PutFirst(c)  == IF SaveFirst(param, call.op) THEN PutSaved(c) /\ UNCHANGED store
                                             ELSE PutStore(c) /\ UNCHANGED ssm
PutSecond(c) == IF SaveFirst(param, call.op) THEN PutStore(c) /\ UNCHANGED ssm
                                             ELSE PutSaved(c) /\ UNCHANGED store

\* After the last context a call whose writes all succeeded goes on to the
\* driver, if it has not been there yet.
Advance(ok) ==
  IF call.todo # {} THEN call' = [call EXCEPT !.now = {}, !.ok = ok]
  ELSE IF ok /\ DriveLast(param, call.op)
    THEN call' = [call EXCEPT !.now = {}, !.at = "check"]
  ELSE Return

\* The loops visit the contexts in the order of the lists.
NextCtx == CHOOSE c \in call.todo : TRUE

Writing == call.at = "write" /\ call.op \in {"set", "reset", "fallback"}

FirstHalf ==
  /\ Writing /\ call.now = {} /\ call.todo # {}
  /\ LET c == NextCtx IN
       \/ /\ PutFirst(c)
          /\ call' = [call EXCEPT !.todo = @ \ {c}, !.now = {c}]
          /\ UNCHANGED <<lost, faults>>
       \/ /\ Refuse /\ lost' = TRUE
          /\ call' = [call EXCEPT !.todo = @ \ {c}, !.now = {c}, !.ok = FALSE]
          /\ UNCHANGED <<store, ssm>>
  /\ UNCHANGED <<panel, astray>>
  /\ quiet

SecondHalf ==
  /\ Writing
  /\ \E c \in call.now :
       \/ PutSecond(c) /\ Advance(call.ok) /\ UNCHANGED <<lost, faults>>
       \/ Refuse /\ lost' = TRUE /\ Advance(FALSE) /\ UNCHANGED <<store, ssm>>
  /\ UNCHANGED <<panel, astray>>
  /\ quiet
----------------------------------------------------------------------------
(* The picture mode, kept by source and format.                            *)

ModeDims(dims)  == [dims EXCEPT !["mode"] = {"none"}]
ModePairs(dims) == {[source |-> c.source, format |-> c.format] : c \in getSaveConfig(ModeDims(dims))}

BeginMode(op, m, r) ==
  /\ Ready
  /\ LET dims == parsingSetInputArgument("PictureMode", r)
     IN /\ isCapablityCheckPassed("PictureMode", dims)
        /\ call' = [NoCall EXCEPT !.op = op, !.at = IF op = "setMode" THEN "check" ELSE "write",
                                  !.level = m, !.dims = dims, !.todo = ModePairs(dims)]
  /\ UNCHANGED <<param, levelVars, video, modeVars, up, ghosts>>

setPictureMode(r)   == \E m \in validateInputParameter("PictureMode") : BeginMode("setMode", m, r)
resetPictureMode(r) == BeginMode("resetMode", Unset, r)

quietMode == UNCHANGED <<param, store, ssm, video, up, torn, lost, crashes>>

SetTVPictureModeSkipped(m) == UNCHANGED <<drvMode, panel>>
\* The driver shows the saved levels of the mode it is given.
SetTVPictureMode(m) ==
  /\ drvMode' = m
  /\ panel' = Shown(ssm, video.source, m, FormatNow)

CheckMode ==
  /\ call.op = "setMode" /\ call.at = "check"
  /\ \/ /\ isSetRequired(ModeDims(call.dims))
        /\ \/ SetTVPictureMode(call.level) /\ Goto("write") /\ UNCHANGED faults
           \/ Refuse /\ Return /\ UNCHANGED <<drvMode, panel>>
     \/ /\ ~isSetRequired(ModeDims(call.dims))
        /\ Goto("write")
        /\ UNCHANGED <<drvMode, panel, faults>>
  /\ astray' = (astray \/ FoundInside(ModeDims(call.dims)))
  /\ UNCHANGED <<modeStore, ssmMode>>
  /\ quietMode

\* A refused write of the store ends the call with the other pairs untouched.
StoreMode ==
  /\ call.op \in {"setMode", "resetMode"} /\ call.at = "write"
  /\ call.now = {} /\ call.todo # {}
  /\ LET x == NextCtx IN
       \/ /\ modeStore' = [modeStore EXCEPT
                           ![x] = IF call.op = "setMode" THEN call.level ELSE DefaultMode]
          /\ call' = [call EXCEPT !.todo = @ \ {x}, !.now = {x}]
          /\ UNCHANGED faults
       \/ Refuse /\ Return /\ UNCHANGED modeStore
  /\ UNCHANGED <<panel, ssmMode, drvMode, astray>>
  /\ quietMode

SaveMode ==
  /\ call.op \in {"setMode", "resetMode"} /\ call.at = "write"
  /\ \E x \in call.now :
       LET current == call.op = "resetMode" /\ x = SlotNow
       IN \/ /\ IF current THEN SetTVPictureMode(modeStore[x]) ELSE UNCHANGED <<drvMode, panel>>
             /\ ssmMode' = [ssmMode EXCEPT ![x] = modeStore[x]]
             /\ IF call.todo = {} THEN Return ELSE call' = [call EXCEPT !.now = {}]
             /\ UNCHANGED faults
          \/ /\ current /\ Refuse /\ Return
             /\ UNCHANGED <<drvMode, panel, ssmMode>>
  /\ UNCHANGED <<modeStore, astray>>
  /\ quietMode
----------------------------------------------------------------------------
(* Get.  "Global" is refused; one name, or the current one.                *)

getParamIndex(p, q) ==
  getSaveConfig([d \in Dims |-> convertToValidInputParameter(p, d, q[d])])

GetParam(p, q) ==
  IF isPlatformSupport(p) THEN {getLocalparam(c) : c \in getParamIndex(p, q)} ELSE {}

getBacklight(q)            == GetParam("Plain", q)
getBrightness(q)           == GetParam("Plain", q)
getContrast(q)             == GetParam("Plain", q)
getSaturation(q)           == GetParam("Plain", q)
getSharpness(q)            == GetParam("Plain", q)
getHue(q)                  == GetParam("Plain", q)
getColorTemperature(q)     == GetParam("Plain", q)
getBacklightDimmingMode(q) == GetParam("Plain", q)
getDolbyVisionMode(q)      == GetParam("DolbyVisionMode", q)
getLowLatencyState(q)      == GetParam("LowLatencyState", q)
getHDRMode(q)              == GetParam("HDRMode", q)
getCMS(q)                  == GetParam("CMS", q)
get2PointWB(q)             == GetParam("WhiteBalance", q)
getPictureMode             == ModeNow

\* What the get methods of the parameter report.
Reports(q) ==
  CASE param = "Plain" -> getBacklight(q) \cup getBrightness(q) \cup getContrast(q)
                            \cup getSaturation(q) \cup getSharpness(q) \cup getHue(q)
                            \cup getColorTemperature(q) \cup getBacklightDimmingMode(q)
    [] param = "DolbyVisionMode" -> getDolbyVisionMode(q)
    [] param = "LowLatencyState" -> getLowLatencyState(q)
    [] param = "HDRMode" -> getHDRMode(q)
    [] param = "CMS" -> getCMS(q)
    [] param = "WhiteBalance" -> get2PointWB(q)

CurrentOnly == [d \in Dims |-> {"Current"}]
Only(c)     == [d \in Dims |-> {c[d]}]
----------------------------------------------------------------------------
(* The pipeline, a crash, and Initialize.                                  *)

\* The pipeline plays something else: the driver shows its own saved data of
\* the new context.
VideoChange(s, f) ==
  LET g == IF f = "NONE" THEN "SDR" ELSE f
  IN /\ video # [source |-> s, format |-> f]
     /\ video' = [source |-> s, format |-> f]
     /\ drvMode' = ssmMode[[source |-> s, format |-> g]]
     /\ panel' = Shown(ssm, s, drvMode', g)
     /\ astray' = ~Ready
     /\ UNCHANGED <<param, store, ssm, modeStore, ssmMode, up, call, torn, lost, faults,
                    crashes>>

Crash ==
  /\ faults + crashes < MaxTrouble /\ crashes' = crashes + 1
  /\ up # "down" /\ up' = "down"
  /\ torn' = (torn \/ call.op \in {"set", "reset", "setMode", "resetMode", "fallback"})
  /\ Return
  /\ UNCHANGED <<param, levelVars, video, modeVars, astray, lost, faults>>

\* syncAvoutputTVParamsToHAL: the low latency state is not among the parameters
\* it visits, and the Dolby Vision mode is visited for "DV" only.
Synced(p) ==
  IF p = "LowLatencyState" THEN {}
  ELSE {c \in Ctx : p = "DolbyVisionMode" => c.format = "DV"}

Initialize ==
  /\ up = "down" /\ up' = "sync"
  /\ call' = [NoCall EXCEPT !.op = "sync", !.at = "write", !.todo = Synced(param)]
  /\ UNCHANGED <<param, levelVars, video, modeVars, ghosts>>

\* What was never set is left as the driver has it, and a refused write does
\* not end the loop.
SyncLevel ==
  /\ call.op = "sync" /\ call.todo # {}
  /\ LET c == NextCtx IN
       /\ call' = [call EXCEPT !.todo = @ \ {c}]
       /\ \/ /\ ssm' = IF store[c] = Unset THEN ssm ELSE [ssm EXCEPT ![c] = getLocalparam(c)]
             /\ UNCHANGED <<lost, faults>>
          \/ store[c] # Unset /\ Refuse /\ lost' = TRUE /\ UNCHANGED ssm
  /\ UNCHANGED <<param, store, panel, video, modeVars, up, astray, torn, crashes>>

\* Next, the picture modes.
SyncModes ==
  /\ call.op = "sync" /\ call.todo = {}
  /\ call' = [call EXCEPT !.op = "syncMode", !.todo = Slots]
  /\ UNCHANGED <<param, levelVars, video, modeVars, up, ghosts>>

\* syncAvoutputTVPQModeParamsToHAL: a refused write ends the loop.
SyncMode ==
  /\ call.op = "syncMode" /\ call.todo # {}
  /\ LET x == NextCtx IN
       \/ /\ ssmMode' = [ssmMode EXCEPT ![x] = modeStore[x]]
          /\ call' = [call EXCEPT !.todo = @ \ {x}]
          /\ UNCHANGED faults
       \/ Refuse /\ call' = [call EXCEPT !.todo = {}] /\ UNCHANGED ssmMode
  /\ UNCHANGED <<panel, modeStore, drvMode, astray>>
  /\ quietMode

\* initializePictureMode reads what plays, and then sets the mode of it.
ReadCurrent ==
  /\ call.op = "syncMode" /\ call.todo = {} /\ call.now = {}
  /\ call' = [call EXCEPT !.now = {SlotNow}]
  /\ UNCHANGED <<param, levelVars, video, modeVars, up, ghosts>>

initializePictureMode ==
  /\ call.op = "syncMode" /\ call.todo = {}
  /\ \E x \in call.now :
       /\ \/ SetTVPictureMode(modeStore[x]) /\ UNCHANGED faults
          \/ Refuse /\ UNCHANGED <<drvMode, panel>>
       /\ astray' = (x # SlotNow)
  /\ up' = "up" /\ Return
  /\ UNCHANGED <<param, store, ssm, video, modeStore, ssmMode, torn, lost, crashes>>
----------------------------------------------------------------------------
Call(r) ==
  \/ setBacklight(r) \/ setBrightness(r) \/ setContrast(r) \/ setSaturation(r)
  \/ setSharpness(r) \/ setHue(r) \/ setColorTemperature(r) \/ setBacklightDimmingMode(r)
  \/ setDolbyVisionMode(r) \/ setLowLatencyState(r) \/ setHDRMode(r) \/ setCMS(r)
  \/ set2PointWB(r)
  \/ resetBacklight(r) \/ resetBrightness(r) \/ resetContrast(r) \/ resetSaturation(r)
  \/ resetSharpness(r) \/ resetHue(r) \/ resetColorTemperature(r)
  \/ resetBacklightDimmingMode(r) \/ resetDolbyVisionMode(r) \/ resetLowLatencyState(r)
  \/ resetHDRMode(r) \/ resetCMS(r) \/ reset2PointWB(r)
  \/ setPictureMode(r) \/ resetPictureMode(r)

Step == Check \/ Drive \/ DriveRefused \/ FirstHalf \/ SecondHalf
          \/ CheckMode \/ StoreMode \/ SaveMode
          \/ Initialize \/ SyncLevel \/ SyncModes \/ SyncMode \/ ReadCurrent
          \/ initializePictureMode

Next ==
  \/ \E r \in Requests : Call(r)
  \/ Step
  \/ \E s \in Sources, f \in VideoFormats : VideoChange(s, f)
  \/ Crash

Spec == Init /\ [][Next]_vars
----------------------------------------------------------------------------
(* Properties.                                                             *)

CallType ==
  [op : {"none", "set", "reset", "fallback", "sync", "syncMode", "setMode", "resetMode"},
   at : {"none", "check", "drive", "write"},
   level : Levels(param) \cup Modes \cup {Unset} \cup HdrModes,
   dims : [Dims -> SUBSET (Sources \cup Modes \cup Formats \cup {"none"})],
   todo : SUBSET (Ctx \cup Slots), now : SUBSET (Ctx \cup Slots),
   prev : Levels(param) \cup {Unset}, ok : BOOLEAN]

\* Every place holds a level of its parameter, and a call is one of the steps
\* of its method.
TypeOK ==
  /\ param \in Follow
  /\ store \in [Ctx -> Strings(param) \cup {Unset}]
  /\ ssm \in [Ctx -> Levels(param)]
  /\ panel \in Levels(param)
  /\ video \in [source : Sources, format : VideoFormats]
  /\ modeStore \in [Slots -> Modes]
  /\ ssmMode \in [Slots -> Modes]
  /\ drvMode \in Modes
  /\ up \in {"down", "sync", "up"}
  /\ call \in CallType
  /\ {astray, torn, lost} \subseteq BOOLEAN
  /\ faults \in 0..MaxTrouble /\ crashes \in 0..MaxTrouble

\* A context whose three places a crash in the middle of a call has not left
\* apart: Initialize repairs those that have a stored level.
Repaired(c) == ~torn \/ (store[c] # Unset /\ c \in Synced(param))

\* Every level but HDR modes can be told from the text it is stored as.  An HDR
\* mode can if it is one of the context's own format, which an uninitialised
\* enumerator need not be, and is not one that is read back as Game of DV.
Readable(c) ==
  param = "HDRMode" =>
    \E m \in HdrModes : /\ ssm[c] = HdrEnumerator(c.format, m)
                       /\ m # (IF c.format = "DV" THEN "Bright" ELSE "Game")

\* Between calls the driver's saved data agree with what get reports, in every
\* context, through refusals of the driver, changes of the pipeline and, where
\* a level is stored, through a crash between the two writes.
StoredIsSaved ==
  Ready /\ ~lost /\ isPlatformSupport(param) =>
    \A c \in Ctx : Repaired(c) /\ Readable(c) => Reports(Only(c)) = {ssm[c]}

\* Between calls the panel shows the level get reports for the current context,
\* unless the pipeline moved under the last call, a call took the current name
\* for another that it occurs in, or the driver refused.
PanelShowsStored ==
  Ready /\ faults = 0 /\ ~astray /\ param \in {"Plain", "LowLatencyState"} /\ Repaired(Now) =>
    Reports(CurrentOnly) = {panel}

\* Between calls the driver has the picture mode of the local store, those of all
\* sources and formats and, with the same exceptions, the one in force.
ModeInForce ==
  Ready /\ faults = 0 =>
    /\ ssmMode = modeStore
    /\ ~astray => drvMode = getPictureMode
===============================================================================
