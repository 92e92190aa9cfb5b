---------------------------- MODULE PictureProofs ----------------------------
(***************************************************************************)
(* Proofs about the picture parameters of AVOutput, through the instance P *)
(* of PictureParams that MCPlugins runs.  They use of the instance only    *)
(* what P!PictureAssumption says of it.                                    *)
(***************************************************************************)
EXTENDS PluginsProofs

\* The methods that write levels, and those that write the picture mode.
Setting == {"set", "reset", "fallback"}
Modal   == {"setMode", "resetMode"}

\* What the start does one after the other.
Syncing == {"sync", "syncMode"}

\* A request whose names are resolved: per dimension "none", or names of it.
Resolved(dims) ==
  \A d \in P!Dims : dims[d] = {"none"} \/ dims[d] \subseteq P!NamesOf[d]

\* A call that writes levels has one it can write, and contexts it was asked for.
SettingCall ==
  /\ call.at \in {"check", "drive", "write"}
  /\ call.todo \cup call.now \subseteq P!getSaveConfig(P!SaveDims(param, call.dims))
  /\ call.op = "set" =>
       IF param = "HDRMode" /\ call.at = "check" THEN call.level \in HdrModes
       ELSE call.level \in P!Levels(param)
  /\ call.op = "set" /\ param = "LowLatencyState" => call.prev \in P!Levels(param)
  /\ call.op = "fallback" =>
       param = "LowLatencyState" /\ call.at = "write" /\ call.level \in P!Levels(param)

\* A call that writes the mode has one, and the pairs it was asked for.
ModalCall ==
  /\ call.at \in {"check", "write"}
  /\ call.todo \cup call.now \subseteq P!Slots
  /\ call.op = "setMode" => call.level \in Modes
  /\ call.at = "check" => call.op = "setMode" /\ call.todo = P!ModePairs(call.dims)

\* A call is at one of the steps of its method, and visits one context at a time.
CallShape ==
  /\ up = "sync" <=> call.op \in Syncing
  /\ up = "down" => call.op = "none"
  /\ call.op = "none" => call.at = "none"
  /\ call.op \in Setting => SettingCall
  /\ call.op \in Modal => ModalCall
  /\ call.op = "sync" => call.todo \subseteq P!Ctx
  /\ call.op = "syncMode" => call.todo \cup call.now \subseteq P!Slots
  /\ call.op \in Syncing => call.at = "write"
  /\ call.now # {} => call.op \in Setting \cup Modal \cup {"syncMode"} /\ call.at = "write"
  /\ \A b, c \in call.now : b = c
  /\ Resolved(call.dims)
  /\ call.ok \/ faults > 0
  /\ lost => faults > 0

PictureTypes == P!TypeOK /\ CallShape

\* A context whose saved level has to agree with the stored one.
Agreed(c) ==
  \/ up = "up" /\ P!Repaired(c) /\ (call.op \in Setting => c \notin call.now)
  \/ up # "up" /\ ~torn
  \/ up = "sync" /\ P!Repaired(c) /\ (call.op = "sync" => c \notin call.todo)

\* What the first half of a loop iteration has written.
HalfDone(c) ==
  IF P!SaveFirst(param, call.op) THEN ssm[c] = call.level
  ELSE store[c] = IF call.op = "reset" THEN P!Unset ELSE P!Encode(param, call.level)

SavedAgrees ==
  ~lost =>
    /\ \A c \in P!Ctx : Agreed(c) /\ P!Readable(c) => ssm[c] = P!getLocalparam(c)
    /\ call.op \in Setting => \A c \in call.now : HalfDone(c)

SavedInv == PictureTypes /\ SavedAgrees

\* The picture mode the driver applies, while a method writes it.
ModeApplied ==
  /\ call.op = "setMode" /\ call.at = "write" /\ P!SlotNow \in call.todo => drvMode = call.level
  /\ \/ call.op \notin Modal
     \/ call.op = "setMode" /\ (call.at = "check" \/ P!SlotNow \notin call.todo)
     \/ call.op = "resetMode" /\ P!SlotNow \notin call.now
     => drvMode = P!ModeNow

\* What the start has not saved yet is still to come.
ModesSynced ==
  faults = 0 /\ call.op = "syncMode" =>
    \A x \in P!Slots : x \in call.todo \/ ssmMode[x] = modeStore[x]

ModesAgree ==
  faults = 0 /\ up = "up" =>
    /\ \A x \in P!Slots : (call.op \in Modal => x \notin call.now) => ssmMode[x] = modeStore[x]
    /\ ~astray => ModeApplied

\* The level the panel shows is the one stored for the current context.
PanelCurrent == P!Repaired(P!Now) => panel = P!getLocalparam(P!Now)

\* Where a call may be when the panel is ahead of the store, or behind it.
Requested   == P!getSaveConfig(call.dims)
DrivenFirst == call.op = "set" /\ param = "Plain"
DrivenLast  == call.op = "reset" \/ (call.op = "set" /\ param # "Plain")
ModeAhead   == call.op = "setMode" /\ call.at = "write" /\ P!SlotNow \in call.todo
ModeBehind  == call.op = "resetMode" /\ P!SlotNow \in call.now

PanelAhead ==
  /\ call.at = "check" => call.todo = Requested
  /\ call.at = "drive" => P!Now \in call.todo
  /\ IF call.at = "write" /\ P!Now \in call.todo THEN panel = call.level
     ELSE call.at # "drive" => PanelCurrent

PanelBehind ==
  /\ call.op = "set" => \A c \in Requested : c \in call.todo \/ store[c] = call.level
  /\ call.at # "write" => call.todo = {}
  /\ call.op = "set" /\ call.at = "drive" => P!Now \in Requested
  /\ P!Now \notin Requested => PanelCurrent

PanelAt ==
  /\ call.op # "fallback"
  /\ DrivenFirst => PanelAhead
  /\ DrivenLast => PanelBehind
  /\ ModeAhead => panel = ssm[[P!Now EXCEPT !.mode = drvMode]]
  /\ DrivenFirst \/ DrivenLast \/ ModeAhead \/ ModeBehind \/ PanelCurrent

PanelAgrees ==
  faults = 0 /\ up = "up" /\ ~astray /\ param \in {"Plain", "LowLatencyState"} => PanelAt
-----------------------------------------------------------------------------
(***************************************************************************)
(* Names, contexts and conversions.                                        *)
(***************************************************************************)

LEMMA PictureFacts ==
  /\ P!PictureAssumption
  /\ P!NamesAssumption /\ P!CapabilityAssumption /\ P!HdrAssumption
BY PartsAssumption DEF P!PictureAssumption

\* The context that plays is one of the plugin's.
LEMMA NowIs ==
  ASSUME P!TypeOK
  PROVE  /\ P!FormatNow \in Formats
         /\ P!SlotNow = [source |-> video.source, format |-> P!FormatNow]
         /\ P!SlotNow \in P!Slots
         /\ P!ModeNow \in Modes
         /\ P!Now \in P!Ctx
<1>1. P!FormatNow \in Formats
  BY PictureFacts DEF P!NamesAssumption, P!TypeOK, P!FormatNow
<1>2. P!SlotNow = [source |-> video.source, format |-> P!FormatNow]
  BY DEF P!TypeOK, P!SlotNow
<1>3. P!SlotNow \in P!Slots
  BY <1>1, <1>2 DEF P!TypeOK, P!Slots
<1>4. P!ModeNow \in Modes
  BY <1>3 DEF P!TypeOK, P!ModeNow
<1> QED
  BY <1>1, <1>2, <1>3, <1>4 DEF P!TypeOK, P!Now, P!Ctx

LEMMA CtxFields ==
  ASSUME NEW c \in P!Ctx, NEW d \in P!Dims
  PROVE  c[d] \in P!NamesOf[d]
BY DEF P!Ctx, P!Dims, P!NamesOf

\* The names of a request that passes the check are resolved.
LEMMA ResolvedArgs ==
  ASSUME NEW p \in P!Params \cup {"PictureMode"}, NEW r,
         P!isCapablityCheckPassed(p, P!parsingSetInputArgument(p, r))
  PROVE  /\ Resolved(P!parsingSetInputArgument(p, r))
         /\ P!parsingSetInputArgument(p, r)
              \in [P!Dims -> SUBSET (Sources \cup Modes \cup Formats \cup {"none"})]
<1> DEFINE dims == P!parsingSetInputArgument(p, r)
<1>1. \A d \in P!Dims :
        /\ dims[d] \subseteq MCCapability[p][d]
        /\ MCCapability[p][d] = {"none"} \/ MCCapability[p][d] \subseteq P!NamesOf[d]
  BY PictureFacts DEF P!isCapablityCheckPassed, P!CapabilityAssumption
<1>2. Resolved(dims)
  BY <1>1 DEF Resolved
<1>3. \A d \in P!Dims : P!NamesOf[d] \subseteq Sources \cup Modes \cup Formats
  BY DEF P!NamesOf, P!Dims
<1>4. \A d \in P!Dims : dims[d] \in SUBSET (Sources \cup Modes \cup Formats \cup {"none"})
  BY <1>1, <1>3
<1>5. dims \in [P!Dims -> SUBSET (Sources \cup Modes \cup Formats \cup {"none"})]
  BY <1>4 DEF P!parsingSetInputArgument
<1> QED
  BY <1>2, <1>5

LEMMA ParamIs == P!TypeOK => param \in P!Params
BY PictureFacts DEF P!TypeOK, P!PictureAssumption

\* No level has the text of a level that was never set.
LEMMA LevelsSet == \A p \in P!Params : p # "HDRMode" => P!Unset \notin P!Levels(p)
BY PictureFacts DEF P!CapabilityAssumption, P!Levels, P!Unset

LEMMA EncodeType ==
  ASSUME NEW p \in P!Params, NEW v \in P!Levels(p)
  PROVE  /\ P!Encode(p, v) \in P!Strings(p)
         /\ P!Encode(p, v) # P!Unset
<1>1. CASE p # "HDRMode"
  BY <1>1, LevelsSet DEF P!Encode, P!Strings
<1>2. CASE p = "HDRMode" /\ v = "junk"
  BY <1>2 DEF P!Encode, P!Strings, P!Unset
<1>3. CASE p = "HDRMode" /\ v # "junk"
  <2>1. \E m \in HdrModes : \E f \in HdrFormats : v = MCHdrEnumerator(f, m)
    BY <1>3 DEF P!Levels, P!HdrEnum
  <2>2. P!Encode(p, v) \in HdrModes
    BY <1>3, <2>1 DEF P!Encode
  <2>3. P!Unset \notin HdrModes
    BY PictureFacts DEF P!HdrAssumption, P!Unset
  <2> QED
    BY <1>3, <2>2, <2>3 DEF P!Strings
<1> QED
  BY <1>1, <1>2, <1>3

\* The enumerators of the HDR modes can be told apart.
LEMMA EnumeratorsApart ==
  \A f, g \in Formats \cup HdrFormats, m, n \in HdrModes :
    /\ MCHdrEnumerator(f, m) = MCHdrEnumerator(g, n) => f = g /\ m = n
    /\ MCHdrEnumerator(f, m) # "junk"
BY PictureFacts DEF P!HdrAssumption

LEMMA EnumeratorsAre ==
  \A f \in HdrFormats, m \in HdrModes : MCHdrEnumerator(f, m) \in P!HdrEnum
BY DEF P!HdrEnum

LEMMA DecodeType ==
  ASSUME P!TypeOK, NEW c \in P!Ctx
  PROVE  P!getLocalparam(c) \in P!Levels(param)
<1>1. CASE param # "HDRMode"
  BY <1>1 DEF P!TypeOK, P!getLocalparam, P!Decode, P!Levels, P!Strings
<1>2. CASE param = "HDRMode"
  <2>1. MCDefaultLevel("HDRMode", c) \in P!HdrEnum
    BY PictureFacts DEF P!HdrAssumption
  <2>2. c.format \in Formats
    BY DEF P!Ctx
  <2>3. \A s \in HdrModes \cup {""} : P!Decode("HDRMode", c.format, s) \in P!HdrEnum
    <3>1. /\ {"Dark", "Game"} \subseteq HdrModes /\ "DV" \in HdrFormats
          /\ c.format \in {"HDR10", "HLG"} => c.format \in HdrFormats
      BY <2>2, PictureFacts DEF P!HdrAssumption
    <3> QED
      BY <3>1, EnumeratorsAre DEF P!Decode
  <2> QED
    BY <1>2, <2>1, <2>3 DEF P!TypeOK, P!getLocalparam, P!Levels, P!Strings
<1> QED
  BY <1>1, <1>2

\* What is read back is what was encoded, where the text can tell it.
LEMMA DecodeEncode ==
  ASSUME NEW p \in P!Params, NEW c \in P!Ctx, NEW v \in P!Levels(p),
         p = "HDRMode" => \E m \in HdrModes : /\ v = MCHdrEnumerator(c.format, m)
                                             /\ m # (IF c.format = "DV" THEN "Bright" ELSE "Game")
  PROVE  P!Decode(p, c.format, P!Encode(p, v)) = v
<1>1. CASE p # "HDRMode"
  BY <1>1 DEF P!Encode, P!Decode
<1>2. CASE p = "HDRMode"
  <2>1. PICK m \in HdrModes : /\ v = MCHdrEnumerator(c.format, m)
                              /\ m # (IF c.format = "DV" THEN "Bright" ELSE "Game")
    BY <1>2
  <2>2. c.format \in Formats
    BY DEF P!Ctx
  <2>3. v # "junk"
    BY <2>1, <2>2, PictureFacts DEF P!HdrAssumption
  <2>4. PICK f \in HdrFormats, n \in HdrModes : v = MCHdrEnumerator(f, n)
    BY <1>2, <2>3 DEF P!Levels, P!HdrEnum
  <2>5. f = c.format /\ n = m
    <3>1. MCHdrEnumerator(f, n) = MCHdrEnumerator(c.format, m)
      BY <2>1, <2>4
    <3>2. f \in Formats \cup HdrFormats /\ c.format \in Formats \cup HdrFormats
      BY <2>2
    <3> QED
      BY <3>1, <3>2, EnumeratorsApart
  <2>6. \A k \in HdrModes : (\E g \in HdrFormats : v = MCHdrEnumerator(g, k)) <=> k = m
    BY <2>1, <2>2, <2>4, <2>5, EnumeratorsApart
  <2>7. P!Encode(p, v) = m
    BY <1>2, <2>3, <2>6 DEF P!Encode
  <2>8. c.format \in {"DV", "HDR10", "HLG"} /\ m \in {"Dark", "Bright", "Game"}
    BY <2>4, <2>5, PictureFacts DEF P!HdrAssumption
  <2> QED
    BY <1>2, <2>1, <2>4, <2>5, <2>7, <2>8 DEF P!Decode
<1> QED
  BY <1>1, <1>2

-----------------------------------------------------------------------------
(***************************************************************************)
(* Types, action by action.                                                *)
(***************************************************************************)

\* A method is called with a value it accepts.
SettingBegins(p, op, v, r) ==
  /\ P!Begin(p, op, v, r)
  /\ p \in P!Params
  /\ \/ op = "set" /\ v \in (IF p = "HDRMode" THEN HdrModes ELSE MCCapability[p].range)
     \/ op = "reset" /\ v = P!Unset

ModalBegins(op, m, r) ==
  /\ P!BeginMode(op, m, r)
  /\ \/ op = "setMode" /\ m \in Modes
     \/ op = "resetMode" /\ m = P!Unset

LEMMA CallIsBegun ==
  ASSUME NEW r, P!Call(r)
  PROVE  \/ \E p, op, v : SettingBegins(p, op, v, r)
         \/ \E op, m : ModalBegins(op, m, r)
<1>1. ASSUME NEW p \in P!Params, p # "HDRMode", P!SetParam(p, r)
      PROVE  \E v : SettingBegins(p, "set", v, r)
  BY <1>1 DEF P!SetParam, P!validateInputParameter, SettingBegins
<1>2. ASSUME NEW p \in P!Params, P!ResetParam(p, r)
      PROVE  \E v : SettingBegins(p, "reset", v, r)
  BY <1>2 DEF P!ResetParam, SettingBegins
<1>3. P!setHDRMode(r) => \E v : SettingBegins("HDRMode", "set", v, r)
  BY DEF P!setHDRMode, SettingBegins, P!Params
<1>4. P!setPictureMode(r) => \E m : ModalBegins("setMode", m, r)
  BY PictureFacts DEF P!setPictureMode, P!validateInputParameter, P!CapabilityAssumption, ModalBegins
<1>5. P!resetPictureMode(r) => \E m : ModalBegins("resetMode", m, r)
  BY DEF P!resetPictureMode, ModalBegins
<1>6. \/ \E p \in P!Params \ {"HDRMode"} : P!SetParam(p, r)
      \/ \E p \in P!Params : P!ResetParam(p, r)
      \/ P!setHDRMode(r) \/ P!setPictureMode(r) \/ P!resetPictureMode(r)
  BY DEF P!Params, P!Call, P!setBacklight, P!setBrightness, P!setContrast, P!setSaturation,
     P!setSharpness, P!setHue, P!setColorTemperature, P!setBacklightDimmingMode,
     P!setDolbyVisionMode, P!setLowLatencyState, P!setCMS, P!set2PointWB,
     P!resetBacklight, P!resetBrightness, P!resetContrast, P!resetSaturation,
     P!resetSharpness, P!resetHue, P!resetColorTemperature, P!resetBacklightDimmingMode,
     P!resetDolbyVisionMode, P!resetLowLatencyState, P!resetHDRMode, P!resetCMS,
     P!reset2PointWB
<1> QED
  BY <1>1, <1>2, <1>3, <1>4, <1>5, <1>6

LEMMA NextCtxIs == call.todo # {} => P!NextCtx \in call.todo
BY DEF P!NextCtx

\* Refusals are counted.
LEMMA RefuseType ==
  ASSUME P!TypeOK, P!Refuse
  PROVE  faults' \in 0 .. MaxTrouble /\ faults' > 0 /\ faults' > faults
BY PictureFacts DEF P!TypeOK, P!Refuse, P!PictureAssumption

\* A call returns.
LEMMA CallReturned ==
  ASSUME P!Return, up' \in {"down", "up"}, lost' => faults' > 0
  PROVE  call' \in P!CallType /\ call' \in P!CallType' /\ CallShape'
<1>1. call' \in P!CallType /\ call' \in P!CallType'
  BY DEF P!Return, P!NoCall, P!CallType
<1>2. CallShape'
  BY DEF P!Return, P!NoCall, CallShape, Setting, Modal, Syncing, Resolved
<1> QED
  BY <1>1, <1>2

\* A method that writes levels has begun.
LEMMA SettingTypes ==
  ASSUME PictureTypes, NEW p, NEW op, NEW v, NEW r, SettingBegins(p, op, v, r)
  PROVE  PictureTypes'
<1> DEFINE dims == P!parsingSetInputArgument(p, r)
<1>1. /\ p \in P!Params /\ param = p /\ up = "up" /\ call.op = "none" /\ op \in {"set", "reset"}
      /\ UNCHANGED <<param, P!levelVars, video, P!modeVars, up, P!ghosts>>
      /\ P!isCapablityCheckPassed(p, dims)
  BY DEF SettingBegins, P!Begin, P!Ready, P!Idle
<1>2. call' = [op |-> op, at |-> IF P!DriveFirst(p, op) THEN "check" ELSE "write",
               level |-> v, dims |-> dims, todo |-> P!getSaveConfig(P!SaveDims(p, dims)),
               now |-> {}, prev |-> IF p = "LowLatencyState" THEN panel ELSE P!Unset,
               ok |-> TRUE]
  BY DEF SettingBegins, P!Begin
<1>3. /\ Resolved(dims)
      /\ dims \in [P!Dims -> SUBSET (Sources \cup Modes \cup Formats \cup {"none"})]
  BY <1>1, ResolvedArgs
<1>4. P!getSaveConfig(P!SaveDims(p, dims)) \subseteq P!Ctx
  BY DEF P!getSaveConfig
<1>5. v \in P!Levels(p) \cup Modes \cup {P!Unset} \cup HdrModes
  BY DEF SettingBegins, P!Levels
<1>6. call' \in P!CallType
  BY <1>1, <1>2, <1>3, <1>4, <1>5 DEF P!CallType, PictureTypes, P!TypeOK
<1>7. P!TypeOK'
  BY <1>1, <1>6 DEF PictureTypes, P!TypeOK, P!CallType, P!levelVars, P!modeVars, P!ghosts
<1>8. SettingCall'
  <2>1. op = "set" => v \in (IF p = "HDRMode" THEN HdrModes ELSE P!Levels(p))
    BY DEF SettingBegins, P!Levels
  <2>2. p = "LowLatencyState" => panel \in P!Levels(p)
    BY <1>1 DEF PictureTypes, P!TypeOK
  <2>3. p = "HDRMode" /\ op = "set" => P!DriveFirst(p, op)
    BY DEF P!DriveFirst
  <2> QED
    BY <1>1, <1>2, <2>1, <2>2, <2>3 DEF SettingCall
<1>9. CallShape'
  BY <1>1, <1>2, <1>3, <1>8 DEF PictureTypes, CallShape, Syncing, Setting, Modal, Resolved, P!ghosts
<1> QED
  BY <1>7, <1>9 DEF PictureTypes

LEMMA PairsAreSlots == \A dims : P!ModePairs(dims) \subseteq P!Slots
BY DEF P!ModePairs, P!getSaveConfig, P!Ctx, P!Slots

LEMMA ModalTypes ==
  ASSUME PictureTypes, NEW op, NEW m, NEW r, ModalBegins(op, m, r)
  PROVE  PictureTypes'
<1> DEFINE dims == P!parsingSetInputArgument("PictureMode", r)
<1>1. /\ up = "up" /\ call.op = "none" /\ op \in Modal
      /\ UNCHANGED <<param, P!levelVars, video, P!modeVars, up, P!ghosts>>
      /\ P!isCapablityCheckPassed("PictureMode", dims)
  BY DEF ModalBegins, P!BeginMode, P!Ready, P!Idle, Modal
<1>2. call' = [P!NoCall EXCEPT !.op = op, !.at = IF op = "setMode" THEN "check" ELSE "write",
                               !.level = m, !.dims = dims, !.todo = P!ModePairs(dims)]
  BY DEF ModalBegins, P!BeginMode
<1>3. /\ Resolved(dims)
      /\ dims \in [P!Dims -> SUBSET (Sources \cup Modes \cup Formats \cup {"none"})]
  BY <1>1, ResolvedArgs
<1>4. P!ModePairs(dims) \subseteq P!Slots
  BY PairsAreSlots
<1>5. op \in {"setMode", "resetMode"} /\ m \in Modes \cup {P!Unset} /\ (op = "setMode" => m \in Modes)
  BY DEF ModalBegins
<1>6. call' \in P!CallType
  BY <1>2, <1>3, <1>4, <1>5 DEF P!CallType, P!NoCall
<1>7. P!TypeOK'
  BY <1>1, <1>6 DEF PictureTypes, P!TypeOK, P!CallType, P!levelVars, P!modeVars, P!ghosts
<1>8. /\ call'.op = op /\ call'.at = (IF op = "setMode" THEN "check" ELSE "write") /\ call'.level = m
      /\ call'.dims = dims /\ call'.todo = P!ModePairs(dims) /\ call'.now = {} /\ call'.ok
  BY <1>2 DEF P!NoCall
<1>9. ModalCall'
  BY <1>4, <1>5, <1>8 DEF ModalCall
<1>10. CallShape'
  BY <1>1, <1>3, <1>5, <1>8, <1>9 DEF PictureTypes, CallShape, Syncing, Setting, Modal, Resolved, P!ghosts
<1> QED
  BY <1>7, <1>10 DEF PictureTypes

\* Where a call that writes levels goes next, or that it returns.
LEMMA SettingGoes ==
  ASSUME PictureTypes, call.op \in Setting,
         UNCHANGED param, UNCHANGED up, lost' => faults' > 0, faults' >= faults,
         \/ call' = P!NoCall
         \/ /\ call' \in P!CallType
            /\ SettingCall'
            /\ call'.op \in Setting /\ call'.dims = call.dims
            /\ call'.now # {} => call'.at = "write"
            /\ \A b, c \in call'.now : b = c
            /\ call'.ok \/ faults' > 0
  PROVE  CallShape' /\ call' \in P!CallType
<1>1. up = "up"
  BY DEF PictureTypes, P!TypeOK, CallShape, Syncing, Setting
<1>2. CASE call' = P!NoCall
  BY <1>1, <1>2, CallReturned DEF P!Return
<1>3. CASE call' # P!NoCall
  BY <1>1, <1>3 DEF PictureTypes, CallShape, Syncing, Setting, Modal, Resolved
<1> QED
  BY <1>2, <1>3

\* A call at rest in its step: nothing visited yet.
LEMMA NotWriting ==
  ASSUME PictureTypes, call.op \in Setting, call.at # "write"
  PROVE  call.now = {} /\ call.op \in {"set", "reset"}
BY DEF PictureTypes, CallShape, SettingCall, Setting

LEMMA CheckTypes ==
  ASSUME PictureTypes, P!Check
  PROVE  PictureTypes'
<1>0. /\ UNCHANGED <<param, P!levelVars, video, P!modeVars, up, torn, lost, faults, crashes>>
      /\ call.op \in {"set", "reset"} /\ call.at = "check" /\ call.op \in Setting
      /\ astray' \in BOOLEAN
  BY DEF P!Check, P!quiet, Setting, PictureTypes, P!TypeOK
<1>1. SettingCall /\ call \in P!CallType /\ call.now = {} /\ (call.ok \/ faults > 0)
  BY <1>0, NotWriting DEF PictureTypes, P!TypeOK, CallShape
<1>2. \/ call' = P!NoCall
      \/ call' = [call EXCEPT !.at = "write"] /\ ~(param = "HDRMode" /\ call.op = "set")
      \/ call' = [call EXCEPT !.at = "drive"] /\ ~(param = "HDRMode" /\ call.op = "set")
      \/ /\ param = "HDRMode" /\ call.op = "set"
         /\ \E v \in P!HdrEnum, at \in {"drive", "write"} :
              call' = [call EXCEPT !.at = at, !.level = v]
  <2>1. CASE param = "HDRMode" /\ call.op = "set"
    <3>1. call.level \in HdrModes
      BY <1>0, <1>1, <2>1 DEF SettingCall
    <3>2. \A f \in HdrFormats : MCHdrEnumerator(f, call.level) \in P!HdrEnum
      BY <3>1, EnumeratorsAre
    <3> QED
      BY <2>1, <3>2 DEF P!Check, P!Return
  <2>2. CASE ~(param = "HDRMode" /\ call.op = "set")
    BY <2>2 DEF P!Check, P!Goto, P!AfterDrive, P!Return
  <2> QED
    BY <2>1, <2>2
<1>3. \/ call' = P!NoCall
      \/ /\ call' \in P!CallType
         /\ SettingCall'
         /\ call'.op \in Setting /\ call'.dims = call.dims
         /\ call'.now = {} /\ call'.ok = call.ok
  <2>1. CASE call' = P!NoCall
    BY <2>1
  <2>2. ASSUME NEW at \in {"drive", "write"}, call' = [call EXCEPT !.at = at],
               ~(param = "HDRMode" /\ call.op = "set")
        PROVE  /\ call' \in P!CallType
               /\ SettingCall'
               /\ call'.op \in Setting /\ call'.dims = call.dims
               /\ call'.now = {} /\ call'.ok = call.ok
    BY <1>0, <1>1, <2>2 DEF P!CallType, SettingCall, Setting
  <2>3. ASSUME NEW at \in {"drive", "write"}, NEW v \in P!HdrEnum,
               call' = [call EXCEPT !.at = at, !.level = v],
               param = "HDRMode" /\ call.op = "set"
        PROVE  /\ call' \in P!CallType
               /\ SettingCall'
               /\ call'.op \in Setting /\ call'.dims = call.dims
               /\ call'.now = {} /\ call'.ok = call.ok
    <3>1. P!Levels(param) = P!HdrEnum
      BY <2>3 DEF P!Levels
    <3> QED
      BY <1>0, <1>1, <2>3, <3>1 DEF P!CallType, SettingCall, Setting
  <2> QED
    BY <1>2, <2>1, <2>2, <2>3
<1>4. CallShape' /\ call' \in P!CallType
  BY <1>0, <1>1, <1>3, SettingGoes DEF PictureTypes, P!TypeOK, CallShape, P!ghosts
<1> QED
  BY <1>0, <1>4 DEF PictureTypes, P!TypeOK, P!CallType, P!levelVars, P!modeVars, P!ghosts

\* What a call hands to the driver is a level.
LEMMA DriveLevelsAre ==
  ASSUME PictureTypes, call.op \in Setting, call.at = "drive"
  PROVE  P!DriveLevels \subseteq P!Levels(param)
<1>1. SettingCall /\ P!Now \in P!Ctx
  BY NowIs DEF PictureTypes, CallShape
<1>2. CASE call.op = "set"
  BY <1>1, <1>2 DEF P!DriveLevels, SettingCall
<1>3. CASE call.op # "set" /\ param = "CMS"
  BY <1>3 DEF P!DriveLevels, P!Levels
<1>4. CASE call.op # "set" /\ param \notin {"CMS", "HDRMode"}
  BY <1>1, <1>4, DecodeType DEF P!DriveLevels, PictureTypes
<1>5. CASE call.op # "set" /\ param = "HDRMode"
  <2>1. \A c \in P!Ctx : P!getLocalparam(c) \in P!HdrEnum
    BY <1>5, DecodeType DEF PictureTypes, P!Levels
  <2>2. P!DriveLevels \subseteq P!HdrEnum
    BY <1>5, <2>1 DEF P!DriveLevels
  <2> QED
    BY <1>5, <2>2 DEF P!Levels
<1> QED
  BY <1>2, <1>3, <1>4, <1>5

LEMMA AtDrive ==
  ASSUME PictureTypes, call.at = "drive"
  PROVE  /\ call.op \in {"set", "reset"} /\ call.op \in Setting
         /\ SettingCall /\ call \in P!CallType /\ call.now = {} /\ (call.ok \/ faults > 0)
BY DEF PictureTypes, P!TypeOK, P!CallType, CallShape, Syncing, SettingCall, ModalCall, Setting, Modal

LEMMA DriveTypes ==
  ASSUME PictureTypes, P!Drive
  PROVE  PictureTypes'
<1>0. /\ UNCHANGED <<param, store, ssm, video, P!modeVars, up, P!ghosts>>
      /\ call.at = "drive"
  BY DEF P!Drive, P!quiet, P!ghosts
<1>1. panel' \in P!Levels(param)
  BY <1>0, AtDrive, DriveLevelsAre DEF P!Drive
<1>2. call' = P!NoCall \/ call' = [call EXCEPT !.at = "write"]
  BY DEF P!Drive, P!AfterDrive, P!Goto, P!Return
<1>3. call' = [call EXCEPT !.at = "write"] =>
        /\ call' \in P!CallType
        /\ SettingCall'
        /\ call'.op \in Setting /\ call'.dims = call.dims
        /\ call'.now = {} /\ call'.ok = call.ok
  BY <1>0, AtDrive DEF P!CallType, SettingCall, Setting
<1>4. CallShape' /\ call' \in P!CallType
  BY <1>0, <1>2, <1>3, AtDrive, SettingGoes DEF PictureTypes, P!TypeOK, CallShape, P!ghosts
<1> QED
  BY <1>0, <1>1, <1>4 DEF PictureTypes, P!TypeOK, P!CallType, P!modeVars, P!ghosts

LEMMA DriveRefusedTypes ==
  ASSUME PictureTypes, P!DriveRefused
  PROVE  PictureTypes'
<1>0. /\ UNCHANGED <<param, P!levelVars, video, P!modeVars, up, astray, torn, lost, crashes>>
      /\ call.at = "drive" /\ P!Refuse
      /\ faults' \in 0 .. MaxTrouble /\ faults' > 0 /\ faults' > faults
  BY RefuseType DEF P!DriveRefused, P!quiet, PictureTypes
<1>1. CASE param = "LowLatencyState" /\ call.op = "set"
  <2>1. call' = [call EXCEPT !.op = "fallback", !.at = "write", !.level = call.prev,
                             !.todo = P!getSaveConfig(call.dims)]
    BY <1>1 DEF P!DriveRefused
  <2>2. call.prev \in P!Levels(param) /\ P!SaveDims(param, call.dims) = call.dims
        /\ P!getSaveConfig(call.dims) \subseteq P!Ctx
    BY <1>0, <1>1, AtDrive DEF SettingCall, P!SaveDims, P!getSaveConfig
  <2>3. /\ call' \in P!CallType
        /\ SettingCall'
        /\ call'.op \in Setting /\ call'.dims = call.dims
        /\ call'.now = {}
    BY <1>0, <1>1, <2>1, <2>2, AtDrive DEF P!CallType, SettingCall, Setting
  <2>4. CallShape' /\ call' \in P!CallType
    BY <1>0, <2>3, AtDrive, SettingGoes DEF PictureTypes, P!TypeOK, CallShape
  <2> QED
    BY <1>0, <2>4 DEF PictureTypes, P!TypeOK, P!CallType, P!levelVars, P!modeVars
<1>2. CASE ~(param = "LowLatencyState" /\ call.op = "set")
  <2>1. call' = P!NoCall \/ call' = [call EXCEPT !.at = "write"]
    BY <1>2 DEF P!DriveRefused, P!Goto, P!Return
  <2>2. call' = [call EXCEPT !.at = "write"] =>
          /\ call' \in P!CallType
          /\ SettingCall'
          /\ call'.op \in Setting /\ call'.dims = call.dims
          /\ call'.now = {}
    BY <1>0, AtDrive DEF P!CallType, SettingCall, Setting
  <2>3. CallShape' /\ call' \in P!CallType
    BY <1>0, <2>1, <2>2, AtDrive, SettingGoes DEF PictureTypes, P!TypeOK, CallShape
  <2> QED
    BY <1>0, <2>3 DEF PictureTypes, P!TypeOK, P!CallType, P!levelVars, P!modeVars
<1> QED
  BY <1>1, <1>2

\* The loop is at a context of the request.
LEMMA AtLoop ==
  ASSUME PictureTypes, P!Writing
  PROVE  /\ call.op \in Setting /\ call.at = "write" /\ up = "up"
         /\ SettingCall /\ call \in P!CallType /\ (call.ok \/ faults > 0)
         /\ call.todo \cup call.now \subseteq P!Ctx
<1>1. call.op \in Setting /\ call.at = "write"
  BY DEF P!Writing, Setting
<1>2. SettingCall /\ call \in P!CallType /\ (call.ok \/ faults > 0) /\ up = "up"
  BY <1>1 DEF PictureTypes, P!TypeOK, CallShape, Syncing, Setting
<1>3. \A dims : P!getSaveConfig(dims) \subseteq P!Ctx
  BY DEF P!getSaveConfig
<1> QED
  BY <1>1, <1>2, <1>3 DEF SettingCall

\* Each of the two writes of an iteration writes a level, or its text.
LEMMA LoopLevel ==
  ASSUME PictureTypes, P!Writing
  PROVE  call.op # "reset" => call.level \in P!Levels(param)
BY AtLoop DEF SettingCall, Setting

LEMMA PutStoreType ==
  ASSUME PictureTypes, P!Writing, NEW c \in P!Ctx, P!PutStore(c)
  PROVE  store' \in [P!Ctx -> P!Strings(param) \cup {P!Unset}]
<1>1. call.op # "reset" => P!Encode(param, call.level) \in P!Strings(param)
  BY LoopLevel, ParamIs, EncodeType DEF PictureTypes
<1> QED
  BY <1>1 DEF P!PutStore, PictureTypes, P!TypeOK

LEMMA PutSavedType ==
  ASSUME PictureTypes, P!Writing, NEW c \in P!Ctx, P!PutSaved(c)
  PROVE  ssm' \in [P!Ctx -> P!Levels(param)]
<1>1. (IF call.op = "reset" THEN P!getLocalparam(c) ELSE call.level) \in P!Levels(param)
  BY LoopLevel, DecodeType DEF PictureTypes
<1> QED
  BY <1>1 DEF P!PutSaved, PictureTypes, P!TypeOK

LEMMA PutTypes ==
  ASSUME PictureTypes, P!Writing, NEW c \in P!Ctx, P!PutFirst(c) \/ P!PutSecond(c)
  PROVE  /\ store' \in [P!Ctx -> P!Strings(param) \cup {P!Unset}]
         /\ ssm' \in [P!Ctx -> P!Levels(param)]
BY PutStoreType, PutSavedType DEF P!PutFirst, P!PutSecond, PictureTypes, P!TypeOK

LEMMA FirstHalfTypes ==
  ASSUME PictureTypes, P!FirstHalf
  PROVE  PictureTypes'
<1> DEFINE c == P!NextCtx
<1>0. /\ UNCHANGED <<param, panel, video, P!modeVars, up, astray, torn, crashes>>
      /\ P!Writing /\ call.now = {} /\ c \in call.todo /\ c \in P!Ctx
  BY NextCtxIs, AtLoop DEF P!FirstHalf, P!quiet
<1>1. /\ store' \in [P!Ctx -> P!Strings(param) \cup {P!Unset}]
      /\ ssm' \in [P!Ctx -> P!Levels(param)]
  BY <1>0, PutTypes DEF P!FirstHalf, PictureTypes, P!TypeOK
<1>a. /\ faults \in 0 .. MaxTrouble /\ lost \in BOOLEAN /\ (lost => faults > 0)
      /\ SettingCall /\ call \in P!CallType /\ (call.ok \/ faults > 0)
  BY <1>0, AtLoop DEF PictureTypes, P!TypeOK, CallShape
<1>2. /\ faults' \in 0 .. MaxTrouble /\ faults' >= faults
      /\ lost' \in BOOLEAN /\ (lost' => faults' > 0)
      /\ \/ faults' > 0 /\ call' = [call EXCEPT !.todo = @ \ {c}, !.now = {c}, !.ok = FALSE]
         \/ UNCHANGED faults /\ call' = [call EXCEPT !.todo = @ \ {c}, !.now = {c}]
  <2>1. CASE UNCHANGED <<lost, faults>> /\ call' = [call EXCEPT !.todo = @ \ {c}, !.now = {c}]
    BY <1>a, <2>1
  <2>2. CASE /\ P!Refuse /\ lost' = TRUE
             /\ call' = [call EXCEPT !.todo = @ \ {c}, !.now = {c}, !.ok = FALSE]
    BY <1>a, <2>2, RefuseType DEF PictureTypes
  <2> QED
    BY <2>1, <2>2 DEF P!FirstHalf
<1>3. /\ call' \in P!CallType
      /\ SettingCall'
      /\ call'.op \in Setting /\ call'.dims = call.dims /\ call'.at = "write"
      /\ call'.now = {c}
      /\ call'.ok \/ faults' > 0
  <2>1. call'.todo \cup call'.now \subseteq call.todo
    <3>1. call'.todo = call.todo \ {c} /\ call'.now = {c}
      BY <1>2, <1>a DEF P!CallType
    <3> QED
      BY <1>0, <3>1
  <2>2. /\ call'.op = call.op /\ call'.dims = call.dims /\ call'.at = call.at
        /\ call'.level = call.level /\ call'.prev = call.prev /\ call'.now = {c}
        /\ call'.ok \/ faults' > 0
    BY <1>2, <1>a DEF P!CallType
  <2>3. call' \in P!CallType
    <3>1. call.todo \ {c} \in SUBSET (P!Ctx \cup P!Slots) /\ {c} \in SUBSET (P!Ctx \cup P!Slots)
      BY <1>0, <1>a DEF P!CallType
    <3> HIDE DEF c
    <3>2. CASE call' = [call EXCEPT !.todo = @ \ {c}, !.now = {c}, !.ok = FALSE]
      BY <3>1, <3>2, <1>a DEF P!CallType
    <3>3. CASE call' = [call EXCEPT !.todo = @ \ {c}, !.now = {c}]
      BY <3>1, <3>3, <1>a DEF P!CallType
    <3> QED
      BY <3>2, <3>3, <1>2
  <2>4. SettingCall'
    BY <1>0, <1>a, <2>1, <2>2, AtLoop DEF SettingCall
  <2> QED
    BY <1>0, <2>2, <2>3, <2>4, AtLoop
<1>4. CallShape' /\ call' \in P!CallType
  BY <1>0, <1>2, <1>3, AtLoop, SettingGoes
<1> QED
  BY <1>0, <1>1, <1>2, <1>4 DEF PictureTypes, P!TypeOK, P!CallType, P!modeVars

\* The loop goes on, to the driver, or the call returns.
LEMMA AdvanceTypes ==
  ASSUME PictureTypes, P!Writing, NEW ok \in BOOLEAN, P!Advance(ok), UNCHANGED param,
         call.ok \/ faults' > 0, ok \/ faults' > 0
  PROVE  \/ call' = P!NoCall
         \/ /\ call' \in P!CallType
            /\ SettingCall'
            /\ call'.op \in Setting /\ call'.dims = call.dims /\ call'.now = {}
            /\ call'.ok \/ faults' > 0
<1>1. CASE call' = [call EXCEPT !.now = {}, !.ok = ok]
  BY <1>1, AtLoop DEF P!CallType, SettingCall, Setting
<1>2. CASE call' = [call EXCEPT !.now = {}, !.at = "check"] /\ ok /\ P!DriveLast(param, call.op)
  <2>1. call.op \in {"set", "reset"} /\ ~(param = "HDRMode" /\ call.op = "set")
    BY <1>2 DEF P!DriveLast, P!DriveFirst
  <2> QED
    BY <1>2, <2>1, AtLoop DEF P!CallType, SettingCall, Setting
<1> QED
  BY <1>1, <1>2 DEF P!Advance, P!Return

LEMMA SecondHalfTypes ==
  ASSUME PictureTypes, P!SecondHalf
  PROVE  PictureTypes'
<1>0. /\ UNCHANGED <<param, panel, video, P!modeVars, up, astray, torn, crashes>> /\ P!Writing
  BY DEF P!SecondHalf, P!quiet
<1>1. PICK c \in call.now :
        \/ P!PutSecond(c) /\ P!Advance(call.ok) /\ UNCHANGED <<lost, faults>>
        \/ P!Refuse /\ lost' = TRUE /\ P!Advance(FALSE) /\ UNCHANGED <<store, ssm>>
  BY DEF P!SecondHalf
<1>2. /\ store' \in [P!Ctx -> P!Strings(param) \cup {P!Unset}]
      /\ ssm' \in [P!Ctx -> P!Levels(param)]
  BY <1>0, <1>1, AtLoop, PutTypes DEF PictureTypes, P!TypeOK
<1>a. /\ faults \in 0 .. MaxTrouble /\ lost \in BOOLEAN /\ (lost => faults > 0)
      /\ call.ok \in BOOLEAN /\ (call.ok \/ faults > 0)
  BY <1>0, AtLoop DEF PictureTypes, P!TypeOK, P!CallType, CallShape
<1>3. /\ faults' \in 0 .. MaxTrouble /\ faults' >= faults
      /\ lost' \in BOOLEAN /\ (lost' => faults' > 0)
      /\ \E ok \in BOOLEAN : P!Advance(ok) /\ (call.ok \/ faults' > 0) /\ (ok \/ faults' > 0)
  <2>1. CASE P!Advance(call.ok) /\ UNCHANGED <<lost, faults>>
    BY <1>a, <2>1
  <2>2. CASE P!Refuse /\ lost' = TRUE /\ P!Advance(FALSE)
    <3>1. faults' \in 0 .. MaxTrouble /\ faults' >= faults /\ faults' > 0
      BY <1>a, <2>2, RefuseType DEF PictureTypes
    <3> QED
      BY <2>2, <3>1
  <2> QED
    BY <1>1, <2>1, <2>2
<1>4. CallShape' /\ call' \in P!CallType
  BY <1>0, <1>3, AtLoop, AdvanceTypes, SettingGoes
<1> QED
  BY <1>0, <1>2, <1>3, <1>4 DEF PictureTypes, P!TypeOK, P!CallType, P!modeVars

\* A method that writes the mode is at a step of its own.
LEMMA AtModal ==
  ASSUME PictureTypes, call.op \in Modal
  PROVE  /\ up = "up" /\ call.op \in {"setMode", "resetMode"}
         /\ ModalCall /\ call \in P!CallType /\ Resolved(call.dims)
         /\ call.todo \cup call.now \subseteq P!Slots
         /\ call.at # "write" => call.now = {}
         /\ \A b, c \in call.now : b = c
         /\ call.ok \/ faults > 0
BY DEF PictureTypes, P!TypeOK, CallShape, Syncing, ModalCall, Modal

LEMMA ModalGoes ==
  ASSUME PictureTypes, call.op \in Modal,
         UNCHANGED <<param, up, lost>>, faults' \in 0 .. MaxTrouble, faults' >= faults,
         \/ call' = P!NoCall
         \/ /\ call' \in P!CallType
            /\ ModalCall'
            /\ call'.op \in Modal /\ call'.dims = call.dims /\ call'.ok = call.ok
            /\ call'.now # {} => call'.at = "write"
            /\ \A b, c \in call'.now : b = c
  PROVE  CallShape' /\ call' \in P!CallType
<1>0. /\ faults \in 0 .. MaxTrouble /\ faults' \in 0 .. MaxTrouble /\ faults' >= faults
      /\ (call.ok \/ faults > 0) /\ (lost => faults > 0)
  BY AtModal DEF PictureTypes, P!TypeOK, CallShape
<1>1. faults > 0 => faults' > 0
  BY <1>0
<1>2. CASE call' = P!NoCall
  BY <1>0, <1>1, <1>2, AtModal, CallReturned DEF P!Return
<1>3. CASE call' # P!NoCall
  BY <1>0, <1>1, <1>3, AtModal DEF CallShape, Syncing, Setting, Modal, Resolved
<1> QED
  BY <1>2, <1>3

\* The driver shows the saved level of a mode.
LEMMA ShownType ==
  ASSUME P!TypeOK, NEW m \in Modes
  PROVE  P!Shown(ssm, video.source, m, P!FormatNow) \in P!Levels(param)
<1>1. [source |-> video.source, mode |-> m, format |-> P!FormatNow] \in P!Ctx
  BY NowIs DEF P!TypeOK, P!Ctx
<1> QED
  BY <1>1 DEF P!TypeOK, P!Shown

LEMMA CheckModeTypes ==
  ASSUME PictureTypes, P!CheckMode
  PROVE  PictureTypes'
<1>0. /\ UNCHANGED <<param, store, ssm, video, modeStore, ssmMode, up, torn, lost, crashes>>
      /\ call.op = "setMode" /\ call.op \in Modal /\ call.at = "check"
      /\ astray' \in BOOLEAN
  BY DEF P!CheckMode, P!quietMode, Modal, PictureTypes, P!TypeOK, P!FoundInside, P!isSetRequired
<1>1. call.level \in Modes
  BY <1>0, AtModal DEF ModalCall
<1>2. /\ panel' \in P!Levels(param) /\ drvMode' \in Modes
      /\ call' = P!NoCall \/ call' = [call EXCEPT !.at = "write"]
  BY <1>1, ShownType DEF P!CheckMode, P!SetTVPictureMode, P!Goto, P!Return, PictureTypes, P!TypeOK
<1>3. faults' \in 0 .. MaxTrouble /\ faults' >= faults
  BY RefuseType DEF P!CheckMode, PictureTypes, P!TypeOK
<1>4. call' = [call EXCEPT !.at = "write"] =>
        /\ call' \in P!CallType
        /\ ModalCall'
        /\ call'.op \in Modal /\ call'.dims = call.dims /\ call'.ok = call.ok /\ call'.now = {}
  BY <1>0, AtModal DEF P!CallType, ModalCall, Modal
<1>5. CallShape' /\ call' \in P!CallType
  BY <1>0, <1>2, <1>3, <1>4, ModalGoes
<1> QED
  BY <1>0, <1>2, <1>3, <1>5 DEF PictureTypes, P!TypeOK, P!CallType

LEMMA StoreModeTypes ==
  ASSUME PictureTypes, P!StoreMode
  PROVE  PictureTypes'
<1> DEFINE x == P!NextCtx
<1>0. /\ UNCHANGED <<param, store, ssm, video, panel, ssmMode, drvMode, up, astray, torn, lost, crashes>>
      /\ call.op \in Modal /\ call.at = "write" /\ x \in call.todo /\ x \in P!Slots
  BY NextCtxIs, AtModal DEF P!StoreMode, P!quietMode, Modal
<1>1. DefaultMode \in Modes /\ (call.op = "setMode" => call.level \in Modes)
  BY <1>0, AtModal, PictureFacts DEF ModalCall, P!NamesAssumption
<1>2. CASE /\ modeStore' = [modeStore EXCEPT
                            ![x] = IF call.op = "setMode" THEN call.level ELSE DefaultMode]
           /\ call' = [call EXCEPT !.todo = @ \ {x}, !.now = {x}]
           /\ UNCHANGED faults
  <2>1. modeStore' \in [P!Slots -> Modes]
    BY <1>1, <1>2 DEF PictureTypes, P!TypeOK
  <2>2. /\ call.todo \ {x} \in SUBSET (P!Ctx \cup P!Slots) /\ {x} \in SUBSET (P!Ctx \cup P!Slots)
        /\ call \in P!CallType
    BY <1>0, AtModal DEF P!CallType
  <2> HIDE DEF x
  <2>3. call' \in P!CallType
    BY <1>2, <2>2 DEF P!CallType
  <2>4. /\ call'.op = call.op /\ call'.dims = call.dims /\ call'.at = call.at
        /\ call'.level = call.level /\ call'.ok = call.ok /\ call'.now = {x}
        /\ call'.todo = call.todo \ {x}
    BY <1>2, <2>2 DEF P!CallType
  <2>5. ModalCall'
    BY <1>0, <2>4, AtModal DEF ModalCall
  <2>6. CallShape' /\ call' \in P!CallType
    BY <1>0, <1>2, <2>3, <2>4, <2>5, ModalGoes DEF PictureTypes, P!TypeOK
  <2> QED
    BY <1>0, <1>2, <2>1, <2>6 DEF PictureTypes, P!TypeOK, P!CallType
<1>3. CASE P!Refuse /\ P!Return /\ UNCHANGED modeStore
  <2>1. faults' \in 0 .. MaxTrouble /\ faults' >= faults
    BY <1>3, RefuseType DEF PictureTypes, P!TypeOK
  <2>2. CallShape' /\ call' \in P!CallType
    BY <1>0, <1>3, <2>1, ModalGoes DEF P!Return
  <2> QED
    BY <1>0, <1>3, <2>1, <2>2 DEF PictureTypes, P!TypeOK, P!CallType
<1> QED
  BY <1>2, <1>3 DEF P!StoreMode

LEMMA SaveModeTypes ==
  ASSUME PictureTypes, P!SaveMode
  PROVE  PictureTypes'
<1>0. /\ UNCHANGED <<param, store, ssm, video, modeStore, up, astray, torn, lost, crashes>>
      /\ call.op \in Modal /\ call.at = "write"
  BY DEF P!SaveMode, P!quietMode, Modal
<1>1. /\ panel' \in P!Levels(param) /\ drvMode' \in Modes
      /\ ssmMode' \in [P!Slots -> Modes]
      /\ faults' \in 0 .. MaxTrouble /\ faults' >= faults
      /\ call' = P!NoCall \/ call' = [call EXCEPT !.now = {}]
  <2>0. PICK x \in call.now :
          LET currentSlot == call.op = "resetMode" /\ x = P!SlotNow
          IN \/ /\ IF currentSlot THEN P!SetTVPictureMode(modeStore[x]) ELSE UNCHANGED <<drvMode, panel>>
                /\ ssmMode' = [ssmMode EXCEPT ![x] = modeStore[x]]
                /\ IF call.todo = {} THEN P!Return ELSE call' = [call EXCEPT !.now = {}]
                /\ UNCHANGED faults
             \/ /\ currentSlot /\ P!Refuse /\ P!Return
                /\ UNCHANGED <<drvMode, panel, ssmMode>>
    BY DEF P!SaveMode
  <2>1. x \in P!Slots /\ modeStore[x] \in Modes
    BY <1>0, AtModal DEF PictureTypes, P!TypeOK
  <2>2. P!SetTVPictureMode(modeStore[x]) => panel' \in P!Levels(param) /\ drvMode' \in Modes
    BY <2>1, ShownType DEF P!SetTVPictureMode, PictureTypes
  <2>3. P!Refuse => faults' \in 0 .. MaxTrouble /\ faults' >= faults
    BY RefuseType DEF PictureTypes, P!TypeOK
  <2> QED
    BY <2>0, <2>1, <2>2, <2>3 DEF PictureTypes, P!TypeOK, P!Return
<1>2. call' = [call EXCEPT !.now = {}] =>
        /\ call' \in P!CallType
        /\ ModalCall'
        /\ call'.op \in Modal /\ call'.dims = call.dims /\ call'.ok = call.ok /\ call'.now = {}
  BY <1>0, AtModal DEF P!CallType, ModalCall, Modal
<1>3. CallShape' /\ call' \in P!CallType
  BY <1>0, <1>1, <1>2, ModalGoes
<1> QED
  BY <1>0, <1>1, <1>3 DEF PictureTypes, P!TypeOK, P!CallType

LEMMA VideoChangeTypes ==
  ASSUME PictureTypes, NEW s \in Sources, NEW f \in VideoFormats, P!VideoChange(s, f)
  PROVE  PictureTypes'
<1> DEFINE g == IF f = "NONE" THEN "SDR" ELSE f
<1>1. g \in Formats
  BY PictureFacts DEF P!NamesAssumption
<1>2. [source |-> s, format |-> g] \in P!Slots
  BY <1>1 DEF P!Slots
<1>3. drvMode' \in Modes
  BY <1>2 DEF P!VideoChange, PictureTypes, P!TypeOK
<1>4. [source |-> s, mode |-> drvMode', format |-> g] \in P!Ctx
  BY <1>1, <1>3 DEF P!Ctx
<1>5. panel' \in P!Levels(param)
  BY <1>4 DEF P!VideoChange, P!Shown, PictureTypes, P!TypeOK
<1>6. video' \in [source : Sources, format : VideoFormats] /\ astray' \in BOOLEAN
      /\ UNCHANGED <<param, store, ssm, modeStore, ssmMode, up, call, torn, lost, faults, crashes>>
  BY DEF P!VideoChange
<1>7. CallShape'
  BY <1>6 DEF PictureTypes, CallShape, SettingCall, ModalCall, Resolved
<1> QED
  BY <1>3, <1>5, <1>6, <1>7 DEF PictureTypes, P!TypeOK, P!CallType

LEMMA CrashTypes ==
  ASSUME PictureTypes, P!Crash
  PROVE  PictureTypes'
<1>1. /\ UNCHANGED <<param, P!levelVars, video, P!modeVars, astray, lost, faults>>
      /\ P!Return /\ up' = "down" /\ torn' \in BOOLEAN
  BY DEF P!Crash, PictureTypes, P!TypeOK
<1>2. crashes' \in 0 .. MaxTrouble
  BY PictureFacts DEF P!Crash, PictureTypes, P!TypeOK, P!PictureAssumption
<1>3. CallShape' /\ call' \in P!CallType
  BY <1>1, CallReturned DEF PictureTypes, CallShape
<1> QED
  BY <1>1, <1>2, <1>3 DEF PictureTypes, P!TypeOK, P!CallType, P!levelVars, P!modeVars

LEMMA InitializeTypes ==
  ASSUME PictureTypes, P!Initialize
  PROVE  PictureTypes'
<1>1. /\ UNCHANGED <<param, P!levelVars, video, P!modeVars, P!ghosts>>
      /\ up = "down" /\ up' = "sync"
  BY DEF P!Initialize
<1>2. P!Synced(param) \subseteq P!Ctx
  BY DEF P!Synced
<1>3. call' = [op |-> "sync", at |-> "write", level |-> P!Unset,
               dims |-> [d \in P!Dims |-> {}], todo |-> P!Synced(param), now |-> {},
               prev |-> P!Unset, ok |-> TRUE]
  BY DEF P!Initialize, P!NoCall
<1>4. call' \in P!CallType
  BY <1>2, <1>3 DEF P!CallType
<1>5. CallShape'
  BY <1>1, <1>2, <1>3 DEF PictureTypes, CallShape, Setting, Modal, Syncing, Resolved, P!ghosts
<1> QED
  BY <1>1, <1>4, <1>5 DEF PictureTypes, P!TypeOK, P!CallType, P!levelVars, P!modeVars, P!ghosts

LEMMA AtSync ==
  ASSUME PictureTypes, call.op \in Syncing
  PROVE  /\ up = "sync" /\ call \in P!CallType /\ call.at = "write"
         /\ call.op = "sync" => call.todo \subseteq P!Ctx /\ call.now = {}
         /\ call.op = "syncMode" => call.todo \cup call.now \subseteq P!Slots
         /\ call.op \notin Setting \cup Modal
BY DEF PictureTypes, P!TypeOK, CallShape, Setting, Modal, Syncing

\* The record of a call of the start after one of its steps.
LEMMA SyncGoes ==
  ASSUME PictureTypes, call.op \in Syncing, UNCHANGED up,
         UNCHANGED <<lost, faults>> \/ faults' > 0,
         NEW op \in Syncing, NEW todo, NEW now,
         call' = [call EXCEPT !.op = op, !.todo = todo, !.now = now],
         IF op = "sync" THEN todo \subseteq P!Ctx /\ now = {} ELSE todo \cup now \subseteq P!Slots,
         \A b, c \in now : b = c
  PROVE  call' \in P!CallType /\ CallShape'
<1>1. /\ call \in P!CallType /\ call.at = "write" /\ up = "sync"
      /\ todo \subseteq P!Ctx \cup P!Slots /\ now \subseteq P!Ctx \cup P!Slots
  BY AtSync
<1>2. call' \in P!CallType
  BY <1>1 DEF P!CallType, Syncing
<1>3. /\ call'.op = op /\ call'.todo = todo /\ call'.now = now
      /\ call'.at = "write" /\ call'.dims = call.dims /\ call'.ok = call.ok
  BY <1>1 DEF P!CallType
<1>4. (call.ok \/ faults' > 0) /\ (lost' => faults' > 0)
  BY DEF PictureTypes, CallShape
<1>5. Resolved(call.dims)
  BY DEF PictureTypes, CallShape
<1>6. /\ op = "sync" => todo \subseteq P!Ctx /\ now = {}
      /\ op = "syncMode" => todo \cup now \subseteq P!Slots
      /\ op \in {"sync", "syncMode"}
  BY DEF Syncing
<1> QED
  BY <1>1, <1>2, <1>3, <1>4, <1>5, <1>6 DEF CallShape, Resolved, Setting, Modal, Syncing

LEMMA SyncLevelTypes ==
  ASSUME PictureTypes, P!SyncLevel
  PROVE  PictureTypes'
<1> DEFINE c == P!NextCtx
<1>0. /\ UNCHANGED <<param, store, panel, video, P!modeVars, up, astray, torn, crashes>>
      /\ call.op = "sync" /\ c \in call.todo /\ c \in P!Ctx
      /\ call' = [call EXCEPT !.todo = @ \ {c}]
      /\ ssm' = ssm \/ ssm' = [ssm EXCEPT ![c] = P!getLocalparam(c)]
      /\ UNCHANGED <<lost, faults>> \/ (P!Refuse /\ lost' = TRUE)
  BY NextCtxIs, AtSync DEF P!SyncLevel, Syncing
<1>1. ssm' \in [P!Ctx -> P!Levels(param)]
  BY <1>0, DecodeType DEF PictureTypes, P!TypeOK
<1>2. /\ faults' \in 0 .. MaxTrouble /\ lost' \in BOOLEAN
      /\ UNCHANGED <<lost, faults>> \/ faults' > 0
  <2>1. CASE UNCHANGED <<lost, faults>>
    BY <2>1 DEF PictureTypes, P!TypeOK
  <2>2. CASE P!Refuse /\ lost' = TRUE
    BY <2>2, RefuseType DEF PictureTypes
  <2> QED
    BY <1>0, <2>1, <2>2
<1>3. call.todo \ {c} \subseteq P!Ctx /\ call.now = {} /\ call \in P!CallType
  BY <1>0, AtSync DEF Syncing
<1>4. call' = [call EXCEPT !.op = "sync", !.todo = call.todo \ {c}, !.now = {}]
  BY <1>0, <1>3 DEF P!CallType
<1> HIDE DEF c
<1>5. call' \in P!CallType /\ CallShape'
  BY <1>0, <1>2, <1>3, <1>4, SyncGoes DEF Syncing
<1> QED
  BY <1>0, <1>1, <1>2, <1>5 DEF PictureTypes, P!TypeOK, P!CallType, P!modeVars

LEMMA SyncModeTypes ==
  ASSUME PictureTypes, P!SyncModes \/ P!SyncMode \/ P!ReadCurrent
  PROVE  PictureTypes'
<1>1. CASE P!SyncModes
  <2>1. /\ UNCHANGED <<param, P!levelVars, video, P!modeVars, up, P!ghosts>> /\ call.op = "sync"
        /\ call' = [call EXCEPT !.op = "syncMode", !.todo = P!Slots]
    BY <1>1 DEF P!SyncModes
  <2>2. call.now = {} /\ call \in P!CallType
    BY <2>1, AtSync DEF Syncing
  <2>3. call' = [call EXCEPT !.op = "syncMode", !.todo = P!Slots, !.now = {}]
    BY <2>1, <2>2 DEF P!CallType
  <2>4. call' \in P!CallType /\ CallShape'
    BY <2>1, <2>3, SyncGoes DEF Syncing, P!ghosts
  <2> QED
    BY <2>1, <2>4 DEF PictureTypes, P!TypeOK, P!CallType, P!levelVars, P!modeVars, P!ghosts
<1>2. CASE P!SyncMode
  <2> DEFINE x == P!NextCtx
  <2>1. /\ UNCHANGED <<param, store, ssm, panel, video, modeStore, drvMode, up, astray, torn,
                       lost, crashes>>
        /\ call.op = "syncMode" /\ x \in call.todo
        /\ \/ /\ ssmMode' = [ssmMode EXCEPT ![x] = modeStore[x]]
              /\ call' = [call EXCEPT !.todo = @ \ {x}] /\ UNCHANGED faults
           \/ P!Refuse /\ call' = [call EXCEPT !.todo = {}] /\ UNCHANGED ssmMode
    BY <1>2, NextCtxIs DEF P!SyncMode, P!quietMode
  <2>2. call.todo \cup call.now \subseteq P!Slots /\ call \in P!CallType /\ x \in P!Slots
    BY <2>1, AtSync DEF Syncing
  <2>3. /\ ssmMode' \in [P!Slots -> Modes] /\ faults' \in 0 .. MaxTrouble
        /\ UNCHANGED faults \/ faults' > 0
    BY <2>1, <2>2, RefuseType DEF PictureTypes, P!TypeOK
  <2> HIDE DEF x
  <2>4. PICK todo \in {{}, call.todo \ {x}} :
          call' = [call EXCEPT !.op = "syncMode", !.todo = todo, !.now = call.now]
    <3>1. PICK todo \in {{}, call.todo \ {x}} : call' = [call EXCEPT !.todo = todo]
      BY <2>1
    <3>2. [call EXCEPT !.todo = todo] =
            [call EXCEPT !.op = "syncMode", !.todo = todo, !.now = call.now]
      BY <2>1, <2>2 DEF P!CallType
    <3> QED
      BY <3>1, <3>2
  <2>5. \A b, c \in call.now : b = c
    BY DEF PictureTypes, CallShape
  <2>6. call' \in P!CallType /\ CallShape'
    <3>1. UNCHANGED up /\ (UNCHANGED <<lost, faults>> \/ faults' > 0)
      BY <2>1, <2>3
    <3>2. todo \cup call.now \subseteq P!Slots /\ call.op \in Syncing
      BY <2>1, <2>2 DEF Syncing
    <3>3. "syncMode" \in Syncing
      BY DEF Syncing
    <3> QED
      BY <2>4, <2>5, <3>1, <3>2, <3>3, SyncGoes
  <2> QED
    BY <2>1, <2>3, <2>6 DEF PictureTypes, P!TypeOK, P!CallType
<1>3. CASE P!ReadCurrent
  <2>1. /\ UNCHANGED <<param, P!levelVars, video, P!modeVars, up, P!ghosts>>
        /\ call.op = "syncMode" /\ call.todo = {}
        /\ call' = [call EXCEPT !.now = {P!SlotNow}]
    BY <1>3 DEF P!ReadCurrent
  <2>2. P!SlotNow \in P!Slots /\ call \in P!CallType
    BY <2>1, NowIs, AtSync DEF PictureTypes, Syncing
  <2>3. PICK todo, now :
          /\ call' = [call EXCEPT !.op = "syncMode", !.todo = todo, !.now = now]
          /\ todo = {} /\ now = {P!SlotNow}
    <3>1. call' = [call EXCEPT !.op = "syncMode", !.todo = {}, !.now = {P!SlotNow}]
      BY <2>1, <2>2 DEF P!CallType
    <3> QED
      BY <3>1
  <2>4. call' \in P!CallType /\ CallShape'
    <3>1. /\ UNCHANGED <<up, lost, faults>> /\ call.op \in Syncing /\ "syncMode" \in Syncing
          /\ UNCHANGED <<lost, faults>> \/ faults' > 0
      BY <2>1 DEF Syncing, P!ghosts
    <3>2. todo \cup now \subseteq P!Slots /\ \A b, c \in now : b = c
      BY <2>2, <2>3
    <3>3. call' = [call EXCEPT !.op = "syncMode", !.todo = todo, !.now = now]
      BY <2>3
    <3> QED
      BY <3>1, <3>2, <3>3, SyncGoes
  <2> QED
    BY <2>1, <2>4 DEF PictureTypes, P!TypeOK, P!CallType, P!levelVars, P!modeVars, P!ghosts
<1> QED
  BY <1>1, <1>2, <1>3

\* The last step of the start.
LEMMA StartedTypes ==
  ASSUME PictureTypes, P!initializePictureMode
  PROVE  PictureTypes'
<1>1. /\ UNCHANGED <<param, store, ssm, video, modeStore, ssmMode, torn, lost, crashes>>
      /\ P!Return /\ up' = "up" /\ call.op = "syncMode"
  BY DEF P!initializePictureMode
<1>2. PICK x \in call.now :
        /\ \/ P!SetTVPictureMode(modeStore[x]) /\ UNCHANGED faults
           \/ P!Refuse /\ UNCHANGED <<drvMode, panel>>
        /\ astray' = (x # P!SlotNow)
  BY DEF P!initializePictureMode
<1>3. x \in P!Slots /\ modeStore[x] \in Modes
  BY <1>1, AtSync DEF Syncing, PictureTypes, P!TypeOK
<1>4. panel' \in P!Levels(param) /\ drvMode' \in Modes
  BY <1>1, <1>2, <1>3, ShownType DEF P!SetTVPictureMode, PictureTypes, P!TypeOK
<1>5. faults' \in 0 .. MaxTrouble /\ faults' >= faults
  BY <1>2, RefuseType, PictureFacts DEF PictureTypes, P!TypeOK, P!PictureAssumption
<1>6. lost' => faults' > 0
  BY <1>1, <1>5, PictureFacts DEF PictureTypes, CallShape, P!TypeOK, P!PictureAssumption
<1>7. CallShape' /\ call' \in P!CallType
  BY <1>1, <1>6, CallReturned
<1> QED
  BY <1>1, <1>2, <1>4, <1>5, <1>7 DEF PictureTypes, P!TypeOK, P!CallType

LEMMA TypesUndisturbed ==
  ASSUME PictureTypes, UNCHANGED PictureVars
  PROVE  PictureTypes'
BY DEF PictureTypes, P!TypeOK, P!CallType, CallShape, SettingCall, ModalCall, Resolved, PictureVars

LEMMA PictureTypesStart == P!Init => PictureTypes
<1> SUFFICES ASSUME P!Init PROVE PictureTypes
  OBVIOUS
<1> USE DEF P!Init
<1>1. param \in P!Params
  BY PictureFacts DEF P!PictureAssumption
<1>2. /\ modeStore \in [P!Slots -> Modes] /\ ssmMode \in [P!Slots -> Modes] /\ drvMode \in Modes
      /\ DefaultMode \in Modes
  BY PictureFacts DEF P!NamesAssumption
<1>3. ssm \in [P!Ctx -> P!Levels(param)]
  <2>1. \A c \in P!Ctx : MCDefaultLevel(param, c) \in P!Levels(param)
    BY PictureFacts DEF P!HdrAssumption, P!Levels
  <2> QED
    BY <2>1
<1>4. P!FormatNow \in Formats
  BY PictureFacts DEF P!NamesAssumption, P!FormatNow
<1>5. panel \in P!Levels(param)
  <2>1. [source |-> video.source, mode |-> DefaultMode, format |-> P!FormatNow] \in P!Ctx
    BY <1>2, <1>4 DEF P!Ctx
  <2>2. panel = ssm[[source |-> video.source, mode |-> DefaultMode, format |-> P!FormatNow]]
    BY DEF P!Shown
  <2> QED
    BY <1>3, <2>1, <2>2
<1>6. call \in P!CallType
  BY DEF P!NoCall, P!CallType
<1>7. CallShape
  BY DEF P!NoCall, CallShape, Syncing, Setting, Modal, Resolved
<1>8. MaxTrouble \in Nat
  BY PictureFacts DEF P!PictureAssumption
<1>9. /\ store \in [P!Ctx -> P!Strings(param) \cup {P!Unset}]
      /\ {astray, torn, lost} \subseteq BOOLEAN
  OBVIOUS
<1>10. faults \in 0 .. MaxTrouble /\ crashes \in 0 .. MaxTrouble
  BY <1>8
<1>11. param \in Follow /\ video \in [source : Sources, format : VideoFormats] /\ up = "up"
  OBVIOUS
<1> HIDE DEF P!Init
<1> QED
  BY <1>2, <1>3, <1>5, <1>6, <1>7, <1>9, <1>10, <1>11 DEF PictureTypes, P!TypeOK

LEMMA PictureTypesStep ==
  ASSUME PictureTypes, P!Next \/ UNCHANGED PictureVars
  PROVE  PictureTypes'
<1>1. ASSUME NEW r \in MCRequests, P!Call(r) PROVE PictureTypes'
  BY <1>1, CallIsBegun, SettingTypes, ModalTypes
<1>2. CASE P!Step
  BY <1>2, CheckTypes, DriveTypes, DriveRefusedTypes, FirstHalfTypes, SecondHalfTypes,
     CheckModeTypes, StoreModeTypes, SaveModeTypes, InitializeTypes, SyncLevelTypes,
     SyncModeTypes, StartedTypes DEF P!Step
<1> QED
  BY <1>1, <1>2, VideoChangeTypes, CrashTypes, TypesUndisturbed DEF P!Next

-----------------------------------------------------------------------------
(***************************************************************************)
(* The driver's saved levels.                                              *)
(***************************************************************************)

\* A step that writes no level, and after which no further context has to agree.
LEMMA SavedStays ==
  ASSUME SavedAgrees, UNCHANGED <<param, store, ssm>>, lost => lost',
         \A c \in P!Ctx : Agreed(c)' => Agreed(c),
         \/ call'.op \notin Setting \/ call'.now = {}
         \/ call'.op = call.op /\ call'.now = call.now /\ call'.level = call.level
  PROVE  SavedAgrees'
<1>1. \A c \in P!Ctx : /\ P!Readable(c)' = P!Readable(c)
                      /\ P!getLocalparam(c)' = P!getLocalparam(c)
  BY DEF P!Readable, P!getLocalparam
<1>2. ASSUME ~lost', call'.op \in Setting, NEW c \in call'.now
      PROVE  HalfDone(c)'
  BY <1>2 DEF SavedAgrees, HalfDone
<1> QED
  BY <1>1, <1>2 DEF SavedAgrees

\* What the steps of a call leave of its record.
LEMMA CallFields ==
  ASSUME call \in P!CallType,
         \/ call' = P!NoCall
         \/ \E at : call' = [call EXCEPT !.at = at]
         \/ \E at, v : call' = [call EXCEPT !.at = at, !.level = v]
         \/ \E v, todo : call' = [call EXCEPT !.op = "fallback", !.at = "write", !.level = v,
                                              !.todo = todo]
  PROVE  call'.now = {} \/ call'.now = call.now
<1>1. CASE call' = P!NoCall
  BY <1>1 DEF P!NoCall
<1>2. ASSUME NEW at, call' = [call EXCEPT !.at = at] PROVE call'.now = call.now
  BY <1>2 DEF P!CallType
<1>3. ASSUME NEW at, NEW v, call' = [call EXCEPT !.at = at, !.level = v]
      PROVE  call'.now = call.now
  BY <1>3 DEF P!CallType
<1>4. ASSUME NEW v, NEW todo,
             call' = [call EXCEPT !.op = "fallback", !.at = "write", !.level = v, !.todo = todo]
      PROVE  call'.now = call.now
  BY <1>4 DEF P!CallType
<1> QED
  BY <1>1, <1>2, <1>3, <1>4

LEMMA CallOp ==
  ASSUME call \in P!CallType,
         \/ call' = P!NoCall
         \/ \E at : call' = [call EXCEPT !.at = at]
         \/ \E now : call' = [call EXCEPT !.now = now]
         \/ \E todo, now : call' = [call EXCEPT !.todo = todo, !.now = now]
  PROVE  call'.op = "none" \/ call'.op = call.op
<1>1. CASE call' = P!NoCall
  BY <1>1 DEF P!NoCall
<1>2. ASSUME NEW at, call' = [call EXCEPT !.at = at] PROVE call'.op = call.op
  BY <1>2 DEF P!CallType
<1>3. ASSUME NEW now, call' = [call EXCEPT !.now = now] PROVE call'.op = call.op
  BY <1>3 DEF P!CallType
<1>4. ASSUME NEW todo, NEW now, call' = [call EXCEPT !.todo = todo, !.now = now]
      PROVE  call'.op = call.op
  BY <1>4 DEF P!CallType
<1> QED
  BY <1>1, <1>2, <1>3, <1>4

\* While the plugin is up a context is unsettled only in the middle of an iteration.
LEMMA AgreedUp ==
  ASSUME PictureTypes, up = "up", UNCHANGED <<param, store, torn, up>>,
         call.op \in Setting => call.now = {}, NEW c \in P!Ctx, Agreed(c)'
  PROVE  Agreed(c)
BY DEF Agreed, P!Repaired, Setting

LEMMA SavedCalls ==
  ASSUME SavedInv, PictureTypes',
         \/ P!Check \/ P!Drive \/ P!DriveRefused \/ P!CheckMode \/ P!StoreMode \/ P!SaveMode
         \/ \E p, op, v, r : SettingBegins(p, op, v, r)
         \/ \E op, m, r : ModalBegins(op, m, r)
  PROVE  SavedAgrees'
<1>1. /\ UNCHANGED <<param, store, ssm, torn, up>> /\ up = "up" /\ lost' = lost
      /\ call.op \in Setting => call.now = {}
      /\ call'.op \notin Setting \/ call'.now = {}
  <2>1. CASE P!Check
    <3>1. /\ UNCHANGED <<param, store, ssm, torn, up, lost>>
          /\ call.op \in Setting /\ call.at # "write" /\ call.op \in {"set", "reset"}
      BY <2>1 DEF P!Check, P!quiet, P!levelVars, Setting
    <3>2. call.now = {} /\ up = "up" /\ call \in P!CallType
      BY <3>1, NotWriting DEF SavedInv, PictureTypes, P!TypeOK, CallShape, Setting
    <3>3. \/ call' = P!NoCall
          \/ \E at : call' = [call EXCEPT !.at = at]
          \/ \E at, v : call' = [call EXCEPT !.at = at, !.level = v]
      <4>1. CASE call.op = "set" /\ param = "HDRMode"
        BY <2>1, <4>1 DEF P!Check, P!Goto, P!Return
      <4>2. CASE ~(call.op = "set" /\ param = "HDRMode")
        <5>1. P!Goto("drive") \/ P!AfterDrive
          BY <2>1, <4>2 DEF P!Check
        <5> QED
          BY <5>1 DEF P!Goto, P!AfterDrive, P!Return
      <4> QED
        BY <4>1, <4>2
    <3>4. call'.now = {}
      BY <3>2, <3>3, CallFields
    <3> QED
      BY <3>1, <3>2, <3>4
  <2>2. CASE P!Drive \/ P!DriveRefused
    <3>1. UNCHANGED <<param, store, ssm, torn, up, lost>> /\ call.at = "drive"
      BY <2>2 DEF P!Drive, P!DriveRefused, P!quiet, P!levelVars
    <3>2. call.now = {} /\ up = "up" /\ call \in P!CallType
      BY <3>1, AtDrive DEF SavedInv, PictureTypes, P!TypeOK, CallShape, Setting
    <3>3. \/ call' = P!NoCall
          \/ \E at : call' = [call EXCEPT !.at = at]
          \/ \E v, todo : call' = [call EXCEPT !.op = "fallback", !.at = "write", !.level = v,
                                               !.todo = todo]
      BY <2>2 DEF P!Drive, P!DriveRefused, P!Goto, P!AfterDrive, P!Return
    <3>4. call'.now = {}
      BY <3>2, <3>3, CallFields
    <3> QED
      BY <3>1, <3>2, <3>4
  <2>3. CASE P!CheckMode \/ P!StoreMode \/ P!SaveMode
    <3>1. UNCHANGED <<param, store, ssm, torn, up, lost>> /\ call.op \in Modal
      BY <2>3 DEF P!CheckMode, P!StoreMode, P!SaveMode, P!quietMode, Modal
    <3>2. up = "up" /\ call.op \notin Setting /\ call \in P!CallType
      BY <3>1, AtModal DEF SavedInv, Setting
    <3>3. \/ call' = P!NoCall
          \/ \E at : call' = [call EXCEPT !.at = at]
          \/ \E now : call' = [call EXCEPT !.now = now]
          \/ \E todo, now : call' = [call EXCEPT !.todo = todo, !.now = now]
      <4>1. CASE P!CheckMode
        BY <4>1 DEF P!CheckMode, P!Goto, P!Return
      <4>2. CASE P!StoreMode
        BY <4>2 DEF P!StoreMode, P!Return
      <4>3. CASE P!SaveMode
        BY <4>3 DEF P!SaveMode, P!Return
      <4> QED
        BY <2>3, <4>1, <4>2, <4>3
    <3>4. call'.op = call.op \/ call'.op = "none"
      BY <3>2, <3>3, CallOp
    <3> QED
      BY <3>1, <3>2, <3>4 DEF Setting
  <2>4. CASE \E p, op, v, r : SettingBegins(p, op, v, r)
    BY <2>4 DEF SettingBegins, P!Begin, P!Ready, P!Idle, P!levelVars, P!ghosts, Setting
  <2>5. CASE \E op, m, r : ModalBegins(op, m, r)
    <3>1. /\ UNCHANGED <<param, store, ssm, torn, up, lost>> /\ up = "up" /\ call.op = "none"
          /\ \E op \in Modal : call'.op = op
      <4>1. PICK op, m, r : ModalBegins(op, m, r)
        BY <2>5
      <4>2. op \in Modal
        BY <4>1 DEF ModalBegins, Modal
      <4>3. call' = [P!NoCall EXCEPT
                      !.op = op, !.at = IF op = "setMode" THEN "check" ELSE "write", !.level = m,
                      !.dims = P!parsingSetInputArgument("PictureMode", r),
                      !.todo = P!ModePairs(P!parsingSetInputArgument("PictureMode", r))]
        BY <4>1 DEF ModalBegins, P!BeginMode
      <4>4. call'.op = op
        BY <4>3 DEF P!NoCall
      <4>5. UNCHANGED <<param, store, ssm, torn, up, lost>> /\ up = "up" /\ call.op = "none"
        BY <4>1 DEF ModalBegins, P!BeginMode, P!NoCall, P!Ready, P!Idle, P!levelVars, P!ghosts
      <4> QED
        BY <4>2, <4>4, <4>5
    <3> QED
      BY <3>1 DEF Modal, Setting
  <2> QED
    BY <2>1, <2>2, <2>3, <2>4, <2>5
<1> QED
  BY <1>1, SavedStays, AgreedUp DEF SavedInv

\* A context that was written, in the store and in the saved data, agrees.
LEMMA WrittenAgrees ==
  ASSUME PictureTypes', NEW c \in P!Ctx, NEW v \in P!Levels(param), UNCHANGED param,
         ssm'[c] = v, store'[c] = P!Encode(param, v), P!Readable(c)'
  PROVE  ssm'[c] = P!getLocalparam(c)'
<1>1. param \in P!Params
  BY PictureFacts DEF PictureTypes, P!TypeOK, P!PictureAssumption
<1>2. P!Decode(param, c.format, P!Encode(param, v)) = v
  BY <1>1, DecodeEncode DEF P!Readable
<1>3. P!Encode(param, v) # P!Unset
  BY <1>1, EncodeType
<1> QED
  BY <1>2, <1>3 DEF P!getLocalparam

LEMMA SavedFirstHalf ==
  ASSUME SavedInv, PictureTypes', P!FirstHalf
  PROVE  SavedAgrees'
<1>0. PICK c \in P!Ctx :
        /\ UNCHANGED <<param, torn, up>> /\ P!Writing /\ call.now = {} /\ c \in call.todo
        /\ up = "up" /\ call.op \in Setting /\ call \in P!CallType /\ c = P!NextCtx
  BY NextCtxIs, AtLoop DEF P!FirstHalf, P!quiet, SavedInv
<1> SUFFICES ASSUME ~lost' PROVE SavedAgrees'
  BY DEF SavedAgrees
<1>1. /\ P!PutFirst(c) /\ call' = [call EXCEPT !.todo = @ \ {c}, !.now = {c}] /\ ~lost
  BY <1>0 DEF P!FirstHalf
<1>2. /\ call'.op = call.op /\ call'.now = {c} /\ call'.level = call.level
  BY <1>0, <1>1 DEF P!CallType
<1>3. HalfDone(c)'
  <2>1. CASE P!SaveFirst(param, call.op)
    <3>1. call.op # "reset"
      BY <2>1 DEF P!SaveFirst
    <3>2. ssm'[c] = call.level
      BY <1>0, <1>1, <2>1, <3>1 DEF P!PutFirst, P!PutSaved, SavedInv, PictureTypes, P!TypeOK
    <3> QED
      BY <1>0, <1>2, <2>1, <3>2 DEF HalfDone
  <2>2. CASE ~P!SaveFirst(param, call.op)
    <3>1. store'[c] = IF call.op = "reset" THEN P!Unset ELSE P!Encode(param, call.level)
      BY <1>0, <1>1, <2>2 DEF P!PutFirst, P!PutStore, SavedInv, PictureTypes, P!TypeOK
    <3> QED
      BY <1>0, <1>2, <2>2, <3>1 DEF HalfDone
  <2> QED
    BY <2>1, <2>2
<1>4. ASSUME NEW b \in P!Ctx, Agreed(b)', P!Readable(b)'
      PROVE  ssm'[b] = P!getLocalparam(b)'
  <2>1. b # c /\ P!Repaired(b)'
    BY <1>0, <1>2, <1>4 DEF Agreed
  <2>2. ssm'[b] = ssm[b] /\ store'[b] = store[b]
    BY <1>1, <2>1 DEF P!PutFirst, P!PutStore, P!PutSaved, SavedInv, PictureTypes, P!TypeOK
  <2>3. P!Readable(b) /\ P!Repaired(b) /\ P!getLocalparam(b)' = P!getLocalparam(b)
    BY <1>0, <1>4, <2>1, <2>2 DEF P!Readable, P!Repaired, P!getLocalparam
  <2>4. Agreed(b)
    BY <1>0, <2>3 DEF Agreed
  <2> QED
    BY <1>1, <2>2, <2>3, <2>4 DEF SavedInv, SavedAgrees
<1> QED
  BY <1>2, <1>3, <1>4 DEF SavedAgrees

LEMMA SavedSecondHalf ==
  ASSUME SavedInv, PictureTypes', P!SecondHalf
  PROVE  SavedAgrees'
<1>0. /\ UNCHANGED <<param, torn, up>> /\ P!Writing
      /\ up = "up" /\ call.op \in Setting /\ call \in P!CallType
  BY AtLoop DEF P!SecondHalf, P!quiet, SavedInv
<1> SUFFICES ASSUME ~lost' PROVE SavedAgrees'
  BY DEF SavedAgrees
<1>1. PICK c \in call.now : P!PutSecond(c) /\ P!Advance(call.ok) /\ ~lost
  <2>1. PICK c \in call.now :
          \/ P!PutSecond(c) /\ P!Advance(call.ok) /\ UNCHANGED <<lost, faults>>
          \/ lost' = TRUE
    BY DEF P!SecondHalf
  <2>2. P!PutSecond(c) /\ P!Advance(call.ok) /\ lost' = lost
    BY <2>1
  <2> QED
    BY <2>2
<1>2. c \in P!Ctx /\ \A b \in call.now : b = c
  BY <1>0, <1>1, AtLoop DEF SavedInv, PictureTypes, CallShape
<1>3. HalfDone(c)
  BY <1>0, <1>1 DEF SavedInv, SavedAgrees
<1>4. call'.now = {}
  <2>1. \/ call' = P!NoCall
        \/ \E ok : call' = [call EXCEPT !.now = {}, !.ok = ok]
        \/ \E at : call' = [call EXCEPT !.now = {}, !.at = at]
    BY <1>1 DEF P!Advance, P!Return
  <2>2. ASSUME NEW ok, call' = [call EXCEPT !.now = {}, !.ok = ok] PROVE call'.now = {}
    BY <1>0, <2>2 DEF P!CallType
  <2>3. ASSUME NEW at, call' = [call EXCEPT !.now = {}, !.at = at] PROVE call'.now = {}
    BY <1>0, <2>3 DEF P!CallType
  <2>4. P!NoCall.now = {}
    BY DEF P!NoCall
  <2> QED
    BY <2>1, <2>2, <2>3, <2>4
<1>5. P!Readable(c)' => ssm'[c] = P!getLocalparam(c)'
  <2>1. CASE call.op = "reset"
    <3>1. ~P!SaveFirst(param, call.op)
      BY <2>1 DEF P!SaveFirst
    <3>2. ssm'[c] = P!getLocalparam(c) /\ UNCHANGED store
      BY <1>1, <1>2, <2>1, <3>1 DEF P!PutSecond, P!PutSaved, SavedInv, PictureTypes, P!TypeOK
    <3> QED
      BY <1>0, <3>2 DEF P!getLocalparam
  <2>2. CASE call.op # "reset"
    <3>1. call.level \in P!Levels(param)
      BY <1>0, <2>2, LoopLevel DEF SavedInv
    <3>2. ssm'[c] = call.level /\ store'[c] = P!Encode(param, call.level)
      BY <1>1, <1>2, <1>3, <2>2 DEF P!PutSecond, P!PutSaved, P!PutStore, HalfDone, SavedInv,
         PictureTypes, P!TypeOK
    <3> QED
      BY <1>0, <1>2, <3>1, <3>2, WrittenAgrees
  <2> QED
    BY <2>1, <2>2
<1>6. ASSUME NEW b \in P!Ctx, Agreed(b)', P!Readable(b)', b # c
      PROVE  ssm'[b] = P!getLocalparam(b)'
  <2>1. P!Repaired(b)'
    BY <1>0, <1>6 DEF Agreed
  <2>2. ssm'[b] = ssm[b] /\ store'[b] = store[b]
    BY <1>1, <1>6 DEF P!PutSecond, P!PutStore, P!PutSaved, SavedInv, PictureTypes, P!TypeOK
  <2>3. P!Readable(b) /\ P!Repaired(b) /\ P!getLocalparam(b)' = P!getLocalparam(b)
    BY <1>0, <1>6, <2>1, <2>2 DEF P!Readable, P!Repaired, P!getLocalparam
  <2>4. Agreed(b)
    BY <1>0, <1>2, <1>6, <2>3 DEF Agreed
  <2> QED
    BY <1>1, <2>2, <2>3, <2>4 DEF SavedInv, SavedAgrees
<1> QED
  BY <1>4, <1>5, <1>6 DEF SavedAgrees

LEMMA SavedSyncLevel ==
  ASSUME SavedInv, P!SyncLevel
  PROVE  SavedAgrees'
<1> DEFINE c == P!NextCtx
<1> SUFFICES ASSUME ~lost' PROVE SavedAgrees'
  BY DEF SavedAgrees
<1>0. /\ UNCHANGED <<param, store, torn, up, lost>>
      /\ call.op = "sync" /\ up = "sync" /\ c \in call.todo /\ c \in P!Ctx /\ call \in P!CallType
      /\ call' = [call EXCEPT !.todo = @ \ {c}]
      /\ ssm' = IF store[c] = P!Unset THEN ssm ELSE [ssm EXCEPT ![c] = P!getLocalparam(c)]
  BY NextCtxIs, AtSync DEF P!SyncLevel, Syncing, SavedInv
<1>1. call'.op = "sync" /\ call'.todo = call.todo \ {c}
  BY <1>0 DEF P!CallType
<1>2. ASSUME ~lost, NEW b \in P!Ctx, Agreed(b)', P!Readable(b)'
      PROVE  ssm'[b] = P!getLocalparam(b)'
  <2>1. P!getLocalparam(b)' = P!getLocalparam(b)
    BY <1>0 DEF P!getLocalparam
  <2>2. CASE b = c /\ store[c] # P!Unset
    BY <1>0, <2>1, <2>2 DEF SavedInv, PictureTypes, P!TypeOK
  <2>3. CASE ~(b = c /\ store[c] # P!Unset)
    <3>1. ssm'[b] = ssm[b]
      BY <1>0, <2>3 DEF SavedInv, PictureTypes, P!TypeOK
    <3>2. P!Readable(b)
      BY <1>0, <1>2, <3>1 DEF P!Readable
    <3>3. Agreed(b)
      BY <1>0, <1>1, <1>2, <2>3 DEF Agreed, P!Repaired
    <3> QED
      BY <1>2, <2>1, <3>1, <3>2, <3>3 DEF SavedInv, SavedAgrees
  <2> QED
    BY <2>2, <2>3
<1> QED
  BY <1>0, <1>1, <1>2 DEF SavedAgrees, Setting

LEMMA SavedRestart ==
  ASSUME SavedInv,
         \/ P!Crash \/ P!Initialize \/ P!SyncModes \/ P!SyncMode \/ P!ReadCurrent
         \/ P!initializePictureMode
  PROVE  SavedAgrees'
<1>1. CASE P!Crash
  <2>1. /\ UNCHANGED <<param, store, ssm, lost>> /\ up' = "down" /\ up # "down" /\ call'.op = "none"
        /\ torn' = (torn \/ call.op \in {"set", "reset", "setMode", "resetMode", "fallback"})
    BY <1>1 DEF P!Crash, P!levelVars, P!Return, P!NoCall
  <2>2. ASSUME NEW c \in P!Ctx, Agreed(c)' PROVE Agreed(c)
    BY <2>1, <2>2 DEF Agreed, P!Repaired, Setting, SavedInv, PictureTypes, P!TypeOK
  <2> QED
    BY <2>1, <2>2, SavedStays DEF SavedInv, Setting
<1>2. CASE P!Initialize
  <2>1. /\ UNCHANGED <<param, store, ssm, lost, torn>> /\ up = "down" /\ up' = "sync"
        /\ call'.op = "sync" /\ call'.todo = P!Synced(param)
    BY <1>2 DEF P!Initialize, P!levelVars, P!ghosts, P!NoCall
  <2>2. ASSUME NEW c \in P!Ctx, Agreed(c)' PROVE Agreed(c)
    BY <2>1, <2>2 DEF Agreed, P!Repaired
  <2> QED
    BY <2>1, <2>2, SavedStays DEF SavedInv, Setting
<1>3. CASE P!SyncModes \/ P!SyncMode \/ P!ReadCurrent
  <2>1. /\ UNCHANGED <<param, store, ssm, lost, torn, up>> /\ call.op \in Syncing
        /\ call.op = "sync" => call.todo = {}
    BY <1>3 DEF P!SyncModes, P!SyncMode, P!ReadCurrent, P!quietMode, P!levelVars, P!ghosts, Syncing
  <2>2. up = "sync" /\ call \in P!CallType
    BY <2>1, AtSync DEF SavedInv
  <2>3. call'.op = "syncMode"
    <3>1. \/ \E todo : call' = [call EXCEPT !.op = "syncMode", !.todo = todo]
          \/ call.op = "syncMode" /\ \E todo : call' = [call EXCEPT !.todo = todo]
          \/ call.op = "syncMode" /\ \E now : call' = [call EXCEPT !.now = now]
      BY <1>3 DEF P!SyncModes, P!SyncMode, P!ReadCurrent
    <3> QED
      BY <2>2, <3>1 DEF P!CallType
  <2>4. ASSUME NEW c \in P!Ctx, Agreed(c)' PROVE Agreed(c)
    BY <2>1, <2>2, <2>4 DEF Agreed, P!Repaired
  <2> QED
    BY <2>1, <2>3, <2>4, SavedStays DEF SavedInv, Setting
<1>4. CASE P!initializePictureMode
  <2>1. /\ UNCHANGED <<param, store, ssm, lost, torn>> /\ up' = "up" /\ call'.op = "none"
        /\ call.op = "syncMode"
    BY <1>4 DEF P!initializePictureMode, P!Return, P!NoCall
  <2>2. up = "sync"
    BY <2>1, AtSync DEF SavedInv, Syncing
  <2>3. ASSUME NEW c \in P!Ctx, Agreed(c)' PROVE Agreed(c)
    BY <2>1, <2>2, <2>3 DEF Agreed, P!Repaired
  <2> QED
    BY <2>1, <2>3, SavedStays DEF SavedInv, Setting
<1> QED
  BY <1>1, <1>2, <1>3, <1>4

LEMMA SavedStart == P!Init => SavedAgrees
BY DEF P!Init, SavedAgrees, P!NoCall, Setting, P!getLocalparam

LEMMA SavedStep ==
  ASSUME SavedInv, P!Next \/ UNCHANGED PictureVars
  PROVE  SavedInv'
<1>0. PictureTypes'
  BY PictureTypesStep DEF SavedInv
<1>1. ASSUME NEW r \in MCRequests, P!Call(r) PROVE SavedAgrees'
  BY <1>0, <1>1, CallIsBegun, SavedCalls
<1>2. ASSUME P!Step PROVE SavedAgrees'
  <2>1. CASE P!Check \/ P!Drive \/ P!DriveRefused \/ P!CheckMode \/ P!StoreMode \/ P!SaveMode
    BY <1>0, <2>1, SavedCalls
  <2>2. CASE P!FirstHalf \/ P!SecondHalf
    BY <1>0, <2>2, SavedFirstHalf, SavedSecondHalf
  <2>3. CASE \/ P!SyncLevel \/ P!Initialize \/ P!SyncModes \/ P!SyncMode \/ P!ReadCurrent
             \/ P!initializePictureMode
    BY <2>3, SavedSyncLevel, SavedRestart
  <2> QED
    BY <1>2, <2>1, <2>2, <2>3 DEF P!Step
<1>3. ASSUME NEW s \in Sources, NEW f \in VideoFormats, P!VideoChange(s, f)
      PROVE  SavedAgrees'
  <2>1. UNCHANGED <<param, store, ssm, lost, torn, up, call>>
    BY <1>3 DEF P!VideoChange
  <2>2. \A c \in P!Ctx : Agreed(c)' => Agreed(c)
    BY <2>1 DEF Agreed, P!Repaired
  <2> QED
    BY <2>1, <2>2, SavedStays DEF SavedInv
<1>4. ASSUME UNCHANGED PictureVars PROVE SavedAgrees'
  <2>1. UNCHANGED <<param, store, ssm, lost, torn, up, call>>
    BY <1>4 DEF PictureVars
  <2>2. \A c \in P!Ctx : Agreed(c)' => Agreed(c)
    BY <2>1 DEF Agreed, P!Repaired
  <2>3. SavedAgrees /\ (lost => lost')
    BY <2>1 DEF SavedInv
  <2> QED
    BY <2>1, <2>2, <2>3, SavedStays
<1> QED
  BY <1>0, <1>1, <1>2, <1>3, <1>4, SavedRestart DEF P!Next, SavedInv

-----------------------------------------------------------------------------
(***************************************************************************)
(* The picture mode.                                                       *)
(***************************************************************************)

LEMMA MentionsIs ==
  ASSUME NEW dims, Resolved(dims), NEW c \in P!Ctx, NEW d \in P!Dims
  PROVE  /\ dims[d] = {"none"} \/ c[d] \in dims[d] => P!Mentions(dims[d], c[d])
         /\ ({"none", "Global", "Current"} \cup {c[d]}) \cap dims[d] # {}
              => dims[d] = {"none"} \/ c[d] \in dims[d]
<1>1. dims[d] = {"none"} \/ dims[d] \subseteq P!NamesOf[d]
  BY DEF Resolved
<1>2. P!NamesOf[d] \subseteq Sources \cup Modes \cup Formats
  BY DEF P!NamesOf, P!Dims
<1>3. "none" \notin P!NamesOf[d] /\ "Global" \notin P!NamesOf[d] /\ "Current" \notin P!NamesOf[d]
  BY <1>2, PictureFacts DEF P!NamesAssumption
<1>4. dims[d] = {"none"} \/ c[d] \in dims[d] => P!Mentions(dims[d], c[d])
  BY DEF P!Mentions
<1> QED
  BY <1>1, <1>3, <1>4

\* The driver is called when the current context is among those requested, and
\* for no other context unless a current name was found inside another name.
LEMMA RequiredIs ==
  ASSUME P!TypeOK, NEW dims, Resolved(dims)
  PROVE  /\ P!Now \in P!getSaveConfig(dims) => P!isSetRequired(dims)
         /\ P!isSetRequired(dims) /\ ~P!FoundInside(dims) => P!Now \in P!getSaveConfig(dims)
<1>1. P!Now \in P!Ctx
  BY NowIs
<1>2. ASSUME P!Now \in P!getSaveConfig(dims) PROVE P!isSetRequired(dims)
  <2>1. \A d \in P!Dims : dims[d] = {"none"} \/ P!Now[d] \in dims[d]
    BY <1>2 DEF P!getSaveConfig
  <2> QED
    BY <1>1, <2>1, MentionsIs DEF P!isSetRequired
<1>3. ASSUME P!isSetRequired(dims), ~P!FoundInside(dims) PROVE P!Now \in P!getSaveConfig(dims)
  <2>1. \A d \in P!Dims : ({"none", "Global", "Current"} \cup {P!Now[d]}) \cap dims[d] # {}
    BY <1>3 DEF P!FoundInside
  <2>2. \A d \in P!Dims : dims[d] = {"none"} \/ P!Now[d] \in dims[d]
    BY <1>1, <2>1, MentionsIs
  <2> QED
    BY <1>1, <2>2 DEF P!getSaveConfig
<1> QED
  BY <1>2, <1>3

LEMMA SlotRequired ==
  ASSUME P!TypeOK, NEW dims, Resolved(dims),
         dims \in [P!Dims -> SUBSET (Sources \cup Modes \cup Formats \cup {"none"})]
  PROVE  /\ P!SlotNow \in P!ModePairs(dims) => P!isSetRequired(P!ModeDims(dims))
         /\ P!isSetRequired(P!ModeDims(dims)) /\ ~P!FoundInside(P!ModeDims(dims))
              => P!SlotNow \in P!ModePairs(dims)
<1> DEFINE md == P!ModeDims(dims)
<1>1. /\ md["mode"] = {"none"} /\ md["source"] = dims["source"] /\ md["format"] = dims["format"]
  BY DEF P!ModeDims, P!Dims
<1>2. Resolved(md)
  BY <1>1 DEF Resolved, P!Dims
<1>3. /\ P!Now \in P!getSaveConfig(md) => P!isSetRequired(md)
      /\ P!isSetRequired(md) /\ ~P!FoundInside(md) => P!Now \in P!getSaveConfig(md)
  BY <1>2, RequiredIs
<1>4. /\ P!SlotNow = [source |-> P!Now.source, format |-> P!Now.format] /\ P!Now \in P!Ctx
  BY NowIs DEF P!Now
<1>5. P!Now \in P!getSaveConfig(md) => P!SlotNow \in P!ModePairs(dims)
  BY <1>4 DEF P!ModePairs
<1>6. ASSUME NEW c \in P!getSaveConfig(md), P!SlotNow = [source |-> c.source, format |-> c.format]
      PROVE  P!Now \in P!getSaveConfig(md)
  <2>1. c.source = P!Now.source /\ c.format = P!Now.format
    BY <1>4, <1>6
  <2>2. \A d \in P!Dims : md[d] = {"none"} \/ c[d] \in md[d]
    BY DEF P!getSaveConfig
  <2>3. \A d \in P!Dims : md[d] = {"none"} \/ P!Now[d] \in md[d]
    BY <1>1, <2>1, <2>2 DEF P!Dims
  <2> QED
    BY <1>4, <2>3 DEF P!getSaveConfig
<1> QED
  BY <1>3, <1>5, <1>6 DEF P!ModePairs

\* The steps of a method that writes levels leave the modes and the pipeline alone.
LEMMA SettingSteps ==
  ASSUME PictureTypes,
         P!Check \/ P!Drive \/ P!DriveRefused \/ P!FirstHalf \/ P!SecondHalf
  PROVE  /\ UNCHANGED <<param, video, modeStore, ssmMode, drvMode, up, torn>>
         /\ ~astray' => ~astray
         /\ up = "up" /\ call.op \in Setting /\ call'.op \in Setting \cup {"none"}
         /\ faults' = 0 => faults = 0
<1>1. UNCHANGED <<param, video, modeStore, ssmMode, drvMode, up, torn>> /\ (~astray' => ~astray)
  <2>1. UNCHANGED <<param, video, modeStore, ssmMode, drvMode, up, torn>>
    BY DEF P!Check, P!Drive, P!DriveRefused, P!FirstHalf, P!SecondHalf, P!quiet, P!modeVars
  <2>2. ASSUME P!Check, ~astray' PROVE ~astray
    BY <2>2 DEF P!Check
  <2>3. ASSUME P!Drive \/ P!DriveRefused \/ P!FirstHalf \/ P!SecondHalf PROVE UNCHANGED astray
    BY <2>3 DEF P!Drive, P!DriveRefused, P!FirstHalf, P!SecondHalf
  <2> QED
    BY <2>1, <2>2, <2>3
<1>2. call.op \in Setting
  BY AtDrive DEF P!Check, P!Drive, P!DriveRefused, P!FirstHalf, P!SecondHalf, P!Writing, Setting
<1>3. up = "up" /\ call \in P!CallType
  BY <1>2 DEF PictureTypes, P!TypeOK, CallShape, Syncing, Setting
<1>4. faults' = 0 => faults = 0
  <2>1. CASE P!Check \/ P!Drive
    BY <2>1 DEF P!Check, P!Drive
  <2>2. CASE P!DriveRefused \/ P!FirstHalf \/ P!SecondHalf
    <3>1. UNCHANGED faults \/ P!Refuse
      BY <2>2 DEF P!DriveRefused, P!FirstHalf, P!SecondHalf
    <3> QED
      BY <3>1, RefuseType DEF PictureTypes
  <2> QED
    BY <2>1, <2>2
<1>5. \/ call' = P!NoCall
      \/ \E at : call' = [call EXCEPT !.at = at]
      \/ \E at, v : call' = [call EXCEPT !.at = at, !.level = v]
      \/ \E v, todo : call' = [call EXCEPT !.op = "fallback", !.at = "write", !.level = v,
                                           !.todo = todo]
      \/ \E todo, now : call' = [call EXCEPT !.todo = todo, !.now = now]
      \/ \E todo, now, ok : call' = [call EXCEPT !.todo = todo, !.now = now, !.ok = ok]
      \/ \E now, ok : call' = [call EXCEPT !.now = now, !.ok = ok]
      \/ \E now, at : call' = [call EXCEPT !.now = now, !.at = at]
  <2>1. CASE P!Check
    BY <2>1 DEF P!Check, P!Goto, P!AfterDrive, P!Return
  <2>2. CASE P!Drive
    BY <2>2 DEF P!Drive, P!Goto, P!AfterDrive, P!Return
  <2>3. CASE P!DriveRefused
    BY <2>3 DEF P!DriveRefused, P!Goto, P!Return
  <2>4. CASE P!FirstHalf
    BY <2>4 DEF P!FirstHalf
  <2>5. CASE P!SecondHalf
    BY <2>5 DEF P!SecondHalf, P!Advance, P!Return
  <2> QED
    BY <2>1, <2>2, <2>3, <2>4, <2>5
<1>6. call'.op \in {call.op, "none", "fallback"}
  <2>1. CASE call' = P!NoCall
    BY <2>1 DEF P!NoCall
  <2>2. CASE \E at : call' = [call EXCEPT !.at = at]
    BY <1>3, <2>2 DEF P!CallType
  <2>3. CASE \E at, v : call' = [call EXCEPT !.at = at, !.level = v]
    BY <1>3, <2>3 DEF P!CallType
  <2>4. CASE \E v, todo : call' = [call EXCEPT !.op = "fallback", !.at = "write", !.level = v,
                                              !.todo = todo]
    BY <1>3, <2>4 DEF P!CallType
  <2>5. CASE \E todo, now : call' = [call EXCEPT !.todo = todo, !.now = now]
    BY <1>3, <2>5 DEF P!CallType
  <2>6. CASE \E todo, now, ok : call' = [call EXCEPT !.todo = todo, !.now = now, !.ok = ok]
    BY <1>3, <2>6 DEF P!CallType
  <2>7. CASE \E now, ok : call' = [call EXCEPT !.now = now, !.ok = ok]
    BY <1>3, <2>7 DEF P!CallType
  <2>8. CASE \E now, at : call' = [call EXCEPT !.now = now, !.at = at]
    BY <1>3, <2>8 DEF P!CallType
  <2> QED
    BY <1>5, <2>1, <2>2, <2>3, <2>4, <2>5, <2>6, <2>7, <2>8
<1> QED
  BY <1>1, <1>2, <1>3, <1>4, <1>6 DEF Setting

ModeInv == PictureTypes /\ ModesAgree /\ ModesSynced

\* The current slot is that of the pipeline.
LEMMA SlotStays ==
  UNCHANGED video => P!SlotNow' = P!SlotNow /\ P!FormatNow' = P!FormatNow
BY DEF P!SlotNow, P!FormatNow

LEMMA ModesUntouched ==
  ASSUME ModesAgree, UNCHANGED <<video, modeStore, ssmMode, drvMode, up>>,
         ~astray' => ~astray, faults' = 0 => faults = 0, call.op \notin Modal, call'.op \notin Modal
  PROVE  ModesAgree'
BY SlotStays DEF ModesAgree, ModeApplied, P!ModeNow, Modal

LEMMA ModesCheck ==
  ASSUME ModeInv, P!CheckMode
  PROVE  ModesAgree'
<1> SUFFICES ASSUME faults' = 0 PROVE ModesAgree'
  BY DEF ModesAgree
<1>0. /\ UNCHANGED <<param, store, ssm, video, up, torn, lost, crashes, modeStore, ssmMode>>
      /\ call.op = "setMode" /\ call.op \in Modal /\ call.at = "check"
      /\ ~astray' => ~astray /\ ~P!FoundInside(P!ModeDims(call.dims))
  BY DEF P!CheckMode, P!quietMode, Modal
<1>1. /\ up = "up" /\ call.todo = P!ModePairs(call.dims) /\ call \in P!CallType
      /\ call.now = {} /\ Resolved(call.dims)
  BY <1>0, AtModal DEF ModeInv, ModalCall
<1>2. ~astray' => (P!isSetRequired(P!ModeDims(call.dims)) <=> P!SlotNow \in call.todo)
  BY <1>0, <1>1, SlotRequired DEF ModeInv, PictureTypes, P!CallType
<1>3. /\ faults' = faults
      /\ call' = [call EXCEPT !.at = "write"]
      /\ ~astray' => drvMode' = IF P!SlotNow \in call.todo THEN call.level ELSE drvMode
  <2>1. ~P!Refuse
    BY RefuseType DEF ModeInv, PictureTypes
  <2>2. /\ faults' = faults
        /\ call' = [call EXCEPT !.at = "write"]
        /\ drvMode' = IF P!isSetRequired(P!ModeDims(call.dims)) THEN call.level ELSE drvMode
    BY <2>1 DEF P!CheckMode, P!SetTVPictureMode, P!Goto
  <2> QED
    BY <1>2, <2>2
<1>4. /\ call'.op = "setMode" /\ call'.at = "write" /\ call'.level = call.level
      /\ call'.todo = call.todo /\ call'.now = {}
  BY <1>0, <1>1, <1>3 DEF P!CallType
<1>5. P!SlotNow' = P!SlotNow /\ P!ModeNow' = P!ModeNow
  BY <1>0, SlotStays DEF P!ModeNow
<1> QED
  BY <1>0, <1>1, <1>3, <1>4, <1>5 DEF ModeInv, ModesAgree, ModeApplied

LEMMA ModesStored ==
  ASSUME ModeInv, P!StoreMode
  PROVE  ModesAgree'
<1> SUFFICES ASSUME faults' = 0 PROVE ModesAgree'
  BY DEF ModesAgree
<1>0. PICK x \in P!Slots :
        /\ UNCHANGED <<param, store, ssm, video, up, astray, torn, lost, crashes, panel, ssmMode, drvMode>>
        /\ call.op \in Modal /\ call.at = "write" /\ x \in call.todo /\ x = P!NextCtx
        /\ call.now = {}
  BY NextCtxIs, AtModal DEF P!StoreMode, P!quietMode, Modal, ModeInv
<1>1. /\ modeStore' = [modeStore EXCEPT
                       ![x] = IF call.op = "setMode" THEN call.level ELSE DefaultMode]
      /\ call' = [call EXCEPT !.todo = @ \ {x}, !.now = {x}]
      /\ faults' = faults
  <2>1. ~P!Refuse
    BY RefuseType DEF ModeInv, PictureTypes
  <2> QED
    BY <1>0, <2>1 DEF P!StoreMode
<1>2. /\ call'.op = call.op /\ call'.at = "write" /\ call'.level = call.level
      /\ call'.todo = call.todo \ {x} /\ call'.now = {x}
  BY <1>0, <1>1, AtModal DEF P!CallType, ModeInv
<1>3. modeStore \in [P!Slots -> Modes] /\ P!SlotNow \in P!Slots
      /\ call.op \in {"setMode", "resetMode"} /\ up = "up"
  BY <1>0, NowIs, AtModal DEF ModeInv, PictureTypes, P!TypeOK
<1>4. P!SlotNow' = P!SlotNow /\ P!ModeNow' = modeStore'[P!SlotNow]
  BY <1>0, SlotStays DEF P!ModeNow
<1>5. \A y \in P!Slots : y # x => modeStore'[y] = modeStore[y] /\ ssmMode'[y] = ssmMode[y]
  BY <1>0, <1>1, <1>3
<1>6. \A y \in P!Slots : (call'.op \in Modal => y \notin call'.now) => ssmMode'[y] = modeStore'[y]
  BY <1>0, <1>1, <1>2, <1>3, <1>5 DEF ModeInv, ModesAgree
<1>7. ASSUME ~astray PROVE ModeApplied'
  <2>0. ModeApplied
    BY <1>1, <1>3, <1>7 DEF ModeInv, ModesAgree
  <2>1. CASE P!SlotNow = x
    <3>1. call.op = "setMode" => drvMode' = call.level /\ modeStore'[x] = call.level
      BY <1>0, <1>1, <1>3, <2>0, <2>1 DEF ModeApplied
    <3> QED
      BY <1>2, <1>3, <1>4, <2>1, <3>1 DEF ModeApplied, Modal
  <2>2. CASE P!SlotNow # x
    <3>1. modeStore'[P!SlotNow] = P!ModeNow
      BY <1>3, <1>5, <2>2 DEF P!ModeNow
    <3> QED
      BY <1>0, <1>2, <1>3, <1>4, <2>0, <2>2, <3>1 DEF ModeApplied, Modal
  <2> QED
    BY <2>1, <2>2
<1> QED
  BY <1>0, <1>6, <1>7 DEF ModesAgree

LEMMA ModesSaved ==
  ASSUME ModeInv, P!SaveMode
  PROVE  ModesAgree'
<1> SUFFICES ASSUME faults' = 0 PROVE ModesAgree'
  BY DEF ModesAgree
<1>0. /\ UNCHANGED <<param, store, ssm, video, up, astray, torn, lost, crashes, modeStore>>
      /\ call.op \in Modal /\ call.at = "write"
  BY DEF P!SaveMode, P!quietMode, Modal
<1>1. PICK x \in call.now :
        /\ drvMode' = IF call.op = "resetMode" /\ x = P!SlotNow THEN modeStore[x] ELSE drvMode
        /\ ssmMode' = [ssmMode EXCEPT ![x] = modeStore[x]]
        /\ IF call.todo = {} THEN P!Return ELSE call' = [call EXCEPT !.now = {}]
        /\ faults' = faults
  <2>1. ~P!Refuse
    BY RefuseType DEF ModeInv, PictureTypes
  <2> QED
    BY <2>1 DEF P!SaveMode, P!SetTVPictureMode
<1>2. /\ x \in P!Slots /\ (\A b \in call.now : b = x) /\ up = "up"
      /\ call.op \in {"setMode", "resetMode"} /\ call \in P!CallType
      /\ ssmMode \in [P!Slots -> Modes] /\ P!SlotNow \in P!Slots
  BY <1>0, AtModal, NowIs DEF ModeInv, PictureTypes, P!TypeOK
<1>3. \/ call.todo = {} /\ call'.op = "none"
      \/ /\ call'.op = call.op /\ call'.at = "write" /\ call'.level = call.level
         /\ call'.todo = call.todo /\ call'.now = {}
  BY <1>0, <1>1, <1>2 DEF P!CallType, P!Return, P!NoCall
<1>4. P!SlotNow' = P!SlotNow /\ P!ModeNow' = P!ModeNow
  BY <1>0, SlotStays DEF P!ModeNow
<1>5. \A y \in P!Slots : ssmMode'[y] = modeStore'[y]
  <2>1. \A y \in P!Slots : y # x => ssmMode[y] = modeStore[y]
    BY <1>1, <1>2 DEF ModeInv, ModesAgree
  <2> QED
    BY <1>0, <1>1, <1>2, <2>1
<1>6. ASSUME ~astray PROVE ModeApplied'
  <2>0. ModeApplied
    BY <1>1, <1>2, <1>6 DEF ModeInv, ModesAgree
  <2>1. CASE call.op = "resetMode"
    <3>1. drvMode' = P!ModeNow
      BY <1>1, <1>2, <2>0, <2>1 DEF ModeApplied, P!ModeNow
    <3> QED
      BY <1>3, <1>4, <2>1, <3>1 DEF ModeApplied, Modal
  <2>2. CASE call.op = "setMode"
    <3>1. drvMode' = drvMode
      BY <1>1, <2>2
    <3> QED
      BY <1>0, <1>3, <1>4, <2>0, <2>2, <3>1 DEF ModeApplied, Modal
  <2> QED
    BY <1>2, <2>1, <2>2
<1> QED
  BY <1>0, <1>5, <1>6 DEF ModesAgree

LEMMA ModesFollow ==
  ASSUME ModeInv, NEW s \in Sources, NEW f \in VideoFormats, P!VideoChange(s, f)
  PROVE  ModesAgree'
<1> DEFINE g == IF f = "NONE" THEN "SDR" ELSE f
           slot == [source |-> s, format |-> g]
<1>1. /\ UNCHANGED <<modeStore, ssmMode, up, call, faults>>
      /\ video' = [source |-> s, format |-> f] /\ drvMode' = ssmMode[slot] /\ astray' = ~P!Ready
  BY DEF P!VideoChange
<1>2. slot \in P!Slots
  BY PictureFacts DEF P!NamesAssumption, P!Slots
<1>3. P!SlotNow' = slot /\ P!ModeNow' = modeStore[slot]
  BY <1>1 DEF P!SlotNow, P!FormatNow, P!ModeNow
<1>4. ASSUME faults = 0, up = "up", P!Ready PROVE ModeApplied'
  <2>1. call.op = "none"
    BY <1>4 DEF P!Ready, P!Idle
  <2>2. drvMode' = P!ModeNow'
    BY <1>1, <1>2, <1>3, <1>4, <2>1 DEF ModeInv, ModesAgree, Modal
  <2> QED
    BY <1>1, <2>1, <2>2 DEF ModeApplied
<1> QED
  BY <1>1, <1>4 DEF ModeInv, ModesAgree

LEMMA ModesBegin ==
  ASSUME ModeInv, NEW op, NEW m, NEW r, ModalBegins(op, m, r)
  PROVE  ModesAgree'
<1>1. /\ call.op = "none" /\ UNCHANGED <<video, modeStore, ssmMode, drvMode, up, astray, faults>>
      /\ op \in {"setMode", "resetMode"}
      /\ call'.op = op /\ call'.at = (IF op = "setMode" THEN "check" ELSE "write") /\ call'.now = {}
  BY DEF ModalBegins, P!BeginMode, P!Ready, P!Idle, P!modeVars, P!ghosts, P!NoCall
<1>2. P!SlotNow' = P!SlotNow /\ P!ModeNow' = P!ModeNow
  BY <1>1, SlotStays DEF P!ModeNow
<1> QED
  BY <1>1, <1>2 DEF ModeInv, ModesAgree, ModeApplied, Modal

LEMMA ModesStart == P!Init => ModesAgree /\ ModesSynced
<1> SUFFICES ASSUME P!Init PROVE ModesAgree /\ ModesSynced
  OBVIOUS
<1>1. P!SlotNow \in P!Slots
  BY NowIs, PictureTypesStart DEF PictureTypes
<1> QED
  BY <1>1 DEF P!Init, ModesAgree, ModesSynced, ModeApplied, P!NoCall, P!ModeNow, Modal

\* The start saves the modes one by one, and then sets the one it has read.
LEMMA ModesSyncing ==
  ASSUME ModeInv, P!SyncModes \/ P!SyncMode \/ P!ReadCurrent
  PROVE  up' = "sync" /\ ModesSynced'
<1>0. call.op \in Syncing
  BY DEF P!SyncModes, P!SyncMode, P!ReadCurrent, Syncing
<1>1. up' = "sync" /\ call \in P!CallType /\ modeStore' = modeStore
      /\ ssmMode \in [P!Slots -> Modes]
  BY <1>0, AtSync DEF P!SyncModes, P!SyncMode, P!ReadCurrent, P!quietMode, P!modeVars, ModeInv,
     PictureTypes, P!TypeOK
<1>2. CASE P!SyncModes
  <2>1. call'.todo = P!Slots
    BY <1>1, <1>2 DEF P!SyncModes, P!CallType
  <2> QED
    BY <1>1, <2>1 DEF ModesSynced
<1>3. ASSUME P!SyncMode, faults' = 0 PROVE ModesSynced'
  <2> DEFINE x == P!NextCtx
  <2>1. ~P!Refuse
    BY <1>3, RefuseType DEF ModeInv, PictureTypes
  <2>2. /\ ssmMode' = [ssmMode EXCEPT ![x] = modeStore[x]] /\ call.op = "syncMode"
        /\ call' = [call EXCEPT !.todo = @ \ {x}] /\ faults = 0
    BY <1>3, <2>1 DEF P!SyncMode
  <2> HIDE DEF x
  <2>3. call'.todo = call.todo \ {x}
    BY <1>1, <2>2 DEF P!CallType
  <2> QED
    BY <1>1, <2>2, <2>3 DEF ModeInv, ModesSynced
<1>4. CASE P!ReadCurrent
  <2>1. call'.todo = call.todo /\ call.op = "syncMode" /\ UNCHANGED <<ssmMode, faults>>
    BY <1>1, <1>4 DEF P!ReadCurrent, P!CallType, P!modeVars, P!ghosts
  <2> QED
    BY <1>1, <2>1 DEF ModeInv, ModesSynced
<1> QED
  BY <1>1, <1>2, <1>3, <1>4 DEF ModesSynced

LEMMA ModesStarted ==
  ASSUME ModeInv, P!initializePictureMode
  PROVE  ModesAgree'
<1> SUFFICES ASSUME faults' = 0 PROVE ModesAgree'
  BY DEF ModesAgree
<1>1. ~P!Refuse
  BY RefuseType DEF ModeInv, PictureTypes
<1>2. /\ UNCHANGED <<video, modeStore, ssmMode>> /\ call'.op = "none" /\ faults = 0
      /\ call.op = "syncMode" /\ call.todo = {}
      /\ \E x \in call.now : drvMode' = modeStore[x] /\ astray' = (x # P!SlotNow)
  BY <1>1 DEF P!initializePictureMode, P!SetTVPictureMode, P!Return, P!NoCall
<1>3. P!ModeNow' = P!ModeNow
  BY <1>2, SlotStays DEF P!ModeNow
<1>4. ~astray' => drvMode' = P!ModeNow
  BY <1>2 DEF P!ModeNow
<1>5. \A x \in P!Slots : ssmMode'[x] = modeStore'[x]
  BY <1>2 DEF ModeInv, ModesSynced
<1> QED
  BY <1>2, <1>3, <1>4, <1>5 DEF ModesAgree, ModeApplied, Modal

\* No other step leads to where the start saves the modes.
LEMMA ModesSyncedStep ==
  ASSUME ModeInv, PictureTypes', P!Next \/ UNCHANGED PictureVars
  PROVE  ModesSynced'
<1>0. call'.op = "syncMode" => up' = "sync"
  BY DEF PictureTypes, CallShape, Syncing
<1>1. ASSUME NEW r \in MCRequests, P!Call(r) PROVE up' = "up"
  BY <1>1, CallIsBegun DEF SettingBegins, ModalBegins, P!Begin, P!BeginMode, P!Ready
<1>2. ASSUME P!Check \/ P!Drive \/ P!DriveRefused \/ P!FirstHalf \/ P!SecondHalf PROVE up' = "up"
  BY <1>2, SettingSteps DEF ModeInv
<1>3. ASSUME P!CheckMode \/ P!StoreMode \/ P!SaveMode PROVE up' = "up"
  <2>1. call.op \in Modal /\ UNCHANGED up
    BY <1>3 DEF P!CheckMode, P!StoreMode, P!SaveMode, P!quietMode, Modal
  <2> QED
    BY <2>1, AtModal DEF ModeInv
<1>4. ASSUME P!SyncLevel \/ P!Initialize \/ P!Crash PROVE ModesSynced'
  <2>1. CASE P!SyncLevel
    <3>1. call \in P!CallType /\ call.op = "sync"
      BY <2>1 DEF P!SyncLevel, ModeInv, PictureTypes, P!TypeOK
    <3>2. call'.op = "sync"
      BY <2>1, <3>1 DEF P!SyncLevel, P!CallType
    <3> QED
      BY <3>2 DEF ModesSynced
  <2>2. CASE P!Initialize \/ P!Crash
    <3>1. \/ call' = P!NoCall
          \/ \E todo : call' = [P!NoCall EXCEPT !.op = "sync", !.at = "write", !.todo = todo]
      BY <2>2 DEF P!Initialize, P!Crash, P!Return
    <3>2. P!NoCall.op = "none"
      BY DEF P!NoCall
    <3>3. \A todo : [P!NoCall EXCEPT !.op = "sync", !.at = "write", !.todo = todo].op = "sync"
      BY DEF P!NoCall
    <3>4. call'.op \in {"sync", "none"}
      BY <3>1, <3>2, <3>3
    <3> QED
      BY <3>4 DEF ModesSynced
  <2> QED
    BY <1>4, <2>1, <2>2
<1>5. ASSUME P!initializePictureMode PROVE up' = "up"
  BY <1>5 DEF P!initializePictureMode
<1>6. ASSUME NEW s \in Sources, NEW f \in VideoFormats, P!VideoChange(s, f) PROVE ModesSynced'
  BY <1>6 DEF P!VideoChange, ModesSynced, ModeInv
<1>7. CASE UNCHANGED PictureVars
  BY <1>7 DEF PictureVars, ModesSynced, ModeInv
<1>8. up' = "up" => ModesSynced'
  BY <1>0 DEF ModesSynced
<1>9. CASE P!Step
  BY <1>2, <1>3, <1>4, <1>5, <1>8, <1>9, ModesSyncing DEF P!Step
<1> QED
  BY <1>1, <1>4, <1>6, <1>7, <1>8, <1>9 DEF P!Next

LEMMA ModesStep ==
  ASSUME ModeInv, P!Next \/ UNCHANGED PictureVars
  PROVE  ModeInv'
<1>0. PictureTypes'
  BY PictureTypesStep DEF ModeInv
<1>1. ASSUME NEW r \in MCRequests, P!Call(r) PROVE ModesAgree'
  <2>1. ASSUME NEW p, NEW op, NEW v, SettingBegins(p, op, v, r) PROVE ModesAgree'
    <3>1. /\ call.op = "none" /\ UNCHANGED <<video, modeStore, ssmMode, drvMode, up, astray, faults>>
          /\ call'.op \in {"set", "reset"}
      BY <2>1 DEF SettingBegins, P!Begin, P!Ready, P!Idle, P!modeVars, P!ghosts
    <3> QED
      BY <3>1, ModesUntouched DEF ModeInv, Modal
  <2> QED
    BY <1>1, <2>1, CallIsBegun, ModesBegin
<1>2. ASSUME P!Check \/ P!Drive \/ P!DriveRefused \/ P!FirstHalf \/ P!SecondHalf
      PROVE  ModesAgree'
  BY <1>2, SettingSteps, ModesUntouched DEF ModeInv, Setting, Modal
<1>3. ASSUME P!Crash \/ P!Initialize PROVE ModesAgree'
  BY <1>3 DEF P!Crash, P!Initialize, ModesAgree
<1>4. ASSUME P!SyncLevel \/ P!SyncModes \/ P!SyncMode \/ P!ReadCurrent PROVE ModesAgree'
  <2>1. up' = "sync"
    BY <1>4, AtSync, ModesSyncing DEF P!SyncLevel, Syncing, ModeInv
  <2> QED
    BY <2>1 DEF ModesAgree
<1>5. P!initializePictureMode => ModesAgree'
  BY ModesStarted
<1>6. ASSUME UNCHANGED PictureVars PROVE ModesAgree'
  <2>1. UNCHANGED <<video, modeStore, ssmMode, drvMode, up, astray, faults, call>>
    BY <1>6 DEF PictureVars
  <2>2. P!SlotNow' = P!SlotNow /\ P!ModeNow' = P!ModeNow
    BY <2>1, SlotStays DEF P!ModeNow
  <2> QED
    BY <2>1, <2>2 DEF ModeInv, ModesAgree, ModeApplied
<1>7. ASSUME P!Step PROVE ModesAgree'
  BY <1>2, <1>3, <1>4, <1>5, <1>7, ModesCheck, ModesStored, ModesSaved DEF P!Step
<1>8. ModesSynced'
  BY <1>0, ModesSyncedStep
<1> QED
  BY <1>0, <1>1, <1>3, <1>6, <1>7, <1>8, ModesFollow DEF P!Next, ModeInv

-----------------------------------------------------------------------------
(***************************************************************************)
(* The level the panel shows.                                              *)
(***************************************************************************)

PanelInv == PictureTypes /\ SavedAgrees /\ ModesAgree /\ ModesSynced /\ PanelAgrees

\* Where the panel has to agree with the store.
Calm == faults = 0 /\ up = "up" /\ ~astray /\ param \in {"Plain", "LowLatencyState"}

LEMMA NowStays ==
  UNCHANGED <<video, modeStore>> => P!Now' = P!Now /\ P!SlotNow' = P!SlotNow
BY DEF P!Now, P!ModeNow, P!SlotNow, P!FormatNow

\* The next context that plays is one of the plugin's too.
LEMMA NextNowIs ==
  ASSUME P!TypeOK'
  PROVE  P!Now' \in P!Ctx
<1>1. P!FormatNow' \in Formats /\ video' \in [source : Sources, format : VideoFormats]
  BY PictureFacts DEF P!NamesAssumption, P!TypeOK, P!FormatNow
<1>2. P!SlotNow' = [source |-> video'.source, format |-> P!FormatNow'] /\ P!SlotNow' \in P!Slots
  BY <1>1 DEF P!SlotNow, P!Slots
<1>3. P!ModeNow' \in Modes
  BY <1>2 DEF P!TypeOK, P!ModeNow
<1> QED
  BY <1>1, <1>3 DEF P!Now, P!Ctx

LEMMA CurrentStays ==
  ASSUME UNCHANGED <<param, panel, video, modeStore, torn>>, store'[P!Now] = store[P!Now],
         PanelCurrent
  PROVE  PanelCurrent'
<1>1. P!Now' = P!Now
  BY NowStays
<1> QED
  BY <1>1 DEF PanelCurrent, P!Repaired, P!getLocalparam

\* What the driver's saved data hold is what is reported for these parameters.
LEMMA SavedIsReported ==
  ASSUME SavedInv, faults = 0, NEW c \in P!Ctx, Agreed(c), param # "HDRMode"
  PROVE  ssm[c] = P!getLocalparam(c)
BY DEF SavedInv, SavedAgrees, PictureTypes, CallShape, P!Readable

\* A level that was stored is reported.
LEMMA StoredIsReported ==
  ASSUME P!TypeOK, NEW c \in P!Ctx, NEW v \in P!Levels(param), param # "HDRMode", store[c] = v
  PROVE  P!getLocalparam(c) = v
<1>1. v # P!Unset
  BY ParamIs, LevelsSet
<1> QED
  BY <1>1 DEF P!getLocalparam, P!Decode

\* The contexts a call of these parameters was asked for.
LEMMA RequestedIs ==
  ASSUME PictureTypes, param \in {"Plain", "LowLatencyState"}, call.op \in Setting
  PROVE  /\ call.todo \cup call.now \subseteq Requested
         /\ Requested \subseteq P!Ctx
         /\ P!SaveDims(param, call.dims) = call.dims
         /\ P!DriveDims(param, call.dims) = call.dims
BY DEF PictureTypes, CallShape, SettingCall, Requested, P!SaveDims, P!DriveDims, P!getSaveConfig

LEMMA PanelDriven ==
  ASSUME PictureTypes, param \in {"Plain", "LowLatencyState"}, call.op \in Setting
  PROVE  /\ P!Now \in Requested => P!isSetRequired(P!DriveDims(param, call.dims))
         /\ P!isSetRequired(P!DriveDims(param, call.dims))
               /\ ~P!FoundInside(P!DriveDims(param, call.dims)) => P!Now \in Requested
BY RequiredIs, RequestedIs DEF PictureTypes, CallShape, Requested

\* The order in which these parameters are written.
LEMMA PanelOrder ==
  ASSUME param \in {"Plain", "LowLatencyState"}
  PROVE  /\ P!DriveFirst(param, "set") <=> param = "Plain"
         /\ ~P!DriveFirst(param, "reset")
         /\ \A op : ~P!SaveFirst(param, op)
         /\ P!DriveLast(param, "reset")
         /\ P!DriveLast(param, "set") <=> param # "Plain"
BY DEF P!DriveFirst, P!SaveFirst, P!DriveLast

LEMMA PanelBegins ==
  ASSUME PanelInv, NEW p, NEW op, NEW v, NEW r, SettingBegins(p, op, v, r)
  PROVE  PanelAgrees'
<1> SUFFICES ASSUME Calm' PROVE PanelAt'
  BY DEF PanelAgrees, Calm
<1>1. /\ call.op = "none" /\ p = param
      /\ UNCHANGED <<param, store, ssm, panel, video, modeStore, drvMode, torn>>
      /\ op \in {"set", "reset"} /\ Calm
  BY DEF SettingBegins, P!Begin, P!Ready, P!Idle, P!levelVars, P!modeVars, P!ghosts, Calm
<1>2. /\ call'.op = op /\ call'.at = (IF P!DriveFirst(p, op) THEN "check" ELSE "write")
      /\ call'.todo = P!getSaveConfig(P!SaveDims(p, call'.dims)) /\ call'.level = v
  BY DEF SettingBegins, P!Begin
<1>3. PanelCurrent
  BY <1>1 DEF PanelInv, PanelAgrees, PanelAt, Calm, DrivenFirst, DrivenLast, ModeAhead, ModeBehind
<1>4. PanelCurrent'
  BY <1>1, <1>3, CurrentStays
<1>5. call'.todo = Requested'
  BY <1>1, <1>2 DEF Calm, P!SaveDims, Requested, P!getSaveConfig
<1>6. DrivenFirst' => call'.at = "check" /\ PanelAhead'
  BY <1>1, <1>2, <1>4, <1>5, PanelOrder DEF DrivenFirst, PanelAhead, Calm
<1>7. DrivenLast' => PanelBehind'
  BY <1>1, <1>2, <1>4, <1>5, PanelOrder DEF DrivenLast, PanelBehind, Calm
<1> QED
  BY <1>1, <1>2, <1>4, <1>6, <1>7 DEF PanelAt, ModeAhead, ModeBehind

\* The levels in the store, of a call that is not in its loop.
LEMMA PanelCheck ==
  ASSUME PanelInv, P!Check
  PROVE  PanelAgrees'
<1> SUFFICES ASSUME Calm' PROVE PanelAt'
  BY DEF PanelAgrees, Calm
<1>1. /\ UNCHANGED <<param, store, ssm, panel, video, modeStore, drvMode, torn>>
      /\ call.op \in {"set", "reset"} /\ call.at = "check" /\ Calm /\ call.op \in Setting
      /\ param # "HDRMode"
  BY DEF P!Check, P!quiet, P!levelVars, P!modeVars, Calm, Setting
<1>2. call \in P!CallType /\ PanelAt
  BY <1>1 DEF PanelInv, PanelAgrees, PictureTypes, P!TypeOK, Calm
<1> DEFINE required == P!isSetRequired(P!DriveDims(param, call.dims))
<1>3. call' = IF required THEN [call EXCEPT !.at = "drive"]
              ELSE IF P!DriveFirst(param, call.op) THEN [call EXCEPT !.at = "write"]
              ELSE P!NoCall
  BY <1>1 DEF P!Check, P!Goto, P!AfterDrive, P!Return
<1>r. /\ P!Now \in Requested => required
      /\ call.op = "set" /\ required => P!Now \in Requested
  <2>1. call.op = "set" => ~P!FoundInside(P!DriveDims(param, call.dims))
    BY DEF P!Check, Calm
  <2> QED
    BY <1>1, <2>1, PanelDriven DEF PanelInv, Calm
<1> HIDE DEF required
<1>4. P!Now' = P!Now /\ (PanelCurrent => PanelCurrent')
  BY <1>1, NowStays, CurrentStays
<1>5. CASE DrivenFirst
  <2>1. P!DriveFirst(param, call.op) /\ call.todo = Requested /\ PanelCurrent
    BY <1>1, <1>2, <1>5, PanelOrder DEF PanelAt, DrivenFirst, PanelAhead, Calm
  <2>2. /\ call'.op = "set" /\ call'.todo = call.todo
        /\ call'.at = IF P!Now \in call.todo THEN "drive" ELSE "write"
    BY <1>2, <1>3, <1>r, <1>5, <2>1 DEF DrivenFirst, P!CallType
  <2> QED
    BY <1>1, <1>4, <1>5, <2>1, <2>2
       DEF PanelAt, DrivenFirst, DrivenLast, PanelAhead, ModeAhead, ModeBehind
<1>6. CASE ~DrivenFirst
  <2>1. DrivenLast /\ PanelBehind /\ ~P!DriveFirst(param, call.op)
    BY <1>1, <1>2, <1>6, PanelOrder DEF PanelAt, DrivenFirst, DrivenLast, Calm
  <2>2. CASE required
    <3>1. /\ call'.op = call.op /\ call'.todo = call.todo /\ call'.dims = call.dims
          /\ call'.level = call.level /\ call'.at = "drive"
      BY <1>2, <1>3, <2>2 DEF P!CallType
    <3> QED
      BY <1>1, <1>r, <1>4, <1>6, <2>1, <2>2, <3>1
         DEF PanelAt, DrivenFirst, DrivenLast, PanelBehind, ModeAhead, ModeBehind, Requested
  <2>3. CASE ~required
    <3>1. call' = P!NoCall
      BY <1>3, <2>1, <2>3
    <3>2. call'.op = "none"
      BY <3>1 DEF P!NoCall
    <3> QED
      BY <1>r, <1>4, <2>1, <2>3, <3>2
         DEF PanelAt, DrivenFirst, DrivenLast, PanelBehind, ModeAhead, ModeBehind
  <2> QED
    BY <2>2, <2>3
<1> QED
  BY <1>5, <1>6

LEMMA PanelDrive ==
  ASSUME PanelInv, P!Drive
  PROVE  PanelAgrees'
<1> SUFFICES ASSUME Calm' PROVE PanelAt'
  BY DEF PanelAgrees, Calm
<1>1. /\ UNCHANGED <<param, store, ssm, video, modeStore, drvMode, torn>>
      /\ call.at = "drive" /\ Calm /\ param \notin {"HDRMode", "CMS"}
      /\ panel' \in P!DriveLevels
  BY DEF P!Drive, P!quiet, P!modeVars, Calm
<1>2. /\ call \in P!CallType /\ PanelAt /\ SettingCall /\ P!TypeOK
      /\ call.op \in {"set", "reset"} /\ call.op \in Setting
  BY <1>1, AtDrive DEF PanelInv, PanelAgrees, PictureTypes, Calm
<1>3. call' = IF P!DriveFirst(param, call.op) THEN [call EXCEPT !.at = "write"] ELSE P!NoCall
  BY DEF P!Drive, P!Goto, P!AfterDrive, P!Return
<1>4. P!Now' = P!Now /\ P!Now \in P!Ctx
  BY <1>1, <1>2, NowStays, NowIs
<1>5. panel' = IF call.op = "set" THEN call.level ELSE P!getLocalparam(P!Now)
  BY <1>1, <1>2 DEF P!DriveLevels
<1>6. CASE DrivenFirst
  <2>1. P!DriveFirst(param, call.op) /\ P!Now \in call.todo
    BY <1>1, <1>2, <1>6, PanelOrder DEF PanelAt, DrivenFirst, PanelAhead, Calm
  <2>2. call'.op = "set" /\ call'.todo = call.todo /\ call'.at = "write" /\ call'.level = call.level
    BY <1>2, <1>3, <1>6, <2>1 DEF DrivenFirst, P!CallType
  <2> QED
    BY <1>1, <1>4, <1>5, <1>6, <2>1, <2>2
       DEF PanelAt, DrivenFirst, DrivenLast, PanelAhead, ModeAhead, ModeBehind
<1>7. CASE ~DrivenFirst
  <2>1. DrivenLast /\ PanelBehind /\ ~P!DriveFirst(param, call.op)
    BY <1>1, <1>2, <1>7, PanelOrder DEF PanelAt, DrivenFirst, DrivenLast, Calm
  <2>2. call'.op = "none"
    BY <1>3, <2>1 DEF P!NoCall
  <2>3. panel' = P!getLocalparam(P!Now)
    <3>1. CASE call.op = "set"
      <4>1. store[P!Now] = call.level /\ call.level \in P!Levels(param)
        BY <1>1, <1>2, <2>1, <3>1 DEF PanelBehind, SettingCall
      <4> QED
        BY <1>1, <1>2, <1>4, <1>5, <3>1, <4>1, StoredIsReported
    <3> QED
      BY <1>5, <3>1
  <2>4. PanelCurrent'
    BY <1>1, <1>4, <2>3 DEF PanelCurrent, P!getLocalparam
  <2> QED
    BY <2>2, <2>4 DEF PanelAt, DrivenFirst, DrivenLast, ModeAhead, ModeBehind
<1> QED
  BY <1>6, <1>7

LEMMA PanelFirstHalf ==
  ASSUME PanelInv, P!FirstHalf
  PROVE  PanelAgrees'
<1> SUFFICES ASSUME Calm' PROVE PanelAt'
  BY DEF PanelAgrees, Calm
<1>0. PICK c \in P!Ctx :
        /\ UNCHANGED <<param, panel, video, modeStore, drvMode, torn>>
        /\ P!Writing /\ call.now = {} /\ c \in call.todo /\ c = P!NextCtx
        /\ call.op \in Setting /\ call.at = "write" /\ SettingCall
        /\ call \in P!CallType /\ P!TypeOK
  BY NextCtxIs, AtLoop DEF P!FirstHalf, P!quiet, P!modeVars, PanelInv, PictureTypes
<1>1. P!PutFirst(c) /\ UNCHANGED faults /\ call' = [call EXCEPT !.todo = @ \ {c}, !.now = {c}]
  <2>1. ~P!Refuse
    BY RefuseType DEF PanelInv, PictureTypes, Calm
  <2> QED
    BY <1>0, <2>1 DEF P!FirstHalf
<1>2. Calm /\ PanelAt /\ param # "HDRMode" /\ call.op \in {"set", "reset"}
  <2>1. Calm
    BY <1>0, <1>1 DEF Calm, P!FirstHalf, P!quiet
  <2> QED
    BY <1>0, <2>1 DEF Calm, PanelInv, PanelAgrees, PanelAt, Setting
<1>3. store' = [store EXCEPT ![c] = IF call.op = "reset" THEN P!Unset ELSE call.level]
  BY <1>1, <1>2, PanelOrder DEF P!PutFirst, P!PutStore, P!Encode, Calm
<1>4. /\ call'.op = call.op /\ call'.at = "write" /\ call'.level = call.level
      /\ call'.todo = call.todo \ {c} /\ call'.dims = call.dims
  BY <1>0, <1>1 DEF P!CallType
<1>5. P!Now' = P!Now /\ P!Now \in P!Ctx /\ P!TypeOK'
  BY <1>0, NowStays, NowIs, FirstHalfTypes DEF PanelInv, PictureTypes
<1>6. \A b \in P!Ctx : store'[b] = IF b = c THEN (IF call.op = "reset" THEN P!Unset ELSE call.level)
                                   ELSE store[b]
  BY <1>0, <1>3 DEF P!TypeOK
<1>7. PanelCurrent /\ c # P!Now => PanelCurrent'
  BY <1>0, <1>5, <1>6, CurrentStays
<1>8. CASE DrivenFirst
  <2>1. CASE c = P!Now
    <3>1. store'[P!Now] = call.level /\ panel = call.level /\ call.level \in P!Levels(param)
      BY <1>0, <1>2, <1>6, <1>8, <2>1 DEF DrivenFirst, PanelAt, PanelAhead, SettingCall
    <3>2. P!getLocalparam(P!Now)' = call.level
      <4>1. call.level # P!Unset
        BY <1>0, <1>2, <3>1, ParamIs, LevelsSet
      <4> QED
        BY <1>0, <1>2, <1>5, <3>1, <4>1 DEF P!getLocalparam, P!Decode
    <3>3. PanelCurrent'
      BY <1>0, <3>1, <3>2 DEF PanelCurrent
    <3> QED
      BY <1>0, <1>4, <1>5, <1>8, <2>1, <3>3
         DEF PanelAt, PanelAhead, DrivenFirst, DrivenLast, ModeAhead, ModeBehind
  <2>2. CASE c # P!Now
    BY <1>0, <1>2, <1>4, <1>5, <1>7, <1>8, <2>2
       DEF PanelAt, PanelAhead, DrivenFirst, DrivenLast, ModeAhead, ModeBehind
  <2> QED
    BY <2>1, <2>2
<1>9. CASE ~DrivenFirst
  <2>1. DrivenLast /\ PanelBehind /\ c \in Requested /\ Requested \subseteq P!Ctx
    BY <1>0, <1>2, <1>9, RequestedIs DEF PanelAt, DrivenFirst, DrivenLast, Calm, PanelInv
  <2>2. PanelBehind'
    BY <1>0, <1>4, <1>5, <1>6, <1>7, <2>1 DEF PanelBehind, Requested
  <2> QED
    BY <1>0, <1>4, <1>9, <2>1, <2>2, <1>2 DEF PanelAt, DrivenFirst, DrivenLast, ModeAhead, ModeBehind
<1> QED
  BY <1>8, <1>9

LEMMA PanelSecondHalf ==
  ASSUME PanelInv, P!SecondHalf
  PROVE  PanelAgrees'
<1> SUFFICES ASSUME Calm' PROVE PanelAt'
  BY DEF PanelAgrees, Calm
<1>0. /\ UNCHANGED <<param, panel, video, modeStore, drvMode, torn>> /\ P!Writing
      /\ call.op \in Setting /\ call.at = "write" /\ SettingCall
      /\ call \in P!CallType /\ P!TypeOK
  BY AtLoop DEF P!SecondHalf, P!quiet, P!modeVars, PanelInv, PictureTypes
<1>1. PICK c \in call.now : P!PutSecond(c) /\ P!Advance(call.ok) /\ UNCHANGED faults
  <2>1. ~P!Refuse
    BY RefuseType DEF PanelInv, PictureTypes, Calm
  <2> QED
    BY <2>1 DEF P!SecondHalf
<1>2. Calm /\ PanelAt /\ param # "HDRMode" /\ call.op \in {"set", "reset"} /\ call.ok
  <2>1. Calm
    BY <1>0, <1>1 DEF Calm, P!SecondHalf, P!quiet
  <2> QED
    BY <1>0, <2>1 DEF Calm, PanelInv, PanelAgrees, PanelAt, Setting, PictureTypes, CallShape
<1>3. UNCHANGED store
  BY <1>1, <1>2, PanelOrder DEF P!PutSecond, Calm
<1>4. P!Now' = P!Now /\ (PanelCurrent => PanelCurrent')
  BY <1>0, <1>3, NowStays, CurrentStays
<1>5. \/ call.todo # {} /\ call' = [call EXCEPT !.now = {}, !.ok = call.ok]
      \/ /\ call.todo = {} /\ P!DriveLast(param, call.op)
         /\ call' = [call EXCEPT !.now = {}, !.at = "check"]
      \/ call.todo = {} /\ ~P!DriveLast(param, call.op) /\ call' = P!NoCall
  BY <1>1, <1>2 DEF P!Advance, P!Return
<1>6. CASE DrivenFirst
  <2>0. ~P!DriveLast(param, call.op)
    BY <1>2, <1>6, PanelOrder DEF Calm, DrivenFirst
  <2>1. \/ /\ call'.op = "set" /\ call'.at = "write" /\ call'.level = call.level
           /\ call'.todo = call.todo
        \/ call.todo = {} /\ call'.op = "none"
    <3>1. CASE call.todo # {}
      BY <1>0, <1>5, <1>6, <3>1 DEF DrivenFirst, P!CallType
    <3>2. CASE call.todo = {}
      <4>1. call' = P!NoCall
        BY <1>5, <2>0, <3>2
      <4> QED
        BY <3>2, <4>1 DEF P!NoCall
    <3> QED
      BY <3>1, <3>2
  <2> QED
    BY <1>0, <1>2, <1>4, <1>6, <2>1
       DEF PanelAt, PanelAhead, DrivenFirst, DrivenLast, ModeAhead, ModeBehind
<1>7. CASE ~DrivenFirst
  <2>0. DrivenLast /\ PanelBehind /\ P!DriveLast(param, call.op)
    BY <1>2, <1>7, PanelOrder DEF PanelAt, DrivenFirst, DrivenLast, Calm
  <2>1. /\ call'.op = call.op /\ call'.level = call.level /\ call'.todo = call.todo
        /\ call'.dims = call.dims
        /\ call'.at = IF call.todo = {} THEN "check" ELSE "write"
    <3>1. CASE call.todo = {}
      BY <1>0, <1>5, <2>0, <3>1 DEF P!CallType
    <3>2. CASE call.todo # {}
      BY <1>0, <1>5, <2>0, <3>2 DEF P!CallType
    <3> QED
      BY <3>1, <3>2
  <2>2. PanelBehind'
    BY <1>0, <1>3, <1>4, <2>0, <2>1 DEF PanelBehind, Requested
  <2> QED
    BY <1>0, <1>2, <1>7, <2>0, <2>1, <2>2 DEF PanelAt, DrivenFirst, DrivenLast, ModeAhead, ModeBehind
<1> QED
  BY <1>6, <1>7

\* The driver shows the saved level of the mode it is given.
LEMMA PanelSaved ==
  ASSUME SavedInv, Calm, P!Repaired(P!Now), call.op \notin Setting
  PROVE  P!Shown(ssm, video.source, P!ModeNow, P!FormatNow) = P!getLocalparam(P!Now)
<1>1. P!Now \in P!Ctx /\ Agreed(P!Now)
  BY NowIs DEF SavedInv, PictureTypes, Agreed, Calm
<1> QED
  BY <1>1, SavedIsReported DEF Calm, P!Shown, P!Now

LEMMA PanelModeBegins ==
  ASSUME PanelInv, NEW op, NEW m, NEW r, ModalBegins(op, m, r)
  PROVE  PanelAgrees'
<1> SUFFICES ASSUME Calm' PROVE PanelAt'
  BY DEF PanelAgrees, Calm
<1>1. /\ call.op = "none" /\ Calm
      /\ UNCHANGED <<param, store, ssm, panel, video, modeStore, drvMode, torn>>
      /\ call'.op \in Modal
      /\ call'.op = "setMode" => call'.at = "check"
      /\ call'.now = {}
  BY DEF ModalBegins, P!BeginMode, P!Ready, P!Idle, P!levelVars, P!modeVars, P!ghosts, P!NoCall,
         Calm, Modal
<1>2. PanelCurrent
  BY <1>1 DEF PanelInv, PanelAgrees, PanelAt, Calm, DrivenFirst, DrivenLast, ModeAhead, ModeBehind
<1>3. PanelCurrent'
  BY <1>1, <1>2, CurrentStays
<1> QED
  BY <1>1, <1>3 DEF PanelAt, DrivenFirst, DrivenLast, ModeAhead, ModeBehind, Modal

LEMMA PanelCheckMode ==
  ASSUME PanelInv, P!CheckMode
  PROVE  PanelAgrees'
<1> SUFFICES ASSUME Calm' PROVE PanelAt'
  BY DEF PanelAgrees, Calm
<1>0. /\ UNCHANGED <<param, store, ssm, video, modeStore, torn>>
      /\ call.op = "setMode" /\ call.op \in Modal /\ call.at = "check"
      /\ ~astray /\ ~P!FoundInside(P!ModeDims(call.dims))
  BY DEF P!CheckMode, P!quietMode, Modal, Calm
<1>1. /\ call.todo = P!ModePairs(call.dims) /\ call \in P!CallType /\ Resolved(call.dims)
      /\ P!TypeOK
  BY <1>0, AtModal DEF PanelInv, PictureTypes, ModalCall
<1>2. P!isSetRequired(P!ModeDims(call.dims)) <=> P!SlotNow \in call.todo
  BY <1>0, <1>1, SlotRequired DEF P!CallType
<1>3. /\ UNCHANGED faults
      /\ call' = [call EXCEPT !.at = "write"]
      /\ IF P!SlotNow \in call.todo THEN P!SetTVPictureMode(call.level)
         ELSE UNCHANGED <<drvMode, panel>>
  <2>1. ~P!Refuse
    BY RefuseType DEF PanelInv, PictureTypes, Calm
  <2> QED
    BY <1>2, <2>1 DEF P!CheckMode, P!Goto
<1>4. call'.op = "setMode" /\ call'.at = "write" /\ call'.todo = call.todo
  BY <1>0, <1>1, <1>3 DEF P!CallType
<1>5. P!Now' = P!Now /\ P!SlotNow' = P!SlotNow
  BY <1>0, NowStays
<1>6. PanelAt
  BY <1>0, <1>3 DEF PanelInv, PanelAgrees, Calm, P!CheckMode, P!quietMode
<1>7. CASE P!SlotNow \in call.todo
  <2>1. /\ drvMode' = call.level
        /\ panel' = ssm[[source |-> video.source, mode |-> call.level, format |-> P!FormatNow]]
    BY <1>3, <1>7 DEF P!SetTVPictureMode, P!Shown
  <2>2. [P!Now EXCEPT !.mode = call.level]
          = [source |-> video.source, mode |-> call.level, format |-> P!FormatNow]
    BY DEF P!Now
  <2> QED
    BY <1>0, <1>4, <1>5, <1>7, <2>1, <2>2 DEF PanelAt, DrivenFirst, DrivenLast, ModeAhead
<1>8. CASE P!SlotNow \notin call.todo
  <2>1. PanelCurrent
    BY <1>0, <1>6 DEF PanelAt, DrivenFirst, DrivenLast, ModeAhead, ModeBehind
  <2>2. PanelCurrent'
    BY <1>0, <1>3, <1>8, <2>1, CurrentStays
  <2> QED
    BY <1>4, <1>5, <1>8, <2>2 DEF PanelAt, DrivenFirst, DrivenLast, ModeAhead
<1> QED
  BY <1>7, <1>8

LEMMA PanelStoreMode ==
  ASSUME PanelInv, P!StoreMode
  PROVE  PanelAgrees'
<1> SUFFICES ASSUME Calm' PROVE PanelAt'
  BY DEF PanelAgrees, Calm
<1>0. PICK x \in P!Slots :
        /\ UNCHANGED <<param, store, ssm, panel, video, drvMode, up, astray, torn, lost>>
        /\ call.op \in {"setMode", "resetMode"} /\ call.at = "write" /\ x \in call.todo
        /\ x = P!NextCtx /\ call.now = {} /\ ModalCall /\ call \in P!CallType /\ P!TypeOK
  BY NextCtxIs, AtModal DEF P!StoreMode, P!quietMode, Modal, PanelInv, PictureTypes
<1>1. /\ modeStore' = [modeStore EXCEPT
                       ![x] = IF call.op = "setMode" THEN call.level ELSE DefaultMode]
      /\ call' = [call EXCEPT !.todo = @ \ {x}, !.now = {x}]
      /\ UNCHANGED faults
  <2>1. ~P!Refuse
    BY RefuseType DEF PanelInv, PictureTypes, Calm
  <2> QED
    BY <1>0, <2>1 DEF P!StoreMode
<1>2. /\ call'.op = call.op /\ call'.at = "write" /\ call'.todo = call.todo \ {x} /\ call'.now = {x}
  BY <1>0, <1>1 DEF P!CallType
<1>3. Calm /\ PanelAt /\ ModeApplied
  BY <1>0, <1>1 DEF Calm, PanelInv, PanelAgrees, ModesAgree
<1>4. P!SlotNow' = P!SlotNow /\ P!FormatNow' = P!FormatNow /\ P!SlotNow \in P!Slots
  BY <1>0, SlotStays, NowIs
<1>5. CASE x # P!SlotNow
  <2>1. P!ModeNow' = P!ModeNow /\ P!Now' = P!Now
    BY <1>0, <1>1, <1>4, <1>5 DEF P!ModeNow, P!Now, P!TypeOK
  <2>2. PanelCurrent => PanelCurrent'
    BY <1>0, <2>1 DEF PanelCurrent, P!Repaired, P!getLocalparam
  <2> QED
    BY <1>0, <1>2, <1>3, <1>4, <1>5, <2>1, <2>2
       DEF PanelAt, DrivenFirst, DrivenLast, ModeAhead, ModeBehind
<1>6. CASE x = P!SlotNow /\ call.op = "resetMode"
  BY <1>2, <1>4, <1>6 DEF PanelAt, DrivenFirst, DrivenLast, ModeAhead, ModeBehind
<1>7. CASE x = P!SlotNow /\ call.op = "setMode"
  <2>1. P!ModeNow' = call.level /\ drvMode = call.level
    BY <1>0, <1>1, <1>3, <1>4, <1>7 DEF P!ModeNow, P!TypeOK, ModeApplied
  <2>2. P!Now' = [P!Now EXCEPT !.mode = drvMode]
    BY <1>0, <1>4, <2>1 DEF P!Now
  <2>3. panel = ssm[P!Now']
    BY <1>0, <1>3, <1>7, <2>2 DEF PanelAt, ModeAhead
  <2>4. PanelCurrent'
    <3> SUFFICES ASSUME P!Repaired(P!Now)' PROVE panel = P!getLocalparam(P!Now)'
      BY <1>0 DEF PanelCurrent
    <3>1. P!Now' \in P!Ctx
      BY StoreModeTypes, NextNowIs DEF PanelInv, PictureTypes
    <3>2. PICK c \in P!Ctx : c = P!Now'
      BY <3>1
    <3>3. Agreed(c)
      BY <1>0, <1>3, <3>2 DEF P!Repaired, Agreed, Setting, Calm
    <3>4. ssm[c] = P!getLocalparam(c)
      BY <1>3, <3>3, SavedIsReported DEF Calm, PanelInv, SavedInv
    <3> QED
      BY <1>0, <2>3, <3>2, <3>4 DEF P!getLocalparam
  <2> QED
    BY <1>2, <1>4, <1>7, <2>4 DEF PanelAt, DrivenFirst, DrivenLast, ModeAhead, ModeBehind
<1> QED
  BY <1>0, <1>5, <1>6, <1>7

LEMMA PanelSaveMode ==
  ASSUME PanelInv, P!SaveMode
  PROVE  PanelAgrees'
<1> SUFFICES ASSUME Calm' PROVE PanelAt'
  BY DEF PanelAgrees, Calm
<1>0. /\ UNCHANGED <<param, store, ssm, video, modeStore, up, astray, torn, lost>>
      /\ call.op \in {"setMode", "resetMode"} /\ call.at = "write" /\ call \in P!CallType
      /\ \A b, c \in call.now : b = c
  BY AtModal DEF P!SaveMode, P!quietMode, Modal, PanelInv
<1>1. PICK x \in call.now :
        /\ IF call.op = "resetMode" /\ x = P!SlotNow THEN P!SetTVPictureMode(modeStore[x])
           ELSE UNCHANGED <<drvMode, panel>>
        /\ IF call.todo = {} THEN P!Return ELSE call' = [call EXCEPT !.now = {}]
        /\ UNCHANGED faults
  <2>1. ~P!Refuse
    BY RefuseType DEF PanelInv, PictureTypes, Calm
  <2> QED
    BY <2>1 DEF P!SaveMode
<1>2. \/ call.todo = {} /\ call'.op = "none"
      \/ /\ call'.op = call.op /\ call'.at = "write" /\ call'.todo = call.todo /\ call'.now = {}
  BY <1>0, <1>1 DEF P!CallType, P!Return, P!NoCall
<1>3. Calm /\ PanelAt
  BY <1>0, <1>1 DEF Calm, PanelInv, PanelAgrees
<1>4. P!Now' = P!Now /\ P!SlotNow' = P!SlotNow
  BY <1>0, NowStays
<1>5. CASE call.op = "resetMode" /\ x = P!SlotNow
  <2>1. panel' = P!Shown(ssm, video.source, P!ModeNow, P!FormatNow)
    BY <1>1, <1>5 DEF P!SetTVPictureMode, P!ModeNow
  <2>2. P!Repaired(P!Now) => panel' = P!getLocalparam(P!Now)
    BY <1>3, <1>5, <2>1, PanelSaved DEF PanelInv, SavedInv, Setting
  <2>3. PanelCurrent'
    BY <1>0, <1>4, <2>2 DEF PanelCurrent, P!Repaired, P!getLocalparam
  <2> QED
    BY <1>2, <1>5, <2>3 DEF PanelAt, DrivenFirst, DrivenLast, ModeAhead, ModeBehind
<1>6. CASE ~(call.op = "resetMode" /\ x = P!SlotNow)
  <2>1. UNCHANGED <<drvMode, panel>>
    BY <1>1, <1>6
  <2>2. PanelCurrent => PanelCurrent'
    BY <1>0, <2>1, CurrentStays
  <2> QED
    BY <1>0, <1>2, <1>3, <1>4, <1>6, <2>1, <2>2
       DEF PanelAt, DrivenFirst, DrivenLast, ModeAhead, ModeBehind
<1> QED
  BY <1>5, <1>6

\* The pipeline plays something else while no method runs.
LEMMA PanelFollows ==
  ASSUME PanelInv, NEW s \in Sources, NEW f \in VideoFormats, P!VideoChange(s, f)
  PROVE  PanelAgrees'
<1> DEFINE g == IF f = "NONE" THEN "SDR" ELSE f
           slot == [source |-> s, format |-> g]
<1> SUFFICES ASSUME Calm' PROVE PanelAt'
  BY DEF PanelAgrees, Calm
<1>1. /\ UNCHANGED <<param, store, ssm, modeStore, torn, up, call, lost, faults>>
      /\ video' = [source |-> s, format |-> f] /\ drvMode' = ssmMode[slot]
      /\ panel' = ssm[[source |-> s, mode |-> drvMode', format |-> g]] /\ P!Ready
  BY DEF P!VideoChange, P!Shown, Calm
<1>2. slot \in P!Slots
  BY PictureFacts DEF P!NamesAssumption, P!Slots
<1>3. P!FormatNow' = g /\ P!SlotNow' = slot /\ P!ModeNow' = modeStore[slot]
  BY <1>1 DEF P!SlotNow, P!FormatNow, P!ModeNow
<1>4. call.op = "none" /\ faults = 0 /\ up = "up"
  BY <1>1 DEF P!Ready, P!Idle, Calm
<1>5. drvMode' = modeStore[slot]
  BY <1>1, <1>2, <1>4 DEF PanelInv, ModesAgree, Modal
<1>6. P!Now' = [source |-> s, mode |-> drvMode', format |-> g]
  BY <1>1, <1>3, <1>5 DEF P!Now
<1>7. PanelCurrent'
  <2> SUFFICES ASSUME P!Repaired(P!Now)' PROVE panel' = P!getLocalparam(P!Now)'
    BY DEF PanelCurrent
  <2>1. P!Now' \in P!Ctx
    BY VideoChangeTypes, NextNowIs DEF PanelInv, PictureTypes
  <2>2. PICK c \in P!Ctx : c = P!Now'
    BY <2>1
  <2>3. Agreed(c) /\ param # "HDRMode"
    BY <1>1, <1>4, <2>2 DEF P!Repaired, Agreed, Setting, Calm
  <2>4. ssm[c] = P!getLocalparam(c)
    BY <1>4, <2>3, SavedIsReported DEF PanelInv, SavedInv
  <2> QED
    BY <1>1, <1>6, <2>2, <2>4 DEF P!getLocalparam
<1> QED
  BY <1>1, <1>4, <1>7 DEF PanelAt, DrivenFirst, DrivenLast, ModeAhead, ModeBehind

LEMMA PanelRestart ==
  ASSUME PanelInv, P!initializePictureMode
  PROVE  PanelAgrees'
<1> SUFFICES ASSUME Calm' PROVE PanelAt'
  BY DEF PanelAgrees, Calm
<1>0. ~P!Refuse
  BY RefuseType DEF Calm, PanelInv, PictureTypes
<1>1. /\ UNCHANGED <<param, store, ssm, video, modeStore, torn, lost, faults>>
      /\ call.op = "syncMode" /\ call'.op = "none"
      /\ panel' = P!Shown(ssm, video.source, P!ModeNow, P!FormatNow)
  BY <1>0 DEF P!initializePictureMode, P!SetTVPictureMode, P!Return, P!NoCall, P!ModeNow, Calm
<1>2. P!Now' = P!Now /\ P!Now \in P!Ctx /\ up = "sync"
  BY <1>1, NowStays, NowIs, AtSync DEF PanelInv, PictureTypes, Syncing
<1>3. ASSUME P!Repaired(P!Now) PROVE panel' = P!getLocalparam(P!Now)
  <2>1. Agreed(P!Now) /\ faults = 0 /\ param # "HDRMode"
    BY <1>1, <1>2, <1>3 DEF Agreed, Calm
  <2>2. ssm[P!Now] = P!getLocalparam(P!Now)
    BY <1>2, <2>1, SavedIsReported DEF PanelInv, SavedInv
  <2> QED
    BY <1>1, <2>2 DEF P!Shown, P!Now
<1>4. PanelCurrent'
  BY <1>1, <1>2, <1>3 DEF PanelCurrent, P!Repaired, P!getLocalparam
<1> QED
  BY <1>1, <1>4 DEF PanelAt, DrivenFirst, DrivenLast, ModeAhead, ModeBehind

LEMMA PanelStart == P!Init => PanelAgrees
<1> SUFFICES ASSUME P!Init PROVE PanelAgrees
  OBVIOUS
<1>1. P!Now \in P!Ctx /\ P!SlotNow \in P!Slots
  BY NowIs, PictureTypesStart DEF PictureTypes
<1>2. P!ModeNow = DefaultMode
  BY <1>1 DEF P!Init, P!ModeNow
<1>3. panel = ssm[P!Now] /\ ssm[P!Now] = P!getLocalparam(P!Now)
  BY <1>1, <1>2 DEF P!Init, P!Shown, P!Now, P!getLocalparam
<1> QED
  BY <1>3 DEF P!Init, PanelAgrees, PanelAt, PanelCurrent, P!NoCall,
              DrivenFirst, DrivenLast, ModeAhead, ModeBehind

LEMMA PanelStep ==
  ASSUME PanelInv, P!Next \/ UNCHANGED PictureVars
  PROVE  PanelInv'
<1>0. (PictureTypes /\ SavedAgrees /\ ModesAgree /\ ModesSynced)'
  BY SavedStep, ModesStep DEF PanelInv, SavedInv, ModeInv
<1>1. ASSUME NEW r \in MCRequests, P!Call(r) PROVE PanelAgrees'
  BY <1>1, CallIsBegun, PanelBegins, PanelModeBegins
<1>2. ASSUME P!DriveRefused PROVE PanelAgrees'
  BY <1>2, RefuseType DEF P!DriveRefused, PanelAgrees, PanelInv, PictureTypes
<1>3. ASSUME P!Crash \/ P!Initialize PROVE PanelAgrees'
  BY <1>3 DEF P!Crash, P!Initialize, PanelAgrees
<1>4. ASSUME P!SyncLevel \/ P!SyncModes \/ P!SyncMode \/ P!ReadCurrent PROVE PanelAgrees'
  <2>1. up' = "sync"
    BY <1>4, AtSync, ModesSyncing DEF P!SyncLevel, Syncing, PanelInv, ModeInv
  <2> QED
    BY <2>1 DEF PanelAgrees
<1>5. ASSUME UNCHANGED PictureVars PROVE PanelAgrees'
  <2>1. UNCHANGED <<param, store, ssm, panel, video, modeStore, drvMode, torn, up, astray, faults, call>>
    BY <1>5 DEF PictureVars
  <2>2. P!Now' = P!Now /\ P!SlotNow' = P!SlotNow
    BY <2>1, NowStays
  <2>3. PanelCurrent' <=> PanelCurrent
    BY <2>1, <2>2 DEF PanelCurrent, P!Repaired, P!getLocalparam
  <2>4. PanelAt' <=> PanelAt
    BY <2>1, <2>2, <2>3 DEF PanelAt, PanelAhead, PanelBehind, DrivenFirst, DrivenLast,
       ModeAhead, ModeBehind, Requested
  <2> QED
    BY <2>1, <2>4 DEF PanelInv, PanelAgrees
<1>6. ASSUME P!Step PROVE PanelAgrees'
  BY <1>2, <1>3, <1>4, <1>6, PanelCheck, PanelDrive, PanelFirstHalf, PanelSecondHalf,
     PanelCheckMode, PanelStoreMode, PanelSaveMode, PanelRestart DEF P!Step
<1> QED
  BY <1>0, <1>1, <1>3, <1>5, <1>6, PanelFollows DEF P!Next, PanelInv

-----------------------------------------------------------------------------
(***************************************************************************)
(* The properties.                                                         *)
(***************************************************************************)

\* What the get methods report of one context.
LEMMA GetsOne ==
  ASSUME P!TypeOK, NEW c \in P!Ctx, P!isPlatformSupport(param),
         NEW q, \A d \in P!Dims : P!convertToValidInputParameter(param, d, q[d]) = {c[d]}
  PROVE  P!Reports(q) = {P!getLocalparam(c)}
<1>1. P!getParamIndex(param, q) = {c}
  <2>1. \A d \in P!Dims : c[d] # "none"
    BY CtxFields, PictureFacts DEF P!NamesOf, P!Dims, P!NamesAssumption
  <2>2. c \in P!getParamIndex(param, q)
    BY DEF P!getParamIndex, P!getSaveConfig
  <2>3. ASSUME NEW b \in P!getParamIndex(param, q) PROVE b = c
    <3>1. b \in P!Ctx /\ \A d \in P!Dims : b[d] = c[d]
      BY <2>1 DEF P!getParamIndex, P!getSaveConfig
    <3>2. b.source = c.source /\ b.mode = c.mode /\ b.format = c.format
      BY <3>1 DEF P!Dims
    <3> QED
      BY <3>1, <3>2 DEF P!Ctx
  <2> QED
    BY <2>2, <2>3
<1>2. P!GetParam(param, q) = {P!getLocalparam(c)}
  BY <1>1 DEF P!GetParam
<1>3. P!Reports(q) = P!GetParam(param, q)
  BY ParamIs DEF P!Params, P!Reports, P!getBacklight, P!getBrightness, P!getContrast,
     P!getSaturation, P!getSharpness, P!getHue, P!getColorTemperature,
     P!getBacklightDimmingMode, P!getDolbyVisionMode, P!getLowLatencyState, P!getHDRMode,
     P!getCMS, P!get2PointWB
<1> QED
  BY <1>2, <1>3

LEMMA OnlyReports ==
  ASSUME P!TypeOK, NEW c \in P!Ctx, P!isPlatformSupport(param)
  PROVE  P!Reports(P!Only(c)) = {P!getLocalparam(c)}
<1>1. \A d \in P!Dims : c[d] # "Global" /\ c[d] # "Current"
  BY CtxFields, PictureFacts DEF P!NamesOf, P!Dims, P!NamesAssumption
<1>2. \A d \in P!Dims : P!convertToValidInputParameter(param, d, P!Only(c)[d]) = {c[d]}
  BY <1>1 DEF P!Only, P!convertToValidInputParameter
<1> QED
  BY <1>2, GetsOne

LEMMA CurrentReports ==
  ASSUME P!TypeOK, P!isPlatformSupport(param)
  PROVE  P!Reports(P!CurrentOnly) = {P!getLocalparam(P!Now)}
<1>1. \A d \in P!Dims :
        P!convertToValidInputParameter(param, d, P!CurrentOnly[d]) = {P!Now[d]}
  BY DEF P!CurrentOnly, P!convertToValidInputParameter
<1> QED
  BY <1>1, NowIs, GetsOne

LEMMA PictureInvariant == PartsSpec => [](part = "picture" => SavedInv)
<1>1. PartsInit => (part = "picture" => SavedInv)
  BY PartsStart, PictureTypesStart, SavedStart DEF SavedInv
<1>2. (part = "picture" => SavedInv) /\ [PartsNext]_AllVars => (part = "picture" => SavedInv)'
  BY PartsStep, SavedStep
<1> HIDE DEF SavedInv
<1> QED
  BY <1>1, <1>2, PTL DEF PartsSpec, AllVars

\* Between calls the driver's saved data agree with what the get methods report in
\* every context (updateAVoutputTVParam, syncAvoutputTVParamsToHAL), through refusals
\* of the driver, changes of the pipeline and crashes between the two writes.
THEOREM SavedIsStored == PartsSpec => []StoredIsSaved
<1>1. (part = "picture" => SavedInv) => StoredIsSaved
  <2> SUFFICES ASSUME SavedInv, P!Ready, ~lost, P!isPlatformSupport(param),
                      NEW c \in P!Ctx, P!Repaired(c), P!Readable(c)
               PROVE  P!Reports(P!Only(c)) = {ssm[c]}
    BY DEF StoredIsSaved, P!StoredIsSaved
  <2>1. Agreed(c)
    BY DEF Agreed, P!Ready, P!Idle, Setting
  <2>2. ssm[c] = P!getLocalparam(c)
    BY <2>1 DEF SavedInv, SavedAgrees
  <2> QED
    BY <2>2, OnlyReports DEF SavedInv, PictureTypes
<1> QED
  BY <1>1, PictureInvariant, PTL

LEMMA PanelInvariant == PartsSpec => [](part = "picture" => PanelInv)
<1>1. PartsInit => (part = "picture" => PanelInv)
  BY PartsStart, PictureTypesStart, SavedStart, ModesStart, PanelStart DEF PanelInv
<1>2. (part = "picture" => PanelInv) /\ [PartsNext]_AllVars => (part = "picture" => PanelInv)'
  BY PartsStep, PanelStep
<1> HIDE DEF PanelInv
<1> QED
  BY <1>1, <1>2, PTL DEF PartsSpec, AllVars

\* Between calls the driver's saved picture modes are the stored ones and the mode
\* it applies is that of the current source and format (setPictureMode,
\* resetPictureMode, SetTVPictureMode), unless the driver refused, the pipeline
\* moved under the last call, or isSetRequired found a current name inside another.
THEOREM ModeIsInForce == PartsSpec => []ModeInForce
<1>1. (part = "picture" => PanelInv) => ModeInForce
  <2> SUFFICES ASSUME PanelInv, P!Ready, faults = 0
               PROVE  ssmMode = modeStore /\ (~astray => drvMode = P!getPictureMode)
    BY DEF ModeInForce, P!ModeInForce
  <2>1. call.op = "none" /\ up = "up"
    BY DEF P!Ready, P!Idle
  <2>2. /\ \A x \in P!Slots : ssmMode[x] = modeStore[x]
        /\ ~astray => drvMode = P!ModeNow
    BY <2>1 DEF PanelInv, ModesAgree, ModeApplied, Modal
  <2> QED
    BY <2>2 DEF P!getPictureMode, PanelInv, PictureTypes, P!TypeOK
<1> QED
  BY <1>1, PanelInvariant, PTL

\* Between calls the panel shows the level the get method reports for the current
\* context (the set and reset methods, updateAVoutputTVParam, setPictureMode,
\* initializePictureMode), under the same conditions.
THEOREM PanelIsTrue == PartsSpec => []PanelShowsStored
<1>1. (part = "picture" => PanelInv) => PanelShowsStored
  <2> SUFFICES ASSUME PanelInv, P!Ready, faults = 0, ~astray,
                      param \in {"Plain", "LowLatencyState"}, P!Repaired(P!Now)
               PROVE  P!Reports(P!CurrentOnly) = {panel}
    BY DEF PanelShowsStored, P!PanelShowsStored
  <2>1. call.op = "none" /\ up = "up"
    BY DEF P!Ready, P!Idle
  <2>2. PanelCurrent
    BY <2>1 DEF PanelInv, PanelAgrees, PanelAt, DrivenFirst, DrivenLast, ModeAhead, ModeBehind
  <2>3. P!isPlatformSupport(param)
    BY PictureFacts DEF P!PictureAssumption, P!isPlatformSupport
  <2> QED
    BY <2>2, <2>3, CurrentReports DEF PanelCurrent, PanelInv, PictureTypes
<1> QED
  BY <1>1, PanelInvariant, PTL

\* Every part keeps its types: the levels, modes and calls of AVOutput, the ports,
\* mixer and queues of the inputs, the reports of the latency, the reads and jobs of
\* HdcpProfile, the members and files of the settings.
THEOREM PartsTypesCorrect == PartsSpec => []PartsTypeOK
<1>1. SavedInv => P!TypeOK
  BY DEF SavedInv, PictureTypes
<1>2. InputsInv => N!TypeOK
  <2> SUFFICES ASSUME InputsInv PROVE N!TypeOK
    OBVIOUS
  <2>1. /\ \A type \in DOMAIN select :
             /\ select[type].port \in N!InputPorts \cup {-1}
             /\ select[type].port # -1 => N!TypeOf(select[type].port) = type
             /\ select[type].plane \in Planes \cup {-1, 0}
        /\ planeType \in [N!Plugins -> Planes \cup {-1, 0}]
        /\ steady \subseteq N!Plugins /\ chosen.plane \in {-1, 0, 1}
    BY DEF InputsInv, EventInv, EventTypes, SelectTypes, PlaneInv, PlaneTypes
  <2>2. /\ balanceSet \in [N!Plugins -> BOOLEAN]
        /\ \A level \in DOMAIN mixer : mixer[level] \in MixerLevels \cup {N!Full}
    BY DEF InputsInv, MixInv, MixTypes
  <2>3. vrrType \in VrrTypes \cup {N!NoVrr}
    BY DEF InputsInv, EventInv, EventTypes, TableTypes, ValuesOf
  <2>4. \A p \in N!Plugins : \A i \in DOMAIN queue[p] :
          N!Listens(p, queue[p][i].kind, N!TypeOf(queue[p][i].port))
    <3> SUFFICES ASSUME NEW p \in N!Plugins, NEW i \in DOMAIN queue[p]
                 PROVE  N!Listens(p, queue[p][i].kind, N!TypeOf(queue[p][i].port))
      OBVIOUS
    <3>1. i \in 1 .. Len(queue[p])
      BY DEF InputsInv, EventInv, EventTypes, QueueTypes
    <3> QED
      BY <3>1 DEF InputsInv, EventInv, EventTypes, QueueTypes
  <2> QED
    BY <2>1, <2>2, <2>3, <2>4 DEF N!TypeOK
<1>3. LatencyInv => L!TypeOK
  BY DEF LatencyInv, HandlerTypes, ValueTypes, Latencies, Working, L!Idle, L!TypeOK
<1>4. HdcpInv => H!TypeOK
  <2>1. Len(H!Reads) = 4
    BY DEF H!Reads
  <2> SUFFICES ASSUME HdcpInv PROVE H!TypeOK
    OBVIOUS
  <2>2. portHandler # H!Idle => portHandler.step \in 1 .. Len(H!Reads)
    BY <2>1 DEF HdcpInv, PlugTypes
  <2>3. ASSUME NEW w \in Workers, held[w].taken PROVE held[w].after \subseteq Workers \ {w}
    <3>1. /\ held[w] \in {H!NoJob} \cup [taken : {TRUE}, status : Statuses, after : SUBSET Workers]
          /\ w \notin held[w].after
      BY <2>3 DEF HdcpInv, JobTypes
    <3>2. held[w] # H!NoJob
      BY <2>3 DEF H!NoJob
    <3> QED
      BY <3>1, <3>2
  <2> QED
    BY <2>2, <2>3 DEF HdcpInv, PlugTypes, JobTypes, H!TypeOK
<1>5. SettingsInv => S!TypeOK
  BY DEF SettingsInv, StoreTypes, SetterTypes, MemberSet, Value, CallOK, S!Keys, S!TypeOK
<1>6. /\ part = "picture" => SavedInv
      /\ part = "inputs" => InputsInv
      /\ part = "latency" => LatencyInv
      /\ part = "hdcp" => HdcpInv
      /\ part = "settings" => SettingsInv
      => PartsTypeOK
  BY <1>1, <1>2, <1>3, <1>4, <1>5 DEF PartsTypeOK
<1> QED
  BY <1>6, PictureInvariant, InputsInvariant, LatencyInvariant, HdcpInvariant,
     SettingsInvariant, PTL

=============================================================================
