---------------------------- MODULE PluginsProofs ----------------------------
(***************************************************************************)
(* Proofs about the parts of MCPlugins, for every value of their           *)
(* constants.  The lemmas of a part are about its own operators, seen      *)
(* through its instance (L: Latency, H: HdcpProfile, N: Inputs,            *)
(* S: SettingsFile); the theorems are about PartsSpec, the specification   *)
(* the run checks, in which a behaviour runs one of the parts.             *)
(***************************************************************************)
EXTENDS MCPlugins, TLAPS

(***************************************************************************)
(* A step of PartsSpec is one of the part that runs, or changes nothing.   *)
(***************************************************************************)

AllVars == <<part, vars, PictureVars, InputsVars, LatencyVars, HdcpVars, SettingsVars>>

LEMMA PartsStart ==
  ASSUME PartsInit
  PROVE  /\ part = "picture"  => P!Init
         /\ part = "latency"  => L!Init
         /\ part = "hdcp"     => H!Init
         /\ part = "inputs"   => N!Init
         /\ part = "settings" => S!Init
BY DEF PartsInit

LEMMA PartsStep ==
  ASSUME [PartsNext]_AllVars
  PROVE  /\ part' = part
         /\ part = "picture"  => P!Next \/ UNCHANGED PictureVars
         /\ part = "latency"  => L!Next \/ UNCHANGED LatencyVars
         /\ part = "hdcp"     => H!Next \/ UNCHANGED HdcpVars
         /\ part = "inputs"   => N!Next \/ UNCHANGED InputsVars
         /\ part = "settings" => S!Next \/ UNCHANGED SettingsVars
BY DEF PartsNext, AllVars
-----------------------------------------------------------------------------
(***************************************************************************)
(* Latency.                                                                *)
(***************************************************************************)

Latencies == [audioOutputDelay : Delays \cup {100}, videoLatency : Delays \cup {20},
              lowLatencyMode : 0 .. 1]
Names3 == {"audioOutputDelay", "videoLatency", "lowLatencyMode"}
Working == [step : {"write", "ask", "read", "invoke"}, item : 1 .. 3, values : Latencies]

\* A handler has an item to write or to read.
OnItem(h, state) ==
  /\ state.step = "write" => state.item \in 1 .. Len(L!Carries(h))
  /\ state.step = "ask"   => state.item = 1

HandlerTypes ==
  /\ handler \in [L!Handlers -> {L!Idle} \cup Working]
  /\ \A h \in L!Handlers : OnItem(h, handler[h])

ValueTypes ==
  /\ statics \in Latencies
  /\ sink \in [Names3 -> 0 .. 255]
  /\ active \in BOOLEAN /\ met \in BOOLEAN /\ missed \in BOOLEAN

\* What a sink makes of the values of a report.
Report(values) ==
  [audioOutputDelay |-> L!Steps(values.audioOutputDelay),
   videoLatency     |-> L!Steps(values.videoLatency),
   lowLatencyMode   |-> L!LatencyFlags(values.lowLatencyMode)]

\* One handler at a time.
Alone ==
  \A g, h \in L!Handlers : handler[g] # L!Idle /\ handler[h] # L!Idle => g = h

\* The items that a handler has read are the statics.
ReadBy(state) ==
  \A i \in 1 .. 3 : state.step = "invoke" \/ (state.step = "read" /\ i < state.item)
    => state.values[L!Items[i]] = statics[L!Items[i]]

ReadTrue == \A h \in L!Handlers : ReadBy(handler[h])

\* The sink has the last report.
Reported ==
  (\A h \in L!Handlers : handler[h] = L!Idle) /\ active /\ ~missed => sink = Report(statics)

LatencyInv == HandlerTypes /\ ValueTypes /\ (~met => Alone /\ ReadTrue /\ Reported)

LEMMA DelaysAreNat == \A ms \in Delays \cup {20, 100} : ms \in Nat
BY PartsAssumption DEF L!LatencyAssumption

LEMMA LatencyOf ==
  ASSUME NEW v \in Latencies
  PROVE  v.audioOutputDelay \in Nat /\ v.videoLatency \in Nat /\ v.lowLatencyMode \in 0 .. 1
BY DelaysAreNat DEF Latencies

LEMMA ReportType == ASSUME NEW v \in Latencies PROVE Report(v) \in [Names3 -> 0 .. 255]
<1>1. \A ms \in Nat : L!Steps(ms) \in 0 .. 255
  BY DEF L!Steps
<1>2. \A mode \in 0 .. 1 : L!LatencyFlags(mode) \in 0 .. 255
  BY DEF L!LatencyFlags, L!Compensated
<1>3. /\ L!Steps(v.audioOutputDelay) \in 0 .. 255
      /\ L!Steps(v.videoLatency) \in 0 .. 255
      /\ L!LatencyFlags(v.lowLatencyMode) \in 0 .. 255
  BY <1>1, <1>2, LatencyOf
<1>4. PICK a \in 0 .. 255 : a = L!Steps(v.audioOutputDelay)
  BY <1>3
<1>5. PICK b \in 0 .. 255 : b = L!Steps(v.videoLatency)
  BY <1>3
<1>6. PICK c \in 0 .. 255 : c = L!LatencyFlags(v.lowLatencyMode)
  BY <1>3
<1>7. Report(v) = [audioOutputDelay |-> a, videoLatency |-> b, lowLatencyMode |-> c]
  BY <1>4, <1>5, <1>6 DEF Report
<1>8. [audioOutputDelay |-> a, videoLatency |-> b, lowLatencyMode |-> c] \in [Names3 -> 0 .. 255]
  BY DEF Names3
<1> QED
  BY <1>7, <1>8

\* The states of a handler that is at work.
LEMMA AtWork ==
  ASSUME HandlerTypes, NEW h \in L!Handlers
  PROVE  /\ handler[h] = L!Idle <=> handler[h].step = "idle"
         /\ handler[h] # L!Idle => handler[h] \in Working
BY DEF HandlerTypes, Working, L!Idle

\* One handler takes a step.
LEMMA HandlerMoves ==
  ASSUME HandlerTypes, NEW h \in L!Handlers,
         NEW new \in {L!Idle} \cup Working, OnItem(h, new),
         handler' = [handler EXCEPT ![h] = new]
  PROVE  /\ HandlerTypes'
         /\ handler'[h] = new
         /\ \A g \in L!Handlers : g # h => handler'[g] = handler[g]
BY DEF HandlerTypes, OnItem

LEMMA LatencyStart == L!Init => LatencyInv
<1> SUFFICES ASSUME L!Init PROVE LatencyInv
  OBVIOUS
<1>1. HandlerTypes
  BY DEF L!Init, HandlerTypes, OnItem, L!Idle
<1>2. statics \in Latencies
  BY DEF L!Init, Latencies
<1>3. sink \in [Names3 -> 0 .. 255]
  BY DEF L!Init, L!Defaults, Names3
<1>4. Alone /\ ReadTrue /\ Reported
  BY DEF L!Init, Alone, ReadTrue, ReadBy, Reported, L!Idle
<1> QED
  BY <1>1, <1>2, <1>3, <1>4 DEF LatencyInv, ValueTypes, L!Init

LEMMA LatencyStep ==
  ASSUME LatencyInv, L!Next
  PROVE  LatencyInv'
<1> USE DEF LatencyInv
<1>1. ASSUME NEW h \in L!Handlers, L!EventArrives(h) PROVE LatencyInv'
  <2>1. PICK values \in L!Events(h) :
          handler' = [handler EXCEPT ![h] = [step |-> "write", item |-> 1, values |-> values]]
    BY <1>1 DEF L!EventArrives
  <2>2. values \in Latencies
    <3>1. CASE h = "onGameModeEventHandler"
      BY <3>1 DEF L!Events, ValueTypes, Latencies
    <3>2. CASE h # "onGameModeEventHandler"
      BY <3>2 DEF L!Events, ValueTypes, Latencies
    <3> QED
      BY <3>1, <3>2
  <2> DEFINE new == [step |-> "write", item |-> 1, values |-> values]
  <2>3. new \in Working /\ OnItem(h, new)
    BY <2>2 DEF Working, OnItem, L!Carries
  <2>4. new # L!Idle /\ new.step = "write"
    BY DEF L!Idle
  <2> HIDE DEF new
  <2>5. HandlerTypes' /\ handler'[h] = new /\ \A g \in L!Handlers : g # h => handler'[g] = handler[g]
    BY <2>1, <2>3, HandlerMoves DEF new
  <2>6. ValueTypes'
    BY <1>1 DEF L!EventArrives, ValueTypes
  <2>7. ~met' => ~met /\ \A g \in L!Handlers : g # h => handler[g] = L!Idle
    BY <1>1 DEF L!EventArrives
  <2>8. ~met' => (Alone /\ ReadTrue /\ Reported)'
    BY <1>1, <2>4, <2>5, <2>7 DEF L!EventArrives, Alone, ReadTrue, ReadBy, Reported
  <2> QED
    BY <2>5, <2>6, <2>8
<1>2. ASSUME NEW h \in L!Handlers, L!Writes(h) PROVE LatencyInv'
  <2> DEFINE item == handler[h].item
             name == L!Carries(h)[item]
             last == item = Len(L!Carries(h))
             step == IF last THEN "ask" ELSE "write"
             after == IF last THEN 1 ELSE 2
             new == [handler[h] EXCEPT !.step = step, !.item = after]
  <2>1. handler[h] \in Working /\ handler[h] # L!Idle
    BY <1>2, AtWork DEF L!Writes
  <2>2. item \in {1, 2} /\ Len(L!Carries(h)) \in {1, 2} /\ name \in Names3 /\ item <= Len(L!Carries(h))
    BY <1>2 DEF L!Writes, HandlerTypes, OnItem, L!Carries, L!Items, Names3
  <2>3. statics' \in Latencies
    <3>1. statics' = [statics EXCEPT ![name] = handler[h].values[name]]
      BY <1>2 DEF L!Writes
    <3> HIDE DEF name
    <3>2. CASE name = "audioOutputDelay"
      BY <2>1, <3>1, <3>2 DEF ValueTypes, Latencies, Working
    <3>3. CASE name = "videoLatency"
      BY <2>1, <3>1, <3>3 DEF ValueTypes, Latencies, Working
    <3>4. CASE name = "lowLatencyMode"
      BY <2>1, <3>1, <3>4 DEF ValueTypes, Latencies, Working
    <3> QED
      BY <2>2, <3>2, <3>3, <3>4 DEF Names3
  <2>4. handler' = [handler EXCEPT ![h] = new]
    BY <1>2 DEF L!Writes, HandlerTypes
  <2>5. step \in {"ask", "write"} /\ after \in {1, 2} /\ (step = "ask" => after = 1)
    OBVIOUS
  <2>6. last => step = "ask"
    OBVIOUS
  <2> HIDE DEF step, after
  <2>7. new \in Working /\ new.step = step /\ new.item = after /\ new # L!Idle
    <3>1. PICK w \in Working : w = handler[h]
      BY <2>1
    <3>2. PICK s \in {"write", "ask", "read", "invoke"}, i \in 1 .. 3 : s = step /\ i = after
      BY <2>5
    <3>3. [w EXCEPT !.step = s, !.item = i] \in Working
      BY DEF Working
    <3>4. \A u : u = [w EXCEPT !.step = s, !.item = i] => u.step = s /\ u.item = i /\ u # L!Idle
      BY <2>5, <3>2 DEF Working, L!Idle
    <3> QED
      BY <3>1, <3>2, <3>3, <3>4
  <2>8. OnItem(h, new)
    BY <2>2, <2>5, <2>6, <2>7 DEF OnItem
  <2> HIDE DEF new, name
  <2>9. HandlerTypes' /\ handler'[h] = new /\ \A g \in L!Handlers : g # h => handler'[g] = handler[g]
    BY <2>4, <2>7, <2>8, HandlerMoves
  <2>10. ValueTypes'
    BY <1>2, <2>3 DEF L!Writes, ValueTypes
  <2>11. ~met' => (Alone /\ ReadTrue /\ Reported)'
    <3>1. ~met' => ~met
      BY <1>2 DEF L!Writes
    <3>2. ~met => \A g \in L!Handlers : g # h => handler[g] = L!Idle
      BY <2>1 DEF Alone
    <3> QED
      BY <2>5, <2>7, <2>9, <3>1, <3>2 DEF Alone, ReadTrue, ReadBy, Reported, L!Idle
  <2> QED
    BY <2>9, <2>10, <2>11
<1>3. ASSUME NEW h \in L!Handlers, L!Asks(h) PROVE LatencyInv'
  <2> DEFINE new == IF active THEN [handler[h] EXCEPT !.step = "read"] ELSE L!Idle
  <2>1. handler[h] \in Working /\ handler[h] # L!Idle /\ handler[h].item = 1
    BY <1>3, AtWork DEF L!Asks, HandlerTypes, OnItem
  <2>2. new \in {L!Idle} \cup Working /\ OnItem(h, new)
    BY <2>1 DEF Working, OnItem, L!Idle
  <2>3. new = L!Idle \/ (active /\ new.step = "read" /\ new.item = 1)
    BY <2>1 DEF Working
  <2>4. handler' = [handler EXCEPT ![h] = new]
    BY <1>3 DEF L!Asks, HandlerTypes
  <2>5. new = L!Idle => ~active
    BY <2>1 DEF Working, L!Idle
  <2> HIDE DEF new
  <2>6. HandlerTypes' /\ handler'[h] = new /\ \A g \in L!Handlers : g # h => handler'[g] = handler[g]
    BY <2>2, <2>4, HandlerMoves
  <2>7. ValueTypes'
    <3>1. missed' \in BOOLEAN
      BY <1>3 DEF L!Asks
    <3> QED
      BY <1>3, <3>1 DEF L!Asks, ValueTypes
  <2>8. ~met' => ~met /\ \A g \in L!Handlers : g # h => handler[g] = L!Idle
    BY <1>3, <2>1 DEF L!Asks, Alone
  <2>9. ~met' => (Alone /\ ReadTrue)'
    <3>1. ReadBy(handler[h])'
      BY <2>3, <2>6 DEF ReadBy, L!Idle
    <3>2. ~met' => \A g \in L!Handlers : g # h => ReadBy(handler[g])'
      BY <2>6, <2>8 DEF ReadBy, L!Idle
    <3>3. ~met' => ReadTrue'
      BY <3>1, <3>2 DEF ReadTrue
    <3> QED
      BY <2>6, <2>8, <3>3 DEF Alone
  <2>10. Reported'
    BY <1>3, <2>5, <2>6 DEF L!Asks, Reported
  <2> QED
    BY <2>6, <2>7, <2>9, <2>10
<1>4. ASSUME NEW h \in L!Handlers, L!Reads(h) PROVE LatencyInv'
  <2> DEFINE item == handler[h].item
             name == L!Items[item]
             values == [handler[h].values EXCEPT ![name] = statics[name]]
             step == IF item = 3 THEN "invoke" ELSE "read"
             after == IF item = 3 THEN 1 ELSE item + 1
             new == [handler[h] EXCEPT !.values = values, !.step = step, !.item = after]
  <2>1. handler[h] \in Working /\ handler[h] # L!Idle /\ handler[h].step = "read"
    BY <1>4, AtWork DEF L!Reads
  <2>2. item \in 1 .. 3 /\ handler[h].values \in Latencies
    BY <2>1 DEF Working
  <2>3. values \in Latencies /\ \A i \in 1 .. 3 :
          values[L!Items[i]] = IF i = item THEN statics[L!Items[i]] ELSE handler[h].values[L!Items[i]]
    <3>1. CASE item = 1
      BY <2>2, <3>1 DEF ValueTypes, Latencies, L!Items
    <3>2. CASE item = 2
      BY <2>2, <3>2 DEF ValueTypes, Latencies, L!Items
    <3>3. CASE item = 3
      BY <2>2, <3>3 DEF ValueTypes, Latencies, L!Items
    <3> HIDE DEF values
    <3>4. item \in {1, 2, 3}
      BY <2>2
    <3> QED
      BY <3>1, <3>2, <3>3, <3>4
  <2>4. handler' = [handler EXCEPT ![h] = new]
    <3>1. handler' = [handler EXCEPT ![h].values[name] = statics[name], ![h].step = step,
                                     ![h].item = after]
      BY <1>4 DEF L!Reads
    <3> HIDE DEF step, after, name
    <3>2. [handler EXCEPT ![h].values[name] = statics[name], ![h].step = step, ![h].item = after]
            = [handler EXCEPT ![h] = [@ EXCEPT !.values[name] = statics[name], !.step = step,
                                               !.item = after]]
      BY DEF HandlerTypes
    <3>3. [handler[h] EXCEPT !.values[name] = statics[name], !.step = step, !.item = after] = new
      OBVIOUS
    <3> QED
      BY <3>1, <3>2, <3>3 DEF HandlerTypes
  <2> HIDE DEF values
  <2>5. step \in {"invoke", "read"} /\ after \in 1 .. 3
    BY <2>2
  <2>6. /\ new \in Working /\ new # L!Idle /\ new.values = values
        /\ new.step = step /\ new.item = after
    <3>1. PICK w \in Working : w = handler[h]
      BY <2>1
    <3>2. PICK s \in {"write", "ask", "read", "invoke"}, i \in 1 .. 3 : s = step /\ i = after
      BY <2>5
    <3>3. [w EXCEPT !.values = values, !.step = s, !.item = i] \in Working
      BY <2>3 DEF Working
    <3>4. \A u : u = [w EXCEPT !.values = values, !.step = s, !.item = i]
            => u.values = values /\ u.step = s /\ u.item = i /\ u # L!Idle
      BY <2>5, <3>2 DEF Working, L!Idle
    <3> HIDE DEF step, after
    <3> QED
      BY <3>1, <3>2, <3>3, <3>4
  <2> HIDE DEF new
  <2>7. OnItem(h, new) /\ (step = "invoke" => item = 3) /\ (step = "read" => after = item + 1)
    BY <2>2, <2>6 DEF OnItem
  <2> HIDE DEF step, after
  <2>8. HandlerTypes' /\ handler'[h] = new /\ \A g \in L!Handlers : g # h => handler'[g] = handler[g]
    BY <2>4, <2>6, <2>7, HandlerMoves
  <2>9. ValueTypes'
    BY <1>4 DEF L!Reads, ValueTypes
  <2>10. ~met' => (Alone /\ ReadTrue /\ Reported)'
    <3>1. ~met' => ~met
      BY <1>4 DEF L!Reads
    <3>2. ~met => \A g \in L!Handlers : g # h => handler[g] = L!Idle
      BY <2>1 DEF Alone
    <3>3. ~met => \A i \in 1 .. 3 : i < item => handler[h].values[L!Items[i]] = statics[L!Items[i]]
      BY <2>1 DEF ReadTrue, ReadBy
    <3>4. ~met => \A i \in 1 .. 3 : new.step = "invoke" \/ (new.step = "read" /\ i < new.item)
            => new.values[L!Items[i]] = statics[L!Items[i]]
      BY <2>2, <2>3, <2>6, <2>7, <3>3
    <3>5. ~met => (ReadBy(handler[h]))'
      BY <1>4, <2>8, <3>4 DEF L!Reads, ReadBy
    <3>6. ~met' => ReadTrue'
      BY <2>8, <3>1, <3>2, <3>5 DEF ReadTrue, ReadBy, L!Idle
    <3> QED
      BY <2>6, <2>8, <3>1, <3>2, <3>6 DEF Alone, Reported
  <2> QED
    BY <2>8, <2>9, <2>10
<1>5. ASSUME NEW h \in L!Handlers, L!Invokes(h) PROVE LatencyInv'
  <2>1. handler[h] \in Working /\ handler[h] # L!Idle /\ handler[h].step = "invoke"
    BY <1>5, AtWork DEF L!Invokes
  <2>2. sink' = IF active THEN Report(handler[h].values) ELSE sink
    BY <1>5 DEF L!Invokes, L!updateCurrentLatency, Report
  <2>3. OnItem(h, L!Idle) /\ handler' = [handler EXCEPT ![h] = L!Idle]
    BY <1>5 DEF L!Invokes, OnItem, L!Idle
  <2>4. /\ HandlerTypes' /\ handler'[h] = L!Idle
        /\ \A g \in L!Handlers : g # h => handler'[g] = handler[g]
    BY <2>3, HandlerMoves
  <2>5. ValueTypes'
    <3>1. handler[h].values \in Latencies
      BY <2>1 DEF Working
    <3>2. missed' \in BOOLEAN
      BY <1>5 DEF L!Invokes
    <3> QED
      BY <1>5, <2>2, <3>1, <3>2, ReportType DEF L!Invokes, ValueTypes
  <2>6. ~met => Report(handler[h].values) = Report(statics)
    <3> SUFFICES ASSUME ~met PROVE Report(handler[h].values) = Report(statics)
      OBVIOUS
    <3>1. \A i \in 1 .. 3 : handler[h].values[L!Items[i]] = statics[L!Items[i]]
      BY <2>1 DEF ReadTrue, ReadBy
    <3>2. \A name \in Names3 : handler[h].values[name] = statics[name]
      BY <3>1 DEF L!Items, Names3
    <3> QED
      BY <3>2 DEF Report, Names3
  <2>7. ~met' => ~met /\ \A g \in L!Handlers : g # h => handler[g] = L!Idle
    BY <1>5, <2>1 DEF L!Invokes, Alone
  <2>8. ~met' => (Alone /\ ReadTrue)'
    BY <2>4, <2>7 DEF Alone, ReadTrue, ReadBy, L!Idle
  <2>9. ~met' => Reported'
    <3> HIDE DEF LatencyInv
    <3> QED
      BY <1>5, <2>2, <2>6, <2>7 DEF L!Invokes, Reported, Report
  <2> QED
    BY <2>4, <2>5, <2>8, <2>9
<1>6. ASSUME L!SinkStarts PROVE LatencyInv'
  <2>1. sink' \in [Names3 -> 0 .. 255]
    BY <1>6 DEF L!SinkStarts, L!Defaults, Names3
  <2> QED
    BY <1>6, <2>1 DEF L!SinkStarts, HandlerTypes, ValueTypes, Alone, ReadTrue, ReadBy, Reported
<1>7. ASSUME L!SinkStops PROVE LatencyInv'
  BY <1>7 DEF L!SinkStops, HandlerTypes, ValueTypes, Alone, ReadTrue, ReadBy, Reported
<1> QED
  BY <1>1, <1>2, <1>3, <1>4, <1>5, <1>6, <1>7 DEF L!Next

\* A byte of steps tells a latency below 510 ms to the step.
LEMMA StepsTell ==
  ASSUME NEW ms \in Nat, ms < 510
  PROVE  ms - 2 * (L!Steps(ms) - 1) \in {0, 1}
BY DEF L!Steps

\* The low latency bit is above the two of the compensation.
LEMMA FlagTells == \A mode \in 0 .. 1 : L!LatencyFlags(mode) \div 4 = mode
BY DEF L!LatencyFlags, L!Compensated

LEMMA LatencyInvariant == PartsSpec => [](part = "latency" => LatencyInv)
<1> DEFINE Inv == part = "latency" => LatencyInv
<1>1. PartsInit => Inv
  BY PartsStart, LatencyStart
<1>2. Inv /\ [PartsNext]_AllVars => Inv'
  <2> SUFFICES ASSUME Inv, [PartsNext]_AllVars, part' = "latency" PROVE LatencyInv'
    OBVIOUS
  <2>1. part = "latency" /\ (L!Next \/ UNCHANGED LatencyVars)
    BY PartsStep
  <2>2. CASE UNCHANGED LatencyVars
    BY <2>1, <2>2 DEF LatencyVars, LatencyInv, HandlerTypes, ValueTypes, Alone, ReadTrue, ReadBy, Reported
  <2> QED
    BY <2>1, <2>2, LatencyStep
<1> QED
  BY <1>1, <1>2, PTL DEF PartsSpec, AllVars

\* When no report is under way, an activated sink broadcasts what HdmiInput holds
\* (reportLatencyInfoToHdmiCecSink, setLatencyInfo), unless handlers met or the
\* sink missed the last report.
THEOREM LatencyAgreement == PartsSpec => []LatencyAgrees
<1>1. (part = "latency" => LatencyInv) => LatencyAgrees
  <2> SUFFICES ASSUME LatencyInv, \A h \in L!Handlers : handler[h] = L!Idle,
                      active, ~met, ~missed
               PROVE  /\ \A name \in {"audioOutputDelay", "videoLatency"} :
                           statics[name] < 510 => statics[name] - 2 * (sink[name] - 1) \in {0, 1}
                      /\ sink.lowLatencyMode \div 4 = statics.lowLatencyMode
    BY DEF LatencyAgrees, L!LatencyAgrees
  <2>1. sink = Report(statics)
    BY DEF LatencyInv, Reported
  <2>2. /\ statics.audioOutputDelay \in Nat /\ statics.videoLatency \in Nat
        /\ statics.lowLatencyMode \in 0 .. 1
    BY LatencyOf DEF LatencyInv, ValueTypes
  <2>3. /\ sink["audioOutputDelay"] = L!Steps(statics["audioOutputDelay"])
        /\ sink["videoLatency"] = L!Steps(statics["videoLatency"])
        /\ sink.lowLatencyMode = L!LatencyFlags(statics.lowLatencyMode)
    BY <2>1 DEF Report
  <2> QED
    BY <2>2, <2>3, StepsTell, FlagTells
<1> QED
  BY <1>1, LatencyInvariant, PTL
-----------------------------------------------------------------------------
(***************************************************************************)
(* HdcpProfile.                                                            *)
(***************************************************************************)

Readings == [connected : BOOLEAN, hdcp : {"UNPOWERED", "UNAUTHENTICATED", "AUTHENTICATED"},
             protected : BOOLEAN, v2 : BOOLEAN]
Statuses == {H!Status(read) : read \in Readings}

PlugTypes ==
  /\ port \in H!PortStates /\ port \in Readings
  /\ portEvents \in Seq({"HDCP_STATUS", "HDMI_HOTPLUG"})
  /\ portHandler \in {H!Idle} \cup [step : 1 .. 4, read : Readings]

JobTypes ==
  /\ jobs \in Seq(Statuses)
  /\ held \in [Workers -> {H!NoJob} \cup [taken : {TRUE}, status : Statuses, after : SUBSET Workers]]
  /\ \A w \in Workers : held[w].taken => w \notin held[w].after
  /\ registered \subseteq Clients
  /\ heard \in [Clients -> Statuses]

\* What has been read before step k is so, and the driver was asked for what comes
\* after the second read of a connected port only.
ReadBefore(k, read) ==
  /\ k > 1 => read.connected = port.connected
  /\ k > 2 => read.connected /\ read.hdcp = port.hdcp
  /\ k > 3 => read.protected = port.protected
  /\ k <= 4 => ~read.v2

Taken == {w \in Workers : held[w].taken}

\* Of the jobs that workers hold, the one taken last has the status.
LatestHeld ==
  \E w \in Taken : held[w].status = H!GetHDCPStatus /\ Taken \ {w} \subseteq held[w].after

\* The last thing on its way to the clients, or heard by them, is the port's status.
LastOnItsWay ==
  /\ jobs # <<>> => jobs[Len(jobs)] = H!GetHDCPStatus
  /\ jobs = <<>> /\ Taken # {} => LatestHeld
  /\ jobs = <<>> /\ Taken = {} => \A c \in registered : heard[c] = H!GetHDCPStatus

\* A change of the port is followed by an event, and once the last has arrived, what
\* is read and what was submitted tell the port as it is.
Followed ==
  portEvents = <<>> =>
    /\ portHandler # H!Idle => ReadBefore(portHandler.step, portHandler.read)
    /\ portHandler = H!Idle => LastOnItsWay

HdcpInv == PlugTypes /\ JobTypes /\ (~outdated /\ ~dropped => Followed)

LEMMA StatusTypes ==
  /\ \A read \in Readings : H!Status(read) \in Statuses /\ H!Unplugged(read) \in Readings
  /\ H!PortStates \subseteq Readings
<1>1. \A read \in Readings : H!Unplugged(read) \in Readings
  BY DEF Readings, H!Unplugged
<1>2. H!PortStates \subseteq Readings
  BY DEF Readings, H!PortStates
<1> QED
  BY <1>1, <1>2 DEF Statuses

LEMMA AnswerType == port \in Readings => H!GetHDCPStatus \in Statuses
BY StatusTypes DEF H!GetHDCPStatus

LEMMA HdcpStart == H!Init => HdcpInv
<1> SUFFICES ASSUME H!Init PROVE HdcpInv
  OBVIOUS
<1>1. port \in H!PortStates
  BY DEF H!Init, H!PortStates
<1>2. port \in Readings
  BY <1>1, StatusTypes
<1>3. PlugTypes
  BY <1>1, <1>2 DEF H!Init, PlugTypes
<1>4. JobTypes
  BY <1>2, AnswerType DEF H!Init, JobTypes, H!NoJob
<1>5. Taken = {}
  BY DEF H!Init, Taken, H!NoJob
<1>6. Followed
  BY <1>5 DEF H!Init, Followed, LastOnItsWay
<1> QED
  BY <1>3, <1>4, <1>6 DEF HdcpInv

\* The report of complete reads, or of those of a port that is not connected.
LEMMA ReportIsAnswer ==
  ASSUME port \in H!PortStates, port \in Readings, NEW read \in Readings,
         read.connected = port.connected, read.hdcp = port.hdcp,
         IF read.connected THEN read.protected = port.protected /\ read.v2 = port.v2 ELSE ~read.v2
  PROVE  H!Status(IF read.connected THEN read ELSE H!Unplugged(read)) = H!GetHDCPStatus
<1>1. CASE read.connected
  BY <1>1 DEF H!GetHDCPStatus, H!Status, Readings
<1>2. CASE ~read.connected
  <2>1. ~port.connected /\ port.v2 = FALSE /\ read.v2 = FALSE
    BY <1>2 DEF H!PortStates, Readings
  <2> QED
    BY <1>2, <2>1 DEF H!GetHDCPStatus, H!Status, H!Unplugged, Readings
<1> QED
  BY <1>1, <1>2

\* One value more.
LEMMA OneMoreRead ==
  ASSUME PlugTypes, NEW k \in 1 .. 4, NEW read \in Readings, NEW more,
         more = [read EXCEPT ![H!Reads[k]] = port[H!Reads[k]]]
  PROVE  /\ more \in Readings
         /\ ReadBefore(k, read) /\ ~H!LastRead(k, more.connected) => ReadBefore(k + 1, more)
         /\ ReadBefore(k, read) /\ H!LastRead(k, more.connected) =>
              H!Status(IF more.connected THEN more ELSE H!Unplugged(more)) = H!GetHDCPStatus
<1>1. CASE k = 1
  BY <1>1 DEF PlugTypes, Readings, H!Reads, H!LastRead, ReadBefore
<1>2. CASE k = 2
  <2>1. more = [read EXCEPT !.hdcp = port.hdcp]
    BY <1>2 DEF H!Reads
  <2>2. more \in Readings /\ (ReadBefore(k, read) /\ ~H!LastRead(k, more.connected) => ReadBefore(k + 1, more))
    BY <1>2, <2>1 DEF PlugTypes, Readings, H!LastRead, ReadBefore, H!Reads
  <2>3. ReadBefore(k, read) /\ H!LastRead(k, more.connected) =>
          /\ more.connected = port.connected /\ more.hdcp = port.hdcp
          /\ ~more.connected /\ ~more.v2
    BY <1>2, <2>1 DEF PlugTypes, Readings, H!LastRead, ReadBefore, H!Reads
  <2> QED
    BY <2>2, <2>3, ReportIsAnswer DEF PlugTypes
<1>3. CASE k = 3
  BY <1>3 DEF PlugTypes, Readings, H!Reads, H!LastRead, ReadBefore
<1>4. CASE k = 4
  <2>1. more = [read EXCEPT !.v2 = port.v2]
    BY <1>4 DEF H!Reads
  <2>2. more \in Readings /\ H!LastRead(k, more.connected)
    BY <1>4, <2>1 DEF PlugTypes, Readings, H!LastRead, H!Reads
  <2>3. ReadBefore(k, read) =>
          /\ more.connected = port.connected /\ more.hdcp = port.hdcp
          /\ more.connected /\ more.protected = port.protected /\ more.v2 = port.v2
    BY <1>4, <2>1 DEF PlugTypes, Readings, ReadBefore
  <2> QED
    BY <2>2, <2>3, ReportIsAnswer DEF PlugTypes
<1> QED
  BY <1>1, <1>2, <1>3, <1>4

\* A new job is the last.
LEMMA JobJoins ==
  ASSUME JobTypes, NEW status \in Statuses, jobs' = Append(jobs, status)
  PROVE  jobs' \in Seq(Statuses) /\ jobs' # <<>> /\ jobs'[Len(jobs')] = status
BY DEF JobTypes

\* What a worker holds.
LEMMA JobsHeld ==
  ASSUME JobTypes, NEW w \in Workers
  PROVE  /\ ~H!NoJob.taken
         /\ held[w].taken => held[w] \in [taken : {TRUE}, status : Statuses, after : SUBSET Workers]
<1>1. H!NoJob.taken = FALSE
  BY DEF H!NoJob
<1> QED
  BY <1>1 DEF JobTypes

LEMMA HdcpStep ==
  ASSUME HdcpInv, H!Next
  PROVE  HdcpInv'
<1> USE DEF HdcpInv
<1>1. ASSUME H!PortChanges PROVE HdcpInv'
  <2>1. port' \in H!PortStates /\ port' \in Readings
    BY <1>1, StatusTypes DEF H!PortChanges
  <2>2. portEvents' \in Seq({"HDCP_STATUS", "HDMI_HOTPLUG"}) /\ portEvents' # <<>>
    BY <1>1 DEF H!PortChanges, PlugTypes
  <2>3. PlugTypes'
    BY <1>1, <2>1, <2>2 DEF H!PortChanges, PlugTypes
  <2>4. JobTypes'
    BY <1>1 DEF H!PortChanges, JobTypes
  <2> QED
    BY <2>2, <2>3, <2>4 DEF Followed
<1>2. ASSUME H!EventArrives PROVE HdcpInv'
  <2>1. portEvents' \in Seq({"HDCP_STATUS", "HDMI_HOTPLUG"})
    BY <1>2 DEF H!EventArrives, PlugTypes
  <2>2. JobTypes'
    BY <1>2 DEF H!EventArrives, JobTypes
  <2>3. CASE dropped'
    <3>1. portHandler' \in {H!Idle} \cup [step : 1 .. 4, read : Readings]
      <4>1. [step |-> 1, read |-> H!Unread] \in [step : 1 .. 4, read : Readings]
        BY DEF H!Unread, Readings
      <4> QED
        BY <1>2, <4>1 DEF H!EventArrives, PlugTypes
    <3> QED
      BY <1>2, <2>1, <2>2, <2>3, <3>1 DEF H!EventArrives, PlugTypes
  <2>4. CASE ~dropped'
    <3>1. portHandler' = [step |-> 1, read |-> H!Unread] /\ H!Unread \in Readings /\ ~H!Unread.v2
      BY <1>2, <2>4 DEF H!EventArrives, H!Unread, Readings
    <3>2. portHandler' # H!Idle /\ portHandler'.step = 1 /\ portHandler'.read = H!Unread
      BY <3>1 DEF H!Idle
    <3>3. PlugTypes'
      BY <1>2, <2>1, <3>1 DEF H!EventArrives, PlugTypes
    <3> QED
      BY <2>2, <3>1, <3>2, <3>3 DEF Followed, ReadBefore
  <2> QED
    BY <2>3, <2>4
<1>3. ASSUME H!ReadsNext PROVE HdcpInv'
  <2> DEFINE k == portHandler.step
             more == [portHandler.read EXCEPT ![H!Reads[k]] = port[H!Reads[k]]]
             status == H!Status(IF more.connected THEN more ELSE H!Unplugged(more))
  <2>1. k \in 1 .. 4 /\ portHandler.read \in Readings
    BY <1>3 DEF H!ReadsNext, PlugTypes
  <2>2. /\ more \in Readings
        /\ ReadBefore(k, portHandler.read) /\ ~H!LastRead(k, more.connected) => ReadBefore(k + 1, more)
        /\ ReadBefore(k, portHandler.read) /\ H!LastRead(k, more.connected) => status = H!GetHDCPStatus
    BY <2>1, OneMoreRead
  <2>3. IF H!LastRead(k, more.connected)
        THEN jobs' = Append(jobs, status) /\ portHandler' = H!Idle
        ELSE portHandler' = [step |-> k + 1, read |-> more] /\ jobs' = jobs
    BY <1>3 DEF H!ReadsNext
  <2>4. status \in Statuses
    BY <2>2, StatusTypes
  <2>5. H!LastRead(k, more.connected) \/ k + 1 \in 1 .. 4
    BY <2>1 DEF H!LastRead, H!Reads
  <2> HIDE DEF more, status, k
  <2>6. portHandler # H!Idle
    BY <1>3 DEF H!ReadsNext
  <2>7. CASE H!LastRead(k, more.connected)
    <3>1. jobs' \in Seq(Statuses) /\ jobs' # <<>> /\ jobs'[Len(jobs')] = status
      BY <2>3, <2>4, <2>7, JobJoins
    <3>2. PlugTypes' /\ JobTypes'
      BY <1>3, <2>3, <2>7, <3>1 DEF H!ReadsNext, PlugTypes, JobTypes
    <3>3. H!GetHDCPStatus' = H!GetHDCPStatus
      BY <1>3 DEF H!ReadsNext, H!GetHDCPStatus
    <3>4. ~outdated /\ ~dropped /\ portEvents = <<>> => status = H!GetHDCPStatus
      BY <2>2, <2>6, <2>7 DEF Followed, k
    <3> QED
      BY <1>3, <2>3, <2>7, <3>1, <3>2, <3>3, <3>4 DEF H!ReadsNext, Followed, LastOnItsWay
  <2>8. CASE ~H!LastRead(k, more.connected)
    <3>1. portHandler' = [step |-> k + 1, read |-> more] /\ jobs' = jobs
      BY <2>3, <2>8
    <3>2. portHandler' # H!Idle /\ portHandler'.step = k + 1 /\ portHandler'.read = more
      BY <3>1 DEF H!Idle
    <3>3. PlugTypes' /\ JobTypes'
      BY <1>3, <2>2, <2>5, <2>8, <3>1 DEF H!ReadsNext, PlugTypes, JobTypes
    <3>4. ~outdated /\ ~dropped /\ portEvents = <<>> => ReadBefore(k + 1, more)
      BY <2>2, <2>6, <2>8 DEF Followed, k
    <3>5. ~outdated' /\ ~dropped' /\ portEvents' = <<>> =>
            ReadBefore(portHandler.step, portHandler.read)'
      BY <1>3, <3>2, <3>4 DEF H!ReadsNext, ReadBefore
    <3> QED
      BY <3>2, <3>3, <3>5 DEF Followed
  <2> QED
    BY <2>7, <2>8
<1>4. ASSUME H!ReadThrows PROVE HdcpInv'
  <2>1. H!Status(portHandler.read) \in Statuses
    BY <1>4, StatusTypes DEF H!ReadThrows, PlugTypes
  <2>2. jobs' \in Seq(Statuses)
    BY <1>4, <2>1, JobJoins DEF H!ReadThrows
  <2> QED
    BY <1>4, <2>2 DEF H!ReadThrows, PlugTypes, JobTypes
<1>5. ASSUME NEW w \in Workers, H!WorkerTakes(w) PROVE HdcpInv'
  <2> DEFINE job == [taken |-> TRUE, status |-> Head(jobs), after |-> Taken]
  <2>1. held' = [held EXCEPT ![w] = job] /\ w \notin Taken /\ jobs # <<>> /\ jobs' = Tail(jobs)
    BY <1>5 DEF H!WorkerTakes, Taken
  <2>2. Head(jobs) \in Statuses /\ jobs' \in Seq(Statuses)
    BY <2>1 DEF JobTypes
  <2>3. job \in [taken : {TRUE}, status : Statuses, after : SUBSET Workers]
    BY <2>2 DEF Taken
  <2>4. job.taken /\ job.status = Head(jobs) /\ job.after = Taken
    OBVIOUS
  <2> HIDE DEF job
  <2>5. JobTypes'
    <3>1. /\ held' \in [Workers -> {H!NoJob}
                         \cup [taken : {TRUE}, status : Statuses, after : SUBSET Workers]]
          /\ \A x \in Workers : held'[x] = IF x = w THEN job ELSE held[x]
      BY <2>1, <2>3 DEF JobTypes
    <3>2. w \notin job.after
      BY <2>1 DEF job
    <3>3. \A x \in Workers : held'[x].taken => x \notin held'[x].after
      BY <3>1, <3>2 DEF JobTypes
    <3>4. UNCHANGED <<registered, heard>>
      BY <1>5 DEF H!WorkerTakes
    <3> QED
      BY <2>2, <3>1, <3>3, <3>4 DEF JobTypes
  <2>6. PlugTypes'
    BY <1>5 DEF H!WorkerTakes, PlugTypes
  <2>7. Taken' = Taken \cup {w} /\ held'[w] = job
    BY <2>1, <2>4 DEF Taken, JobTypes
  <2>8. H!GetHDCPStatus' = H!GetHDCPStatus
    BY <1>5 DEF H!WorkerTakes, H!GetHDCPStatus
  <2>9. ASSUME LastOnItsWay PROVE LastOnItsWay'
    <3>1. jobs' # <<>> => jobs'[Len(jobs')] = jobs[Len(jobs)]
      BY <2>1 DEF JobTypes
    <3>2. jobs' = <<>> => Head(jobs) = jobs[Len(jobs)]
      <4>1. Len(Tail(jobs)) = Len(jobs) - 1 /\ Head(jobs) = jobs[1] /\ Len(<<>>) = 0
        BY <2>1 DEF JobTypes
      <4>2. Len(jobs) \in Nat
        BY DEF JobTypes
      <4>3. ASSUME Tail(jobs) = <<>> PROVE Len(jobs) = 1
        <5>1. Len(Tail(jobs)) = 0
          BY <4>1, <4>3
        <5> QED
          BY <4>1, <4>2, <5>1
      <4> QED
        BY <2>1, <4>1, <4>3
    <3>3. jobs' = <<>> => LatestHeld'
      BY <2>1, <2>4, <2>7, <2>8, <2>9, <3>2 DEF LastOnItsWay, LatestHeld
    <3> QED
      BY <2>1, <2>7, <2>8, <2>9, <3>1, <3>3 DEF LastOnItsWay
  <2>10. ~outdated' /\ ~dropped' => Followed'
    BY <1>5, <2>9 DEF H!WorkerTakes, Followed, ReadBefore
  <2> QED
    BY <2>5, <2>6, <2>10
<1>6. ASSUME NEW w \in Workers, H!Dispatch(w) PROVE HdcpInv'
  <2>1. w \in Taken /\ held[w].status \in Statuses
    BY <1>6, JobsHeld DEF H!Dispatch, Taken
  <2>2. \A v \in Workers : held'[v] = IF v = w \/ ~held[v].taken THEN H!NoJob
                                      ELSE [held[v] EXCEPT !.after = @ \ {w}]
    BY <1>6 DEF H!Dispatch
  <2>3. \A v \in Workers : held[v].taken => held[v] \in [taken : {TRUE}, status : Statuses, after : SUBSET Workers]
    BY JobsHeld
  <2>4. ASSUME NEW v \in Workers, v # w, held[v].taken
        PROVE  /\ held'[v] \in [taken : {TRUE}, status : Statuses, after : SUBSET Workers]
               /\ held'[v].taken /\ held'[v].status = held[v].status
               /\ held'[v].after = held[v].after \ {w}
    <3>1. held'[v] = [held[v] EXCEPT !.after = @ \ {w}]
      BY <2>2, <2>4
    <3> QED
      BY <2>3, <2>4, <3>1
  <2>5. ASSUME NEW v \in Workers, v = w \/ ~held[v].taken
        PROVE  held'[v] = H!NoJob /\ ~held'[v].taken
    BY <2>2, <2>5, JobsHeld
  <2>6. Taken' = Taken \ {w}
    BY <2>4, <2>5 DEF Taken
  <2>7. held' \in [Workers -> {H!NoJob} \cup [taken : {TRUE}, status : Statuses, after : SUBSET Workers]]
    <3>1. held' = [v \in Workers |-> held'[v]]
      BY <1>6 DEF H!Dispatch
    <3>2. \A v \in Workers : held'[v] \in
            {H!NoJob} \cup [taken : {TRUE}, status : Statuses, after : SUBSET Workers]
      BY <2>4, <2>5
    <3> QED
      BY <3>1, <3>2
  <2>8. \A v \in Workers : held'[v].taken => v \notin held'[v].after
    <3> TAKE v \in Workers
    <3>1. CASE v # w /\ held[v].taken
      BY <2>4, <3>1 DEF JobTypes
    <3>2. CASE v = w \/ ~held[v].taken
      BY <2>5, <3>2
    <3> QED
      BY <3>1, <3>2
  <2>9. heard' \in [Clients -> Statuses]
    BY <1>6, <2>1 DEF H!Dispatch, JobTypes
  <2>10. JobTypes' /\ PlugTypes'
    BY <1>6, <2>7, <2>8, <2>9 DEF H!Dispatch, JobTypes, PlugTypes
  <2>11. H!GetHDCPStatus' = H!GetHDCPStatus
    BY <1>6 DEF H!Dispatch, H!GetHDCPStatus
  <2>12. ~outdated' => ~outdated /\ held[w].after = {}
    BY <1>6 DEF H!Dispatch
  <2>13. ASSUME LastOnItsWay, held[w].after = {} PROVE LastOnItsWay'
    <3>1. jobs' = jobs /\ registered' = registered
      BY <1>6 DEF H!Dispatch
    <3>2. ASSUME jobs = <<>>, Taken' # {} PROVE LatestHeld'
      <4>1. PICK u \in Taken : held[u].status = H!GetHDCPStatus /\ Taken \ {u} \subseteq held[u].after
        BY <2>1, <2>13, <3>2 DEF LastOnItsWay, LatestHeld
      <4>2. u # w
        BY <2>6, <2>13, <3>2, <4>1
      <4>3. u \in Workers /\ held[u].taken
        BY DEF Taken
      <4> QED
        <5>1. held'[u].status = held[u].status /\ held'[u].after = held[u].after \ {w}
          BY <2>4, <4>2, <4>3
        <5>2. u \in Taken' /\ Taken' \ {u} \subseteq held'[u].after
          BY <2>6, <4>1, <4>2, <5>1
        <5>3. held'[u].status = H!GetHDCPStatus'
          BY <2>11, <4>1, <5>1
        <5> QED
          BY <5>2, <5>3 DEF LatestHeld
    <3>3. ASSUME jobs = <<>>, Taken' = {}, NEW c \in registered
          PROVE  heard'[c] = H!GetHDCPStatus'
      <4>1. held[w].status = H!GetHDCPStatus
        BY <2>1, <2>6, <2>13, <3>3 DEF LastOnItsWay, LatestHeld
      <4> QED
        BY <1>6, <2>11, <4>1 DEF H!Dispatch, JobTypes
    <3> QED
      BY <2>11, <2>13, <3>1, <3>2, <3>3 DEF LastOnItsWay
  <2>14. ~outdated' /\ ~dropped' => Followed'
    BY <1>6, <2>12, <2>13 DEF H!Dispatch, Followed, ReadBefore
  <2> QED
    BY <2>10, <2>14
<1>7. ASSUME NEW c \in Clients, H!Register(c) PROVE HdcpInv'
  <2>1. heard' \in [Clients -> Statuses]
    BY <1>7, AnswerType DEF H!Register, JobTypes, PlugTypes
  <2>2. JobTypes' /\ PlugTypes'
    BY <1>7, <2>1 DEF H!Register, JobTypes, PlugTypes
  <2>3. H!GetHDCPStatus' = H!GetHDCPStatus /\ Taken' = Taken
    BY <1>7 DEF H!Register, H!GetHDCPStatus, Taken
  <2>4. LastOnItsWay => LastOnItsWay'
    BY <1>7, <2>3 DEF H!Register, LastOnItsWay, LatestHeld, JobTypes
  <2> QED
    BY <1>7, <2>2, <2>4 DEF H!Register, Followed, ReadBefore
<1>8. ASSUME NEW c \in Clients, H!Unregister(c) PROVE HdcpInv'
  <2>1. JobTypes' /\ PlugTypes'
    BY <1>8 DEF H!Unregister, JobTypes, PlugTypes
  <2>2. H!GetHDCPStatus' = H!GetHDCPStatus /\ Taken' = Taken
    BY <1>8 DEF H!Unregister, H!GetHDCPStatus, Taken
  <2>3. LastOnItsWay => LastOnItsWay'
    BY <1>8, <2>2 DEF H!Unregister, LastOnItsWay, LatestHeld
  <2> QED
    BY <1>8, <2>1, <2>3 DEF H!Unregister, Followed, ReadBefore
<1> QED
  BY <1>1, <1>2, <1>3, <1>4, <1>5, <1>6, <1>7, <1>8 DEF H!Next

LEMMA HdcpInvariant == PartsSpec => [](part = "hdcp" => HdcpInv)
<1> DEFINE Inv == part = "hdcp" => HdcpInv
<1>1. PartsInit => Inv
  BY PartsStart, HdcpStart
<1>2. Inv /\ [PartsNext]_AllVars => Inv'
  <2> SUFFICES ASSUME Inv, [PartsNext]_AllVars, part' = "hdcp" PROVE HdcpInv'
    OBVIOUS
  <2>1. part = "hdcp" /\ (H!Next \/ UNCHANGED HdcpVars)
    BY PartsStep
  <2>2. CASE UNCHANGED HdcpVars
    BY <2>1, <2>2 DEF HdcpVars, HdcpInv, PlugTypes, JobTypes, Followed, ReadBefore, LastOnItsWay,
                      LatestHeld, Taken, H!GetHDCPStatus
  <2> QED
    BY <2>1, <2>2, HdcpStep
<1> QED
  BY <1>1, <1>2, PTL DEF PartsSpec, AllVars

\* Once nothing is under way, a registered client has last heard what GetHDCPStatus
\* answers (dsHdmiEventHandler, Job::Dispatch, Register), however the port changed
\* between the reads and however registrations and jobs were interleaved, unless two
\* workers delivered in the other order or the driver failed.
THEOREM HdcpAgreement == PartsSpec => []HdcpLastWord
<1>1. (part = "hdcp" => HdcpInv) => HdcpLastWord
  BY DEF HdcpLastWord, H!HdcpLastWord, HdcpInv, Followed, LastOnItsWay, Taken
<1> QED
  BY <1>1, HdcpInvariant, PTL
-----------------------------------------------------------------------------
(***************************************************************************)
(* Inputs: the calls.                                                      *)
(***************************************************************************)

StartCalls == [op : {"start"}, plugin : N!Plugins, port : N!InputPorts, plane : Planes,
               step : {"plane", "select"}, alone : BOOLEAN]
StopCalls  == [op : {"stop"}, plugin : N!Plugins, type : {"HDMI", "COMPOSITE"},
               step : {"primary", "input", "lower", "select"}, alone : BOOLEAN]
MixCalls   == [op : {"mix"}, plugin : N!Plugins, primary : MixerLevels, input : MixerLevels,
               step : {"primary", "input", "raise"}, alone : BOOLEAN]
Calls == StartCalls \cup StopCalls \cup MixCalls

\* A plane that does not exist is not selected.
CallTypes ==
  /\ request \in [Callers -> {N!Idle} \cup Calls]
  /\ \A c \in Callers : request[c].op = "start" /\ request[c].step = "select"
       => request[c].plane \in {0, 1}

\* The same call, at the same step.
Same(r, s) ==
  /\ r = N!Idle <=> s = N!Idle
  /\ r.op = s.op
  /\ s # N!Idle => /\ r.plugin = s.plugin /\ r.step = s.step
                   /\ s.op = "start" => r.port = s.port /\ r.plane = s.plane
                   /\ s.op = "stop"  => r.type = s.type
                   /\ s.op = "mix"   => r.primary = s.primary /\ r.input = s.input

LEMMA CallOps ==
  ASSUME NEW r \in {N!Idle} \cup Calls
  PROVE  /\ r = N!Idle <=> r.op = "none"
         /\ r # N!Idle => r.plugin \in N!Plugins /\ r.alone \in BOOLEAN
         /\ r.op = "start" <=> r \in StartCalls
         /\ r.op = "stop"  <=> r \in StopCalls
         /\ r.op = "mix"   <=> r \in MixCalls
BY DEF Calls, StartCalls, StopCalls, MixCalls, N!Idle

\* Whether it runs alone is all that changes of a call at another's beginning.
LEMMA AloneChanges ==
  ASSUME NEW r \in Calls, NEW b \in BOOLEAN, NEW u, u = [r EXCEPT !.alone = b]
  PROVE  u \in Calls /\ Same(u, r) /\ u.alone = b
<1>1. CASE r \in StartCalls
  <2>1. u \in StartCalls /\ u.alone = b
    BY <1>1 DEF StartCalls
  <2> QED
    BY <1>1, <2>1 DEF Calls, StartCalls, Same, N!Idle
<1>2. CASE r \in StopCalls
  <2>1. u \in StopCalls /\ u.alone = b
    BY <1>2 DEF StopCalls
  <2> QED
    BY <1>2, <2>1 DEF Calls, StopCalls, Same, N!Idle
<1>3. CASE r \in MixCalls
  <2>1. u \in MixCalls /\ u.alone = b
    BY <1>3 DEF MixCalls
  <2> QED
    BY <1>3, <2>1 DEF Calls, MixCalls, Same, N!Idle
<1> QED
  BY <1>1, <1>2, <1>3 DEF Calls

LEMMA CallBegins ==
  ASSUME CallTypes, NEW c \in Callers, NEW asked \in Calls, N!Begin(c, asked),
         asked.op = "start" => asked.step = "plane"
  PROVE  /\ CallTypes' /\ request[c] = N!Idle
         /\ Same(request'[c], asked)
         /\ request'[c].alone => N!Busy(asked.plugin) = {}
         /\ \A d \in Callers \ {c} : Same(request'[d], request[d])
         /\ \A d \in Callers \ {c} : request[d] # N!Idle /\ request'[d].alone =>
              request[d].alone /\ d \notin N!Busy(asked.plugin)
<1> DEFINE busy == N!Busy(asked.plugin)
<1>1. PICK b \in BOOLEAN : b = (busy = {})
  OBVIOUS
<1>2. /\ request[c] = N!Idle
      /\ request' = [other \in Callers |->
           IF other = c THEN [asked EXCEPT !.alone = busy = {}]
           ELSE IF other \in busy THEN [request[other] EXCEPT !.alone = FALSE]
           ELSE request[other]]
  BY DEF N!Begin
<1>3. \A d \in busy : d \in Callers /\ request[d] \in Calls
  BY DEF N!Busy, CallTypes
<1> HIDE DEF busy
<1>4. request'[c] = [asked EXCEPT !.alone = b]
  BY <1>1, <1>2
<1>5. request'[c] \in Calls /\ Same(request'[c], asked) /\ request'[c].alone = b
  BY <1>4, AloneChanges
<1>6. ASSUME NEW d \in busy, d # c
      PROVE  request'[d] \in Calls /\ Same(request'[d], request[d]) /\ request'[d].alone = FALSE
  <2>1. request'[d] = [request[d] EXCEPT !.alone = FALSE]
    BY <1>2, <1>3, <1>6
  <2> QED
    BY <1>3, <2>1, AloneChanges
<1>7. ASSUME NEW d \in Callers \ {c}, d \notin busy PROVE request'[d] = request[d]
  BY <1>2, <1>7
<1>8. \A d \in Callers \ {c} : Same(request'[d], request[d])
  BY <1>6, <1>7 DEF Same
<1>9. request' \in [Callers -> {N!Idle} \cup Calls]
  <2>1. \A d \in Callers : request'[d] \in {N!Idle} \cup Calls
    BY <1>5, <1>6, <1>7 DEF CallTypes
  <2> QED
    BY <1>2, <2>1
<1>10. ASSUME NEW d \in Callers, request'[d].op = "start", request'[d].step = "select"
       PROVE  request'[d].plane \in {0, 1}
  <2>1. d # c
    BY <1>5, <1>10, CallOps DEF Same
  <2>2. Same(request'[d], request[d])
    BY <1>8, <2>1
  <2>3. request[d] # N!Idle
    BY <1>10, <2>2 DEF Same, N!Idle
  <2> QED
    BY <1>10, <2>2, <2>3 DEF Same, CallTypes
<1>11. request'[c].alone => busy = {}
  BY <1>1, <1>5
<1>12. \A d \in Callers \ {c} : request[d] # N!Idle /\ request'[d].alone =>
         request[d].alone /\ d \notin busy
  BY <1>6, <1>7
<1>13. CallTypes'
  BY <1>9, <1>10 DEF CallTypes
<1> QED
  BY <1>2, <1>5, <1>8, <1>11, <1>12, <1>13 DEF busy

LEMMA CallGoes ==
  ASSUME CallTypes, NEW c \in Callers, request[c] # N!Idle, NEW step, N!Go(c, step),
         \/ request[c].op = "start" /\ step = "select" /\ request[c].plane \in {0, 1}
         \/ request[c].op = "stop" /\ step \in {"input", "lower", "select"}
         \/ request[c].op = "mix" /\ step \in {"input", "raise"}
  PROVE  /\ CallTypes'
         /\ request'[c].op = request[c].op /\ request'[c] # N!Idle
         /\ request'[c].plugin = request[c].plugin /\ request'[c].step = step
         /\ request'[c].alone = request[c].alone
         /\ request[c].op = "start" => request'[c].plane = request[c].plane
         /\ \A d \in Callers \ {c} : request'[d] = request[d]
<1> DEFINE u == [request[c] EXCEPT !.step = step]
<1>1. request' = [request EXCEPT ![c] = u]
  BY DEF N!Go, CallTypes
<1>2. request[c] \in Calls
  BY DEF CallTypes
<1>3. /\ u \in Calls /\ u.op = request[c].op /\ u.plugin = request[c].plugin /\ u.step = step
      /\ u.alone = request[c].alone /\ u # N!Idle
      /\ request[c].op = "start" => u.plane = request[c].plane
  <2>1. CASE request[c].op = "start"
    <3>1. request[c] \in StartCalls
      BY <1>2, <2>1, CallOps
    <3>2. step = "select"
      BY <2>1
    <3> QED
      BY <3>1, <3>2 DEF Calls, StartCalls, N!Idle
  <2>2. CASE request[c].op = "stop"
    <3>1. request[c] \in StopCalls
      BY <1>2, <2>2, CallOps
    <3>2. step \in {"input", "lower", "select"}
      BY <2>2
    <3> QED
      BY <2>2, <3>1, <3>2 DEF Calls, StopCalls, N!Idle
  <2>3. CASE request[c].op = "mix"
    <3>1. request[c] \in MixCalls
      BY <1>2, <2>3, CallOps
    <3>2. step \in {"input", "raise"}
      BY <2>3
    <3> QED
      BY <2>3, <3>1, <3>2 DEF Calls, MixCalls, N!Idle
  <2> QED
    BY <2>1, <2>2, <2>3
<1> HIDE DEF u
<1>4. request'[c] = u /\ \A d \in Callers \ {c} : request'[d] = request[d]
  BY <1>1 DEF CallTypes
<1>5. CallTypes'
  BY <1>1, <1>3, <1>4 DEF CallTypes
<1> QED
  BY <1>3, <1>4, <1>5

LEMMA CallReturns ==
  ASSUME CallTypes, NEW c \in Callers, N!Return(c)
  PROVE  /\ CallTypes' /\ request'[c] = N!Idle
         /\ \A d \in Callers \ {c} : request'[d] = request[d]
BY DEF N!Return, CallTypes, N!Idle

(***************************************************************************)
(* Inputs: the mixer.  A level that is not full is owed by a plugin: it    *)
(* has the flag of a balance, and no stop of its own that has passed the   *)
(* level, or it is about to raise the flag.  A stop that restores and a    *)
(* setMixerLevels of the same plugin do not meet while torn is FALSE.      *)
(***************************************************************************)

CallsAt(op, plugin_, steps) ==
  {c \in Callers : request[c].op = op /\ request[c].plugin = plugin_ /\ request[c].step \in steps}

Restoring == {"primary", "input", "lower"}
RestoredAt(level) == IF level = "primary" THEN {"input", "lower"} ELSE {"lower"}
MixedAt(level)    == IF level = "primary" THEN {"input", "raise"} ELSE {"raise"}

Owes(plugin_, level) ==
  \/ balanceSet[plugin_] /\ CallsAt("stop", plugin_, RestoredAt(level)) = {}
  \/ CallsAt("mix", plugin_, MixedAt(level)) # {}

MixApart ==
  \A p \in N!Plugins :
    CallsAt("stop", p, Restoring) = {} \/ CallsAt("mix", p, {"primary", "input", "raise"}) = {}

Owed == \A level \in {"primary", "input"} : mixer[level] # N!Full => \E p \in N!Plugins : Owes(p, level)

MixTypes ==
  /\ mixer \in [{"primary", "input"} -> MixerLevels \cup {N!Full}]
  /\ balanceSet \in [N!Plugins -> BOOLEAN]

MixInv == CallTypes /\ MixTypes /\ (~mixerTorn => MixApart /\ Owed)

LEMMA MixStart == N!Init => MixInv
<1> SUFFICES ASSUME N!Init PROVE MixInv
  OBVIOUS
<1>1. CallTypes
  BY DEF N!Init, CallTypes, N!Idle
<1>2. MixTypes
  BY DEF N!Init, MixTypes
<1>3. \A op \in {"stop", "mix"}, p \in N!Plugins : \A steps : CallsAt(op, p, steps) = {}
  BY DEF N!Init, CallsAt, N!Idle
<1>4. MixApart /\ Owed
  BY <1>3 DEF N!Init, MixApart, Owed
<1> QED
  BY <1>1, <1>2, <1>4 DEF MixInv

\* Stops and balances go on as they were.
LEMMA MixUndisturbed ==
  ASSUME MixInv, CallTypes', mixer' = mixer, balanceSet' = balanceSet, mixerTorn' = mixerTorn,
         \A c \in Callers : request[c].op \in {"stop", "mix"} \/ request'[c].op \in {"stop", "mix"} =>
           \/ Same(request'[c], request[c])
           \/ request[c].op = "stop" /\ request[c].step = "select" /\ request'[c] = N!Idle
  PROVE  MixInv'
<1>1. \A p \in N!Plugins, steps \in SUBSET Restoring : CallsAt("stop", p, steps)' = CallsAt("stop", p, steps)
  BY DEF CallsAt, Same, N!Idle, Restoring
<1>2. \A p \in N!Plugins : \A steps : CallsAt("mix", p, steps)' = CallsAt("mix", p, steps)
  BY DEF CallsAt, Same, N!Idle
<1>3. \A level : RestoredAt(level) \subseteq Restoring /\ RestoredAt(level)' = RestoredAt(level)
                 /\ MixedAt(level)' = MixedAt(level)
  BY DEF RestoredAt, Restoring, MixedAt
<1> QED
  BY <1>1, <1>2, <1>3 DEF MixInv, MixTypes, MixApart, Owed, Owes

\* What a stop or a balance is about to do.
LEMMA StopAt ==
  ASSUME CallTypes, NEW c \in Callers, request[c].op = "stop"
  PROVE  /\ request[c].plugin \in N!Plugins /\ request[c].type \in {"HDMI", "COMPOSITE"}
         /\ request[c].step \in {"primary", "input", "lower", "select"}
<1>1. request[c] \in StopCalls
  BY CallOps DEF CallTypes
<1> QED
  BY <1>1 DEF StopCalls

LEMMA MixAt ==
  ASSUME CallTypes, NEW c \in Callers, request[c].op = "mix"
  PROVE  /\ request[c].plugin \in N!Plugins /\ request[c].step \in {"primary", "input", "raise"}
         /\ request[c].primary \in MixerLevels /\ request[c].input \in MixerLevels
<1>1. request[c] \in MixCalls
  BY CallOps DEF CallTypes
<1> QED
  BY <1>1 DEF MixCalls

LEMMA MixStep ==
  ASSUME MixInv, N!Next
  PROVE  MixInv'
<1> USE DEF MixInv
<1>1. ASSUME NEW p \in N!Plugins, N!Deliver(p) PROVE MixInv'
  <2>1. request' = request /\ mixer' = mixer /\ balanceSet' = balanceSet /\ mixerTorn' = mixerTorn
    BY <1>1 DEF N!Deliver, N!driverVars, N!history
  <2> QED
    BY <2>1, MixUndisturbed DEF CallTypes, Same
<1>2. ASSUME N!DriverChanges PROVE MixInv'
  <2>1. request' = request /\ mixer' = mixer /\ balanceSet' = balanceSet /\ mixerTorn' = mixerTorn
    BY <1>2 DEF N!DriverChanges, N!pluginVars, N!history
  <2> QED
    BY <2>1, MixUndisturbed DEF CallTypes, Same
<1>3. ASSUME NEW c \in Callers, N!start(c) PROVE MixInv'
  <2>1. PICK p \in N!Plugins, port_ \in N!InputPorts, plane \in Planes :
          /\ N!Begin(c, [op |-> "start", plugin |-> p, port |-> port_, plane |-> plane,
                         step |-> "plane", alone |-> TRUE])
          /\ UNCHANGED <<mixer, balanceSet, mixerTorn>>
    BY <1>3 DEF N!start, N!driverVars
  <2> DEFINE asked == [op |-> "start", plugin |-> p, port |-> port_, plane |-> plane,
                      step |-> "plane", alone |-> TRUE]
  <2>2. asked \in Calls /\ asked.op = "start" /\ asked.step = "plane"
    BY DEF Calls, StartCalls
  <2> HIDE DEF asked
  <2>3. N!Begin(c, asked)
    BY <2>1 DEF asked
  <2>4. CallTypes' /\ request[c] = N!Idle /\ Same(request'[c], asked)
        /\ \A d \in Callers \ {c} : Same(request'[d], request[d])
    BY <2>2, <2>3, CallBegins
  <2>5. request[c].op = "none" /\ request'[c].op = "start"
    BY <2>2, <2>4 DEF Same, N!Idle
  <2> QED
    BY <2>1, <2>4, <2>5, MixUndisturbed
<1>4. ASSUME NEW c \in Callers, N!startPlane(c) \/ N!startSelect(c) PROVE MixInv'
  <2>1. request[c].op = "start" /\ UNCHANGED <<mixer, balanceSet, mixerTorn>>
    BY <1>4 DEF N!startPlane, N!startSelect, N!At, N!driverVars, N!pluginVars, N!history
  <2>2. request[c] # N!Idle
    BY <2>1 DEF N!Idle
  <2>3. N!Return(c) \/ (request[c].plane \in {0, 1} /\ N!Go(c, "select"))
    BY <1>4 DEF N!startPlane, N!startSelect
  <2>4. CallTypes' /\ (request'[c].op \in {"none", "start"})
        /\ \A d \in Callers \ {c} : request'[d] = request[d]
    <3>1. CASE N!Return(c)
      BY <3>1, CallReturns DEF N!Idle
    <3>2. CASE request[c].plane \in {0, 1} /\ N!Go(c, "select")
      BY <2>1, <2>2, <3>2, CallGoes
    <3> QED
      BY <2>3, <3>1, <3>2
  <2> QED
    BY <2>1, <2>4, MixUndisturbed DEF Same
<1>5. ASSUME NEW c \in Callers, N!stop(c) PROVE MixInv'
  <2>1. PICK p \in N!Plugins, type \in {"HDMI", "COMPOSITE"} :
          /\ N!Begin(c, [op |-> "stop", plugin |-> p, type |-> type, alone |-> TRUE,
                         step |-> IF balanceSet[p] THEN "primary" ELSE "select"])
          /\ mixerTorn' = (mixerTorn \/ (balanceSet[p] /\ \E m \in N!Busy(p) : request[m].op = "mix"))
          /\ UNCHANGED <<mixer, balanceSet>>
    BY <1>5 DEF N!stop, N!driverVars
  <2> DEFINE asked == [op |-> "stop", plugin |-> p, type |-> type, alone |-> TRUE,
                      step |-> IF balanceSet[p] THEN "primary" ELSE "select"]
  <2>2. /\ asked \in Calls /\ asked.op = "stop" /\ asked.plugin = p
        /\ asked.step = IF balanceSet[p] THEN "primary" ELSE "select"
    BY DEF Calls, StopCalls
  <2> HIDE DEF asked
  <2>3. N!Begin(c, asked)
    BY <2>1 DEF asked
  <2>4. CallTypes' /\ request[c] = N!Idle /\ Same(request'[c], asked)
        /\ \A d \in Callers \ {c} : Same(request'[d], request[d])
    BY <2>2, <2>3, CallBegins
  <2>5. request[c].op = "none" /\ request'[c].op = "stop" /\ request'[c].plugin = p
        /\ request'[c].step = IF balanceSet[p] THEN "primary" ELSE "select"
    BY <2>2, <2>4 DEF Same, N!Idle
  <2>6. \A q \in N!Plugins : \A steps : CallsAt("mix", q, steps)' = CallsAt("mix", q, steps)
    BY <2>4, <2>5 DEF CallsAt, Same, N!Idle
  <2>7. \A q \in N!Plugins, level \in {"primary", "input"} :
          CallsAt("stop", q, RestoredAt(level))' = CallsAt("stop", q, RestoredAt(level))
    BY <2>4, <2>5 DEF CallsAt, Same, N!Idle, RestoredAt
  <2>8. ~mixerTorn' => ~mixerTorn /\ (balanceSet[p] => CallsAt("mix", p, {"primary", "input", "raise"}) = {})
    <3>1. ~mixerTorn' => ~mixerTorn /\ (balanceSet[p] => \A m \in N!Busy(p) : request[m].op # "mix")
      BY <2>1
    <3>2. \A m \in CallsAt("mix", p, {"primary", "input", "raise"}) : m \in N!Busy(p) /\ request[m].op = "mix"
      BY DEF CallsAt, N!Busy, N!Idle
    <3> QED
      BY <3>1, <3>2
  <2>9. \A q \in N!Plugins : q # p \/ ~balanceSet[p] =>
          CallsAt("stop", q, Restoring)' = CallsAt("stop", q, Restoring)
    BY <2>4, <2>5 DEF CallsAt, Same, N!Idle, Restoring
  <2>10. ~mixerTorn' => MixApart'
    BY <2>6, <2>8, <2>9 DEF MixApart
  <2>11. Owed => Owed'
    BY <2>1, <2>6, <2>7 DEF Owed, Owes, RestoredAt, MixedAt
  <2> QED
    BY <2>1, <2>4, <2>8, <2>10, <2>11 DEF MixTypes
<1>6. ASSUME NEW c \in Callers, N!stopRestores(c) PROVE MixInv'
  <2>0. request[c].op = "stop" /\ request[c].step \in Restoring
    BY <1>6 DEF N!stopRestores, Restoring
  <2> PICK p \in N!Plugins, at \in Restoring : p = request[c].plugin /\ at = request[c].step
    BY <2>0, StopAt
  <2> DEFINE next == CASE at = "primary" -> "input" [] at = "input" -> "lower" [] OTHER -> "select"
  <2>1. /\ request[c].op = "stop" /\ request[c].step = at /\ request[c].plugin = p
        /\ mixer' = IF at = "lower" THEN mixer ELSE [mixer EXCEPT ![at] = N!Full]
        /\ balanceSet' = [balanceSet EXCEPT ![p] = @ /\ ~N!Lowers(at)]
        /\ N!Go(c, next) /\ mixerTorn' = mixerTorn
    BY <1>6, <2>0 DEF N!stopRestores, N!history
  <2>2. /\ at = "primary" => next = "input"
        /\ at = "input" => next = "lower"
        /\ at = "lower" => next = "select"
    OBVIOUS
  <2>3. request[c] # N!Idle
    BY <2>1 DEF N!Idle
  <2>4. next \in {"input", "lower", "select"}
    BY <2>1, <2>2 DEF Restoring
  <2> HIDE DEF next
  <2>5. /\ CallTypes' /\ request'[c].op = "stop" /\ request'[c].plugin = p /\ request'[c].step = next
        /\ \A d \in Callers \ {c} : request'[d] = request[d]
    BY <2>1, <2>3, <2>4, CallGoes
  <2>6. MixTypes'
    <3>1. \A q \in N!Plugins : balanceSet'[q] \in BOOLEAN
      BY <2>1 DEF MixTypes
    <3>2. balanceSet' \in [N!Plugins -> BOOLEAN]
      BY <2>1, <3>1 DEF MixTypes
    <3>3. mixer' \in [{"primary", "input"} -> MixerLevels \cup {N!Full}]
      BY <2>1 DEF MixTypes
    <3> QED
      BY <3>2, <3>3 DEF MixTypes
  <2>7. \A q \in N!Plugins : \A steps : CallsAt("mix", q, steps)' = CallsAt("mix", q, steps)
    BY <2>1, <2>5 DEF CallsAt
  <2>8. \A q \in N!Plugins : CallsAt("stop", q, Restoring)' \subseteq CallsAt("stop", q, Restoring)
    BY <2>1, <2>5 DEF CallsAt
  <2>9. ~mixerTorn => MixApart'
    BY <2>7, <2>8 DEF MixApart
  <2>10. \A q \in N!Plugins : q # p => \A level \in {"primary", "input"} : Owes(q, level)' = Owes(q, level)
    <3>1. \A q \in N!Plugins : \A steps : q # p => CallsAt("stop", q, steps)' = CallsAt("stop", q, steps)
      BY <2>1, <2>5 DEF CallsAt
    <3>2. \A q \in N!Plugins : q # p => balanceSet'[q] = balanceSet[q]
      BY <2>1 DEF MixTypes
    <3> QED
      BY <2>7, <3>1, <3>2 DEF Owes, RestoredAt, MixedAt
  <2>11. ASSUME Owed, NEW level \in {"primary", "input"}, mixer'[level] # N!Full
         PROVE  \E q \in N!Plugins : Owes(q, level)'
    <3>1. mixer[level] # N!Full /\ at # level
      BY <2>1, <2>11 DEF MixTypes
    <3>2. PICK q \in N!Plugins : Owes(q, level)
      BY <2>11, <3>1 DEF Owed
    <3>3. CASE q # p
      BY <2>10, <3>2, <3>3
    <3>4. CASE CallsAt("mix", q, MixedAt(level)) # {}
      BY <2>7, <3>4 DEF Owes, MixedAt
    <3>5. CASE q = p /\ balanceSet[p] /\ CallsAt("stop", p, RestoredAt(level)) = {}
      <4>1. at = "primary" /\ level = "input"
        BY <2>1, <3>1, <3>5 DEF CallsAt, RestoredAt, Restoring
      <4>2. balanceSet'[p]
        BY <2>1, <3>5, <4>1 DEF N!Lowers, MixTypes
      <4>3. CallsAt("stop", p, RestoredAt(level))' = {}
        BY <2>2, <2>5, <3>5, <4>1 DEF CallsAt, RestoredAt
      <4> QED
        BY <3>5, <4>2, <4>3 DEF Owes
    <3> QED
      BY <3>2, <3>3, <3>4, <3>5 DEF Owes
  <2>12. Owed => Owed'
    BY <2>11 DEF Owed
  <2> QED
    BY <2>1, <2>5, <2>6, <2>9, <2>12
<1>7. ASSUME NEW c \in Callers, N!stopSelect(c) PROVE MixInv'
  <2>1. request[c].op = "stop" /\ request[c].step = "select" /\ N!Return(c)
        /\ UNCHANGED <<mixer, balanceSet, mixerTorn>>
    BY <1>7 DEF N!stopSelect, N!At, N!history
  <2>2. CallTypes' /\ request'[c] = N!Idle /\ \A d \in Callers \ {c} : request'[d] = request[d]
    BY <2>1, CallReturns
  <2> QED
    BY <2>1, <2>2, MixUndisturbed DEF Same
<1>8. ASSUME NEW c \in Callers, N!setMixerLevels(c) PROVE MixInv'
  <2>1. PICK p \in N!Plugins, primary \in MixerLevels, input \in MixerLevels :
          /\ N!Begin(c, [op |-> "mix", plugin |-> p, primary |-> primary, input |-> input,
                         step |-> "primary", alone |-> TRUE])
          /\ mixerTorn' = (mixerTorn \/ \E s \in N!Busy(p) : request[s].op = "stop" /\ request[s].step # "select")
          /\ UNCHANGED <<mixer, balanceSet>>
    BY <1>8 DEF N!setMixerLevels, N!driverVars, N!pluginVars
  <2> DEFINE asked == [op |-> "mix", plugin |-> p, primary |-> primary, input |-> input,
                      step |-> "primary", alone |-> TRUE]
  <2>2. asked \in Calls /\ asked.op = "mix" /\ asked.plugin = p /\ asked.step = "primary"
    BY DEF Calls, MixCalls
  <2> HIDE DEF asked
  <2>3. N!Begin(c, asked)
    BY <2>1 DEF asked
  <2>4. CallTypes' /\ request[c] = N!Idle /\ Same(request'[c], asked)
        /\ \A d \in Callers \ {c} : Same(request'[d], request[d])
    BY <2>2, <2>3, CallBegins
  <2>5. request[c].op = "none" /\ request'[c].op = "mix" /\ request'[c].plugin = p
        /\ request'[c].step = "primary"
    BY <2>2, <2>4 DEF Same, N!Idle
  <2>6. \A q \in N!Plugins : \A steps : CallsAt("stop", q, steps)' = CallsAt("stop", q, steps)
    BY <2>4, <2>5 DEF CallsAt, Same, N!Idle
  <2>7. \A q \in N!Plugins, level \in {"primary", "input"} :
          CallsAt("mix", q, MixedAt(level))' = CallsAt("mix", q, MixedAt(level))
    BY <2>4, <2>5 DEF CallsAt, Same, N!Idle, MixedAt
  <2>8. ~mixerTorn' => ~mixerTorn /\ CallsAt("stop", p, Restoring) = {}
    BY <2>1, CallOps DEF CallsAt, N!Busy, N!Idle, Restoring, CallTypes
  <2>9. \A q \in N!Plugins : q # p =>
          CallsAt("mix", q, {"primary", "input", "raise"})' = CallsAt("mix", q, {"primary", "input", "raise"})
    BY <2>4, <2>5 DEF CallsAt, Same, N!Idle
  <2>10. ~mixerTorn' => MixApart'
    BY <2>6, <2>8, <2>9 DEF MixApart
  <2>11. Owed => Owed'
    BY <2>1, <2>6, <2>7 DEF Owed, Owes, RestoredAt, MixedAt
  <2> QED
    BY <2>1, <2>4, <2>8, <2>10, <2>11 DEF MixTypes
<1>9. ASSUME NEW c \in Callers, N!mixLevels(c) PROVE MixInv'
  <2>0. request[c].op = "mix" /\ request[c].step \in {"primary", "input"}
    BY <1>9 DEF N!mixLevels
  <2> PICK p \in N!Plugins, at \in {"primary", "input"} : p = request[c].plugin /\ at = request[c].step
    BY <2>0, MixAt
  <2> DEFINE next == IF at = "primary" THEN "input" ELSE "raise"
  <2>1. /\ request[c].op = "mix" /\ request[c].step = at /\ request[c].plugin = p
        /\ mixer' = [mixer EXCEPT ![at] = request[c][at]]
        /\ N!Go(c, next) /\ balanceSet' = balanceSet /\ mixerTorn' = mixerTorn
    BY <1>9, <2>0 DEF N!mixLevels, N!pluginVars, N!history
  <2>2. request[c] # N!Idle
    BY <2>1 DEF N!Idle
  <2>3. next \in {"input", "raise"} /\ (at = "primary" => next = "input") /\ (at = "input" => next = "raise")
    OBVIOUS
  <2> HIDE DEF next
  <2>4. /\ CallTypes' /\ request'[c].op = "mix" /\ request'[c].plugin = p /\ request'[c].step = next
        /\ \A d \in Callers \ {c} : request'[d] = request[d]
    BY <2>1, <2>2, <2>3, CallGoes
  <2>5. MixTypes'
    <3>1. request[c][at] \in MixerLevels
      <4>1. CASE at = "primary"
        BY <2>1, <4>1, MixAt
      <4>2. CASE at = "input"
        BY <2>1, <4>2, MixAt
      <4> QED
        BY <2>1, <4>1, <4>2
    <3> QED
      BY <2>1, <3>1 DEF MixTypes
  <2>6. \A q \in N!Plugins : \A steps : CallsAt("stop", q, steps)' = CallsAt("stop", q, steps)
    BY <2>1, <2>4 DEF CallsAt
  <2>7. \A q \in N!Plugins : CallsAt("mix", q, {"primary", "input", "raise"})'
          = CallsAt("mix", q, {"primary", "input", "raise"})
    BY <2>1, <2>3, <2>4 DEF CallsAt
  <2>8. \A q \in N!Plugins, level \in {"primary", "input"} :
          CallsAt("mix", q, MixedAt(level)) \subseteq CallsAt("mix", q, MixedAt(level))'
    BY <2>1, <2>3, <2>4 DEF CallsAt, MixedAt
  <2>9. ~mixerTorn => MixApart'
    BY <2>6, <2>7 DEF MixApart
  <2>10. Owes(p, at)'
    BY <2>1, <2>3, <2>4 DEF Owes, CallsAt, MixedAt
  <2>11. \A level \in {"primary", "input"} : level # at => mixer'[level] = mixer[level]
    BY <2>1 DEF MixTypes
  <2>12. \A q \in N!Plugins, level \in {"primary", "input"} : Owes(q, level) => Owes(q, level)'
    BY <2>1, <2>6, <2>8 DEF Owes, RestoredAt, MixedAt
  <2>13. Owed => Owed'
    BY <2>1, <2>10, <2>11, <2>12 DEF Owed
  <2> QED
    BY <2>1, <2>4, <2>5, <2>9, <2>13
<1>10. ASSUME NEW c \in Callers, N!mixRaises(c) PROVE MixInv'
  <2>0. request[c].op = "mix" /\ request[c].step = "raise"
    BY <1>10 DEF N!mixRaises, N!At
  <2> PICK p \in N!Plugins : p = request[c].plugin
    BY <2>0, MixAt
  <2>1. /\ request[c].op = "mix" /\ request[c].step = "raise" /\ request[c].plugin = p
        /\ N!Return(c) /\ balanceSet' = [balanceSet EXCEPT ![p] = TRUE]
        /\ mixer' = mixer /\ mixerTorn' = mixerTorn
    BY <1>10, <2>0 DEF N!mixRaises, N!driverVars, N!history
  <2>2. CallTypes' /\ request'[c].op = "none" /\ \A d \in Callers \ {c} : request'[d] = request[d]
    BY <2>1, CallReturns DEF N!Idle
  <2>3. MixTypes' /\ balanceSet'[p] /\ \A q \in N!Plugins : q # p => balanceSet'[q] = balanceSet[q]
    BY <2>1 DEF MixTypes
  <2>4. \A q \in N!Plugins : \A steps : CallsAt("stop", q, steps)' = CallsAt("stop", q, steps)
    BY <2>1, <2>2 DEF CallsAt
  <2>5. \A q \in N!Plugins : \A steps : CallsAt("mix", q, steps)' \subseteq CallsAt("mix", q, steps)
    BY <2>1, <2>2 DEF CallsAt
  <2>6. \A q \in N!Plugins : \A steps : q # p => CallsAt("mix", q, steps)' = CallsAt("mix", q, steps)
    BY <2>1, <2>2 DEF CallsAt
  <2>7. ~mixerTorn => MixApart'
    BY <2>4, <2>5 DEF MixApart
  <2>8. ASSUME MixApart, NEW level \in {"primary", "input"} PROVE Owes(p, level)'
    <3>1. c \in CallsAt("mix", p, {"primary", "input", "raise"})
      BY <2>1 DEF CallsAt
    <3>2. CallsAt("stop", p, Restoring) = {}
      BY <2>1, <2>8, <3>1 DEF MixApart
    <3>3. CallsAt("stop", p, RestoredAt(level)) = {}
      BY <3>2 DEF CallsAt, RestoredAt, Restoring
    <3> QED
      BY <2>1, <2>3, <2>4, <3>3 DEF Owes, RestoredAt
  <2>9. \A q \in N!Plugins, level \in {"primary", "input"} : q # p /\ Owes(q, level) => Owes(q, level)'
    BY <2>3, <2>4, <2>6 DEF Owes, RestoredAt, MixedAt
  <2>10. MixApart /\ Owed => Owed'
    BY <2>1, <2>8, <2>9 DEF Owed
  <2> QED
    BY <2>1, <2>2, <2>3, <2>7, <2>10
<1>11. ASSUME NEW c \in Callers, N!DriverFails(c) PROVE MixInv'
  <2>1. /\ request[c].step \in {"select", "primary", "input"} /\ N!Return(c)
        /\ mixerTorn' = (mixerTorn \/ N!At(c, "mix", "input"))
        /\ UNCHANGED <<mixer, balanceSet>>
    BY <1>11 DEF N!DriverFails, N!driverVars, N!pluginVars
  <2>2. CallTypes' /\ request'[c].op = "none" /\ \A d \in Callers \ {c} : request'[d] = request[d]
    BY <2>1, CallReturns DEF N!Idle
  <2>3. \A q \in N!Plugins, op \in {"stop", "mix"} : \A steps : CallsAt(op, q, steps)' \subseteq CallsAt(op, q, steps)
    BY <2>2 DEF CallsAt
  <2>4. ~mixerTorn' => ~mixerTorn /\ \A q \in N!Plugins, level \in {"primary", "input"} :
          CallsAt("mix", q, MixedAt(level))' = CallsAt("mix", q, MixedAt(level))
    BY <2>1, <2>2 DEF CallsAt, MixedAt, N!At
  <2>5. MixApart => MixApart'
    BY <2>3 DEF MixApart
  <2>6. ~mixerTorn' => \A q \in N!Plugins, level \in {"primary", "input"} : Owes(q, level) => Owes(q, level)'
    BY <2>1, <2>3, <2>4 DEF Owes, RestoredAt, MixedAt
  <2>7. ~mixerTorn' /\ Owed => Owed'
    BY <2>1, <2>6 DEF Owed
  <2> QED
    BY <2>1, <2>2, <2>4, <2>5, <2>7 DEF MixTypes
<1> QED
  BY <1>1, <1>2, <1>3, <1>4, <1>5, <1>6, <1>7, <1>8, <1>9, <1>10, <1>11 DEF N!Next, N!CallStep

-----------------------------------------------------------------------------
(***************************************************************************)
(* Inputs: the events.                                                     *)
(***************************************************************************)

HdmiKinds   == {"ALLM", "VRR", "content"}
DriverKinds == {"connected", "signal", "mode"} \cup HdmiKinds
EventKinds  == DriverKinds \cup {"status"}

PortsOf(kind) == IF kind \in HdmiKinds THEN HdmiPorts ELSE N!InputPorts
ValuesOf(kind) ==
  CASE kind \in {"connected", "ALLM", "status"} -> BOOLEAN
    [] kind = "signal" -> Signals
    [] kind = "mode" -> Pixels \X Rates
    [] kind = "VRR" -> VrrTypes \cup {N!NoVrr}
    [] OTHER -> Contents

EventSet == [kind : EventKinds, port : N!InputPorts, value : UNION {ValuesOf(kind) : kind \in EventKinds}]

Proper(e) == e.port \in PortsOf(e.kind) /\ e.value \in ValuesOf(e.kind)

QueueTypes ==
  /\ queue \in [N!Plugins -> Seq(EventSet)]
  /\ \A p \in N!Plugins : \A i \in 1 .. Len(queue[p]) :
       Proper(queue[p][i]) /\ N!Listens(p, queue[p][i].kind, N!TypeOf(queue[p][i].port))

SelectTypes ==
  /\ DOMAIN select = {"HDMI", "COMPOSITE"}
  /\ \A type \in {"HDMI", "COMPOSITE"} :
       /\ select[type].port \in N!InputPorts \cup {-1}
       /\ select[type].port # -1 => N!TypeOf(select[type].port) = type

\* What the driver has and what clients have heard, by kind and port.
TableTypes ==
  /\ DOMAIN driver = DriverKinds
  /\ \A kind \in DriverKinds : DOMAIN driver[kind] = PortsOf(kind)
  /\ \A q \in HdmiPorts : driver["VRR"][q] \in ValuesOf("VRR")
  /\ DOMAIN reported = N!Plugins
  /\ \A p \in N!Plugins : DOMAIN reported[p] = EventKinds
  /\ \A p \in N!Plugins, kind \in EventKinds : DOMAIN reported[p][kind] = PortsOf(kind)
  /\ vrrType \in ValuesOf("VRR") /\ vrrPorts \subseteq HdmiPorts

EventTypes == QueueTypes /\ SelectTypes /\ TableTypes

(***************************************************************************)
(* Queues of events.                                                       *)
(***************************************************************************)

IsOf(e, kind, port_) == e.kind = kind /\ e.port = port_

Silent(q, kind, port_) == \A i \in 1 .. Len(q) : ~IsOf(q[i], kind, port_)

\* The last event of a kind and a port, if there is one, tells the value.
Tells(q, kind, port_, value) ==
  \A i \in 1 .. Len(q) :
    IsOf(q[i], kind, port_) /\ (\A j \in i + 1 .. Len(q) : ~IsOf(q[j], kind, port_)) => q[i].value = value

LEMMA TailOfEvents ==
  ASSUME NEW E, NEW q \in Seq(E), q # <<>>
  PROVE  /\ Tail(q) \in Seq(E) /\ Head(q) = q[1] /\ Head(q) \in E /\ Len(Tail(q)) = Len(q) - 1 /\ Len(q) >= 1
         /\ \A i \in 1 .. Len(q) - 1 : Tail(q)[i] = q[i + 1]
OBVIOUS

LEMMA TailTells ==
  ASSUME NEW E, NEW q \in Seq(E), q # <<>>, NEW kind, NEW port_, NEW value, Tells(q, kind, port_, value)
  PROVE  /\ Tells(Tail(q), kind, port_, value)
         /\ Silent(Tail(q), kind, port_) /\ IsOf(Head(q), kind, port_) => Head(q).value = value
         /\ Silent(Tail(q), kind, port_) /\ ~IsOf(Head(q), kind, port_) => Silent(q, kind, port_)
<1>1. Len(q) \in Nat /\ Len(q) >= 1 /\ Len(Tail(q)) = Len(q) - 1 /\ Head(q) = q[1]
  BY TailOfEvents
<1>2. \A i \in 1 .. Len(q) - 1 : Tail(q)[i] = q[i + 1]
  BY TailOfEvents
<1>3. Tells(Tail(q), kind, port_, value)
  <2> SUFFICES ASSUME NEW i \in 1 .. Len(q) - 1, IsOf(Tail(q)[i], kind, port_),
                      \A j \in i + 1 .. Len(q) - 1 : ~IsOf(Tail(q)[j], kind, port_)
               PROVE  Tail(q)[i].value = value
    BY <1>1 DEF Tells
  <2>1. i + 1 \in 1 .. Len(q) /\ IsOf(q[i + 1], kind, port_) /\ Tail(q)[i] = q[i + 1]
    BY <1>1, <1>2
  <2>2. ASSUME NEW j \in (i + 1) + 1 .. Len(q) PROVE ~IsOf(q[j], kind, port_)
    <3>1. j - 1 \in i + 1 .. Len(q) - 1 /\ (j - 1) + 1 = j /\ j - 1 \in 1 .. Len(q) - 1
      BY <1>1
    <3>2. Tail(q)[j - 1] = q[j]
      BY <1>2, <3>1
    <3> QED
      BY <3>1, <3>2
  <2> QED
    BY <2>1, <2>2 DEF Tells
<1>4. ASSUME Silent(Tail(q), kind, port_), NEW j \in 2 .. Len(q) PROVE ~IsOf(q[j], kind, port_)
  <2>1. j - 1 \in 1 .. Len(q) - 1 /\ (j - 1) + 1 = j
    BY <1>1
  <2>2. Tail(q)[j - 1] = q[j]
    BY <1>2, <2>1
  <2> QED
    BY <1>1, <1>4, <2>1, <2>2 DEF Silent
<1> QED
  BY <1>1, <1>3, <1>4 DEF Tells, Silent

LEMMA ConcatEvents ==
  ASSUME NEW E, NEW q \in Seq(E), NEW s \in Seq(E)
  PROVE  /\ q \o s \in Seq(E) /\ Len(q \o s) = Len(q) + Len(s) /\ Len(q) \in Nat /\ Len(s) \in Nat
         /\ \A i \in 1 .. Len(q) : (q \o s)[i] = q[i]
         /\ \A i \in 1 .. Len(s) : (q \o s)[Len(q) + i] = s[i]
OBVIOUS

LEMMA ConcatSilent ==
  ASSUME NEW E, NEW q \in Seq(E), NEW s \in Seq(E), NEW kind, NEW port_
  PROVE  Silent(q \o s, kind, port_) <=> Silent(q, kind, port_) /\ Silent(s, kind, port_)
<1>1. ASSUME Silent(q \o s, kind, port_), NEW i \in 1 .. Len(s) PROVE ~IsOf(s[i], kind, port_)
  <2>1. Len(q) + i \in 1 .. Len(q \o s) /\ (q \o s)[Len(q) + i] = s[i]
    BY ConcatEvents
  <2> QED
    BY <1>1, <2>1 DEF Silent
<1>2. ASSUME Silent(q \o s, kind, port_), NEW i \in 1 .. Len(q) PROVE ~IsOf(q[i], kind, port_)
  <2>1. i \in 1 .. Len(q \o s) /\ (q \o s)[i] = q[i]
    BY ConcatEvents
  <2> QED
    BY <1>2, <2>1 DEF Silent
<1>3. ASSUME Silent(q, kind, port_), Silent(s, kind, port_), NEW i \in 1 .. Len(q \o s)
      PROVE  ~IsOf((q \o s)[i], kind, port_)
  <2>1. i \in 1 .. Len(q) \/ (i - Len(q) \in 1 .. Len(s) /\ Len(q) + (i - Len(q)) = i)
    BY ConcatEvents
  <2>2. i \in 1 .. Len(q) => (q \o s)[i] = q[i]
    BY ConcatEvents
  <2>3. i - Len(q) \in 1 .. Len(s) /\ Len(q) + (i - Len(q)) = i => (q \o s)[i] = s[i - Len(q)]
    BY ConcatEvents
  <2> QED
    BY <1>3, <2>1, <2>2, <2>3 DEF Silent
<1> QED
  BY <1>1, <1>2, <1>3 DEF Silent

LEMMA ConcatTells ==
  ASSUME NEW E, NEW q \in Seq(E), NEW s \in Seq(E), NEW kind, NEW port_, NEW old, NEW new,
         Tells(q, kind, port_, old),
         \A i \in 1 .. Len(s) : IsOf(s[i], kind, port_) => s[i].value = new,
         Silent(s, kind, port_) => new = old
  PROVE  Tells(q \o s, kind, port_, new)
<1> SUFFICES ASSUME NEW i \in 1 .. Len(q \o s), IsOf((q \o s)[i], kind, port_),
                    \A j \in i + 1 .. Len(q \o s) : ~IsOf((q \o s)[j], kind, port_)
             PROVE  (q \o s)[i].value = new
  BY DEF Tells
<1>1. CASE i \in 1 .. Len(q)
  <2>1. (q \o s)[i] = q[i]
    BY <1>1, ConcatEvents
  <2>2. ASSUME NEW j \in i + 1 .. Len(q) PROVE ~IsOf(q[j], kind, port_)
    <3>1. j \in i + 1 .. Len(q \o s) /\ (q \o s)[j] = q[j]
      BY <1>1, ConcatEvents
    <3> QED
      BY <3>1
  <2>3. ASSUME NEW j \in 1 .. Len(s) PROVE ~IsOf(s[j], kind, port_)
    <3>1. Len(q) + j \in i + 1 .. Len(q \o s) /\ (q \o s)[Len(q) + j] = s[j]
      BY <1>1, ConcatEvents
    <3> QED
      BY <3>1
  <2> QED
    BY <1>1, <2>1, <2>2, <2>3 DEF Tells, Silent
<1>2. CASE i \notin 1 .. Len(q)
  <2>1. i - Len(q) \in 1 .. Len(s) /\ Len(q) + (i - Len(q)) = i
    BY <1>2, ConcatEvents
  <2>2. (q \o s)[i] = s[i - Len(q)]
    BY <2>1, ConcatEvents
  <2> QED
    BY <2>1, <2>2
<1> QED
  BY <1>1, <1>2

(***************************************************************************)
(* Steps of the events: one is delivered, the driver changes and tells, a  *)
(* port is selected and told, or nothing of this happens.                  *)
(***************************************************************************)

DriverTells(kind, port_, value) ==
  /\ driver' = [driver EXCEPT ![kind][port_] = value]
  /\ N!Send(kind, N!TypeOf(port_), <<N!Event(kind, port_, value)>>)
  /\ UNCHANGED <<select, reported, vrrType, vrrPorts>>

Selects(type, port_, plane_) ==
  /\ port_ = -1 \/ (port_ \in N!InputPorts /\ N!TypeOf(port_) = type)
  /\ N!selectPort(type, port_, plane_)
  /\ UNCHANGED <<driver, reported, vrrType, vrrPorts>>

EventsKept == UNCHANGED <<driver, select, queue, reported, vrrType, vrrPorts>>

LEMMA DriverSteps ==
  ASSUME N!DriverChanges
  PROVE  \E kind \in DriverKinds : \E port_ \in PortsOf(kind), value \in ValuesOf(kind) :
           DriverTells(kind, port_, value)
<1> DEFINE Of(port_) == IF port_ \in HdmiPorts THEN N!HdmiValues ELSE <<>>
           Change(port_, kind, value) ==
             /\ driver' = [driver EXCEPT ![kind][port_] = value]
             /\ N!Send(kind, N!TypeOf(port_), <<N!Event(kind, port_, value)>>)
<1>1. PICK q \in N!InputPorts :
        \/ \E kind \in DOMAIN N!Values(q) : \E value \in N!Values(q)[kind] : Change(q, kind, value)
        \/ \E kind \in DOMAIN Of(q) : \E value \in Of(q)[kind] : Change(q, kind, value)
  BY DEF N!DriverChanges
<1>2. UNCHANGED <<select, reported, vrrType, vrrPorts>>
  BY DEF N!DriverChanges, N!pluginVars, N!vrr
<1>3. CASE \E kind \in DOMAIN N!Values(q) : \E value \in N!Values(q)[kind] : Change(q, kind, value)
  <2>1. PICK kind \in DOMAIN N!Values(q) : \E value \in N!Values(q)[kind] : Change(q, kind, value)
    BY <1>3
  <2>2. kind \in {"connected", "signal", "mode"} /\ N!Values(q)[kind] = ValuesOf(kind)
    BY DEF N!Values, ValuesOf
  <2>3. kind \in DriverKinds /\ q \in PortsOf(kind)
    BY <2>2 DEF DriverKinds, PortsOf, HdmiKinds
  <2> QED
    BY <1>2, <2>1, <2>2, <2>3 DEF DriverTells
<1>4. CASE \E kind \in DOMAIN Of(q) : \E value \in Of(q)[kind] : Change(q, kind, value)
  <2>1. PICK kind \in DOMAIN Of(q) : \E value \in Of(q)[kind] : Change(q, kind, value)
    BY <1>4
  <2>2. q \in HdmiPorts
    BY <2>1
  <2>3. Of(q) = N!HdmiValues
    BY <2>2
  <2> HIDE DEF Of
  <2>4. kind \in HdmiKinds
    BY <2>1, <2>3 DEF N!HdmiValues, HdmiKinds
  <2>5. N!HdmiValues[kind] = ValuesOf(kind)
    BY <2>4, SMTT(30) DEF N!HdmiValues, ValuesOf, HdmiKinds
  <2>6. kind \in DriverKinds /\ q \in PortsOf(kind)
    BY <2>2, <2>4 DEF DriverKinds, PortsOf
  <2> QED
    BY <1>2, <2>1, <2>3, <2>5, <2>6 DEF DriverTells
<1> QED
  BY <1>1, <1>3, <1>4

\* What a start is about to do.
LEMMA StartAt ==
  ASSUME CallTypes, NEW c \in Callers, request[c].op = "start"
  PROVE  /\ request[c].plugin \in N!Plugins /\ request[c].port \in N!InputPorts
         /\ request[c].plane \in Planes /\ request[c].alone \in BOOLEAN
         /\ request[c].step \in {"plane", "select"}
<1>1. request[c] \in StartCalls
  BY CallOps DEF CallTypes
<1> QED
  BY <1>1 DEF StartCalls

LEMMA EventSteps ==
  ASSUME CallTypes, N!Next
  PROVE  \/ \E p \in N!Plugins : N!Deliver(p)
         \/ \E kind \in DriverKinds : \E port_ \in PortsOf(kind), value \in ValuesOf(kind) :
              DriverTells(kind, port_, value)
         \/ \E type \in {"HDMI", "COMPOSITE"} : \E port_, plane_ : Selects(type, port_, plane_)
         \/ EventsKept
<1>1. ASSUME NEW c \in Callers, N!startSelect(c)
      PROVE  \E type \in {"HDMI", "COMPOSITE"} : \E port_, plane_ : Selects(type, port_, plane_)
  <2>1. request[c].port \in N!InputPorts
    BY <1>1, StartAt DEF N!startSelect, N!At
  <2>2. UNCHANGED <<driver, reported, vrrType, vrrPorts>>
    BY <1>1 DEF N!startSelect, N!pluginVars, N!vrr
  <2>3. CASE request[c].port \in HdmiPorts
    <3>1. N!selectPort("HDMI", request[c].port, N!PlaneOf(request[c]))
      BY <1>1, <2>3 DEF N!startSelect
    <3>2. Selects("HDMI", request[c].port, N!PlaneOf(request[c]))
      BY <2>1, <2>2, <2>3, <3>1 DEF Selects, N!TypeOf
    <3> QED
      BY <3>2
  <2>4. CASE request[c].port \notin HdmiPorts
    <3>1. N!selectPort("COMPOSITE", request[c].port, 0)
      BY <1>1, <2>4 DEF N!startSelect
    <3>2. Selects("COMPOSITE", request[c].port, 0)
      BY <2>1, <2>2, <2>4, <3>1 DEF Selects, N!TypeOf
    <3> QED
      BY <3>2
  <2> QED
    BY <2>3, <2>4
<1>2. ASSUME NEW c \in Callers, N!stopSelect(c)
      PROVE  \E type \in {"HDMI", "COMPOSITE"} : \E port_, plane_ : Selects(type, port_, plane_)
  <2>1. request[c].type \in {"HDMI", "COMPOSITE"}
    BY <1>2, StopAt DEF N!stopSelect, N!At
  <2>2. Selects(request[c].type, -1, -1)
    BY <1>2 DEF N!stopSelect, Selects, N!vrr
  <2> QED
    BY <2>1, <2>2
<1>3. ASSUME NEW c \in Callers, \/ N!start(c) \/ N!startPlane(c) \/ N!stop(c) \/ N!stopRestores(c)
                                \/ N!setMixerLevels(c) \/ N!mixLevels(c) \/ N!mixRaises(c)
                                \/ N!DriverFails(c)
      PROVE  EventsKept
  BY <1>3 DEF N!start, N!startPlane, N!stop, N!stopRestores, N!setMixerLevels, N!mixLevels,
              N!mixRaises, N!DriverFails, EventsKept, N!driverVars, N!pluginVars, N!vrr
<1> QED
  BY <1>1, <1>2, <1>3, DriverSteps DEF N!Next, N!CallStep

\* The events of a selection: the port that is left is told off, the new one on.
SelectEvents(old, port_) ==
  (IF old \notin {-1, port_} THEN <<N!Event("status", old, FALSE)>> ELSE <<>>)
    \o IF port_ # -1 THEN <<N!Event("status", port_, TRUE)>> ELSE <<>>

TellsSelection(s, type, old, new) ==
  /\ s \in Seq(EventSet)
  /\ \A i \in 1 .. Len(s) :
       /\ s[i] \in EventSet /\ Proper(s[i]) /\ s[i].kind = "status" /\ N!TypeOf(s[i].port) = type
       /\ s[i].port # -1 /\ s[i].value = (s[i].port = new)
  /\ \A q \in N!InputPorts : q \in {old, new} \ {-1} /\ old # new => ~Silent(s, "status", q)
  /\ new # -1 => ~Silent(s, "status", new)

LEMMA EventIn ==
  ASSUME NEW kind \in EventKinds, NEW q \in PortsOf(kind), NEW value \in ValuesOf(kind)
  PROVE  N!Event(kind, q, value) \in EventSet /\ Proper(N!Event(kind, q, value))
<1>1. q \in N!InputPorts
  BY DEF PortsOf, N!InputPorts
<1> QED
  BY <1>1 DEF EventSet, Proper, N!Event

LEMMA SelectionTold ==
  ASSUME NEW type, NEW old, NEW new, NEW s, s = SelectEvents(old, new),
         old = -1 \/ (old \in N!InputPorts /\ N!TypeOf(old) = type),
         new = -1 \/ (new \in N!InputPorts /\ N!TypeOf(new) = type)
  PROVE  TellsSelection(s, type, old, new)
<1>1. "status" \in EventKinds /\ PortsOf("status") = N!InputPorts /\ ValuesOf("status") = BOOLEAN
  BY DEF EventKinds, PortsOf, HdmiKinds, ValuesOf
<1>2. -1 \notin N!InputPorts
  BY PartsAssumption DEF N!InputsAssumption, N!InputPorts
<1>3. ASSUME NEW q \in N!InputPorts, NEW value \in BOOLEAN, NEW e, e = N!Event("status", q, value)
      PROVE  e \in EventSet /\ Proper(e) /\ e.kind = "status" /\ e.port = q /\ e.value = value
  BY <1>1, <1>3, EventIn DEF N!Event
<1> DEFINE off == N!Event("status", old, FALSE)
           on  == N!Event("status", new, TRUE)
<1>4. old # -1 => off \in EventSet /\ Proper(off) /\ off.kind = "status" /\ off.port = old /\ off.value = FALSE
  BY <1>3
<1>5. new # -1 => on \in EventSet /\ Proper(on) /\ on.kind = "status" /\ on.port = new /\ on.value = TRUE
  BY <1>3
<1> DEFINE left    == IF old \notin {-1, new} THEN <<off>> ELSE <<>>
           entered == IF new # -1 THEN <<on>> ELSE <<>>
<1>6. SelectEvents(old, new) = left \o entered
  BY DEF SelectEvents
<1> HIDE DEF off, on
<1>7. /\ left \in Seq(EventSet) /\ entered \in Seq(EventSet)
      /\ old \notin {-1, new} => Len(left) = 1 /\ left[1] = off
      /\ old \in {-1, new} => Len(left) = 0
      /\ new # -1 => Len(entered) = 1 /\ entered[1] = on
      /\ new = -1 => Len(entered) = 0
  BY <1>4, <1>5
<1> HIDE DEF left, entered
<1>9. /\ s \in Seq(EventSet) /\ Len(s) = Len(left) + Len(entered)
      /\ \A i \in 1 .. Len(left) : s[i] = left[i]
      /\ \A i \in 1 .. Len(entered) : s[Len(left) + i] = entered[i]
  BY <1>6, <1>7, ConcatEvents
<1>10. ASSUME NEW i \in 1 .. Len(s)
       PROVE  (s[i] = off /\ old \notin {-1, new}) \/ (s[i] = on /\ new # -1)
  <2>1. CASE i \in 1 .. Len(left)
    <3>1. Len(left) # 0
      BY <2>1
    <3>2. old \notin {-1, new}
      BY <1>7, <3>1
    <3>3. Len(left) = 1 /\ left[1] = off
      BY <1>7, <3>2
    <3>4. i = 1
      BY <2>1, <3>3
    <3> QED
      BY <1>9, <2>1, <3>2, <3>3, <3>4
  <2>2. CASE i \notin 1 .. Len(left)
    <3>1. i - Len(left) \in 1 .. Len(entered) /\ Len(left) + (i - Len(left)) = i
      BY <1>7, <1>9, <2>2
    <3>2. Len(entered) # 0
      BY <3>1
    <3>3. new # -1
      BY <1>7, <3>2
    <3>4. Len(entered) = 1 /\ entered[1] = on
      BY <1>7, <3>3
    <3>5. i - Len(left) = 1
      BY <3>1, <3>4
    <3>6. s[i] = entered[i - Len(left)]
      BY <1>9, <3>1
    <3> QED
      BY <3>3, <3>4, <3>5, <3>6
  <2> QED
    BY <2>1, <2>2
<1>11. old \notin {-1, new} => \E i \in 1 .. Len(s) : s[i] = off
  <2> SUFFICES ASSUME old \notin {-1, new} PROVE 1 \in 1 .. Len(s) /\ s[1] = off
    OBVIOUS
  <2>1. Len(left) = 1 /\ left[1] = off /\ Len(entered) \in Nat
    BY <1>7
  <2> QED
    BY <1>9, <2>1
<1>12. new # -1 => \E i \in 1 .. Len(s) : s[i] = on
  <2> SUFFICES ASSUME new # -1 PROVE Len(left) + 1 \in 1 .. Len(s) /\ s[Len(left) + 1] = on
    OBVIOUS
  <2>1. Len(entered) = 1 /\ entered[1] = on /\ Len(left) \in Nat /\ 1 \in 1 .. Len(entered)
    BY <1>7
  <2> QED
    BY <1>9, <2>1
<1>13. \A i \in 1 .. Len(s) :
         /\ s[i] \in EventSet /\ Proper(s[i]) /\ s[i].kind = "status" /\ N!TypeOf(s[i].port) = type
         /\ s[i].port # -1 /\ s[i].value = (s[i].port = new)
  <2> SUFFICES ASSUME NEW i \in 1 .. Len(s)
               PROVE  /\ s[i] \in EventSet /\ Proper(s[i]) /\ s[i].kind = "status"
                      /\ N!TypeOf(s[i].port) = type
                      /\ s[i].port # -1 /\ s[i].value = (s[i].port = new)
    OBVIOUS
  <2>1. CASE s[i] = off /\ old \notin {-1, new}
    BY <1>4, <2>1
  <2>2. CASE s[i] = on /\ new # -1
    BY <1>5, <2>2
  <2> QED
    BY <1>10, <2>1, <2>2
<1>14. ASSUME NEW q \in N!InputPorts, q \in {old, new} \ {-1}, old # new PROVE ~Silent(s, "status", q)
  BY <1>4, <1>5, <1>11, <1>12, <1>14 DEF Silent, IsOf
<1>15. new # -1 => ~Silent(s, "status", new)
  BY <1>5, <1>12 DEF Silent, IsOf
<1> QED
  BY <1>9, <1>13, <1>14, <1>15 DEF TellsSelection

\* Events after which the last word on a port is new, and was old.
Updates(s, kind, port_, old, new) ==
  /\ \A i \in 1 .. Len(s) : IsOf(s[i], kind, port_) => s[i].value = new
  /\ Silent(s, kind, port_) => new = old

\* Events that join the queues of those who listen.
LEMMA SendTells ==
  ASSUME QueueTypes, NEW kind, NEW type, NEW s \in Seq(EventSet), N!Send(kind, type, s),
         NEW p \in N!Plugins, NEW k, NEW q, NEW old, NEW new,
         Tells(queue[p], k, q, old), Updates(s, k, q, old, new),
         ~N!Listens(p, kind, type) => Silent(s, k, q)
  PROVE  /\ Tells(queue'[p], k, q, new)
         /\ Silent(queue'[p], k, q) => Silent(queue[p], k, q) /\ new = old
<1>1. queue[p] \in Seq(EventSet)
  BY DEF QueueTypes
<1>2. queue'[p] = IF N!Listens(p, kind, type) THEN queue[p] \o s ELSE queue[p]
  BY DEF N!Send
<1>3. CASE N!Listens(p, kind, type)
  BY <1>1, <1>2, <1>3, ConcatTells, ConcatSilent DEF Updates
<1>4. CASE ~N!Listens(p, kind, type)
  BY <1>2, <1>4 DEF Updates
<1> QED
  BY <1>3, <1>4

LEMMA SendTypes ==
  ASSUME QueueTypes, NEW kind, NEW type, NEW s \in Seq(EventSet), N!Send(kind, type, s),
         \A i \in 1 .. Len(s) : Proper(s[i]) /\ s[i].kind = kind /\ N!TypeOf(s[i].port) = type
  PROVE  QueueTypes'
<1>1. queue' = [p \in N!Plugins |-> IF N!Listens(p, kind, type) THEN queue[p] \o s ELSE queue[p]]
  BY DEF N!Send
<1>2. ASSUME NEW p \in N!Plugins
      PROVE  /\ queue'[p] \in Seq(EventSet)
             /\ \A i \in 1 .. Len(queue'[p]) :
                  Proper(queue'[p][i]) /\ N!Listens(p, queue'[p][i].kind, N!TypeOf(queue'[p][i].port))
  <2>1. queue[p] \in Seq(EventSet)
    BY DEF QueueTypes
  <2>2. CASE N!Listens(p, kind, type)
    <3>1. queue'[p] = queue[p] \o s
      BY <1>1, <2>2
    <3>2. /\ queue'[p] \in Seq(EventSet) /\ Len(queue'[p]) = Len(queue[p]) + Len(s)
          /\ Len(queue[p]) \in Nat /\ Len(s) \in Nat
          /\ \A i \in 1 .. Len(queue[p]) : queue'[p][i] = queue[p][i]
          /\ \A i \in 1 .. Len(s) : queue'[p][Len(queue[p]) + i] = s[i]
      BY <2>1, <3>1, ConcatEvents
    <3>3. ASSUME NEW i \in 1 .. Len(queue'[p])
          PROVE  Proper(queue'[p][i]) /\ N!Listens(p, queue'[p][i].kind, N!TypeOf(queue'[p][i].port))
      <4>1. CASE i \in 1 .. Len(queue[p])
        <5>1. queue'[p][i] = queue[p][i]
          BY <3>2, <4>1
        <5> QED
          BY <4>1, <5>1 DEF QueueTypes
      <4>2. CASE i \notin 1 .. Len(queue[p])
        <5>1. i - Len(queue[p]) \in 1 .. Len(s) /\ Len(queue[p]) + (i - Len(queue[p])) = i
          BY <3>2, <4>2
        <5>2. queue'[p][i] = s[i - Len(queue[p])]
          BY <3>2, <5>1
        <5> QED
          BY <2>2, <5>1, <5>2
      <4> QED
        BY <4>1, <4>2
    <3> QED
      BY <3>2, <3>3
  <2>3. CASE ~N!Listens(p, kind, type)
    <3>1. queue'[p] = queue[p]
      BY <1>1, <2>3
    <3> QED
      BY <3>1 DEF QueueTypes
  <2> QED
    BY <2>2, <2>3
<1> QED
  BY <1>1, <1>2 DEF QueueTypes

(***************************************************************************)
(* What clients heard of a port, what is true of it, and how it is told.   *)
(***************************************************************************)

Heard(p, kind, port_) ==
  IF kind = "status" THEN reported[p]["status"][port_].started ELSE reported[p][kind][port_]

Truth(kind, port_) ==
  IF kind = "status" THEN select[N!TypeOf(port_)].port = port_ ELSE driver[kind][port_]

Told(kind, port_, value) ==
  IF kind = "mode" THEN <<N!Size(N!TypeOf(port_), value[1]), N!FrameRate(value[2])>> ELSE value

LEMMA HeadOfQueue ==
  ASSUME QueueTypes, NEW p \in N!Plugins, queue[p] # <<>>
  PROVE  /\ Head(queue[p]) \in EventSet /\ Proper(Head(queue[p]))
         /\ N!Listens(p, Head(queue[p]).kind, N!TypeOf(Head(queue[p]).port))
<1>1. queue[p] \in Seq(EventSet)
  BY DEF QueueTypes
<1>2. Head(queue[p]) = queue[p][1] /\ Head(queue[p]) \in EventSet /\ 1 \in 1 .. Len(queue[p])
  BY <1>1, TailOfEvents
<1> QED
  BY <1>2 DEF QueueTypes

LEMMA DeliverTypes ==
  ASSUME QueueTypes, NEW p \in N!Plugins, N!Deliver(p)
  PROVE  /\ QueueTypes' /\ queue'[p] = Tail(queue[p])
         /\ \A r \in N!Plugins \ {p} : queue'[r] = queue[r]
<1>1. queue[p] # <<>> /\ queue' = [queue EXCEPT ![p] = Tail(queue[p])]
  BY DEF N!Deliver
<1>2. queue[p] \in Seq(EventSet)
  BY DEF QueueTypes
<1>3. /\ queue'[p] = Tail(queue[p]) /\ queue' \in [N!Plugins -> Seq(EventSet)]
      /\ \A r \in N!Plugins \ {p} : queue'[r] = queue[r]
  <2>1. Tail(queue[p]) \in Seq(EventSet)
    BY <1>1, <1>2, TailOfEvents
  <2> QED
    BY <1>1, <2>1 DEF QueueTypes
<1>4. ASSUME NEW i \in 1 .. Len(Tail(queue[p]))
      PROVE  i + 1 \in 1 .. Len(queue[p]) /\ Tail(queue[p])[i] = queue[p][i + 1]
  <2>1. /\ Len(Tail(queue[p])) = Len(queue[p]) - 1 /\ Len(queue[p]) >= 1 /\ Len(queue[p]) \in Nat
        /\ \A j \in 1 .. Len(queue[p]) - 1 : Tail(queue[p])[j] = queue[p][j + 1]
    BY <1>1, <1>2, TailOfEvents
  <2> QED
    BY <2>1
<1>5. \A i \in 1 .. Len(queue'[p]) :
        Proper(queue'[p][i]) /\ N!Listens(p, queue'[p][i].kind, N!TypeOf(queue'[p][i].port))
  BY <1>3, <1>4 DEF QueueTypes
<1> QED
  BY <1>3, <1>5 DEF QueueTypes

\* A delivery tells the clients of one plugin the value of the event; a hot plug
\* tells them what the driver has of every port of the type, and a VRR event is
\* the business of VrrHeard.
LEMMA DeliverHears ==
  ASSUME EventTypes, NEW p \in N!Plugins, N!Deliver(p), NEW e, e = Head(queue[p])
  PROVE  /\ DOMAIN reported' = N!Plugins
         /\ \A r \in N!Plugins : DOMAIN reported'[r] = EventKinds
         /\ \A r \in N!Plugins, kind \in EventKinds : DOMAIN reported'[r][kind] = PortsOf(kind)
         /\ \A r \in N!Plugins, kind \in EventKinds \ {"VRR"} : \A q \in PortsOf(kind) :
              \/ ~(r = p /\ IsOf(e, kind, q)) /\ Heard(r, kind, q)' = Heard(r, kind, q)
              \/ r = p /\ IsOf(e, kind, q) /\ Heard(r, kind, q)' = Told(kind, q, e.value)
              \/ kind = "connected" /\ Heard(r, kind, q)' = driver["connected"][q]
         /\ \A r \in N!Plugins, q \in HdmiPorts : ~(r = p /\ IsOf(e, "VRR", q)) =>
              reported'[r]["VRR"][q] = reported[r]["VRR"][q]
         /\ \A q \in HdmiPorts : IsOf(e, "VRR", q) =>
              reported'[p]["VRR"][q] = (reported[p]["VRR"][q] \ {vrrType}) \cup ({e.value} \ {N!NoVrr})
<1>1. /\ e \in EventSet /\ Proper(e) /\ queue[p] # <<>>
      /\ e.kind \in EventKinds /\ e.port \in PortsOf(e.kind)
  BY HeadOfQueue DEF EventTypes, N!Deliver, EventSet, Proper
<1>2. /\ DOMAIN reported = N!Plugins
      /\ \A r \in N!Plugins : DOMAIN reported[r] = EventKinds
      /\ \A r \in N!Plugins, kind \in EventKinds : DOMAIN reported[r][kind] = PortsOf(kind)
  BY DEF EventTypes, TableTypes
<1>3. PortsOf("VRR") = HdmiPorts /\ PortsOf("connected") = N!InputPorts /\ "VRR" \in EventKinds
      /\ "connected" \in EventKinds
  BY DEF PortsOf, HdmiKinds, EventKinds, DriverKinds
<1> DEFINE WithValue(value) == [reported EXCEPT ![p][e.kind][e.port] = value]
<1>4. ASSUME NEW value, reported' = WithValue(value)
      PROVE  /\ DOMAIN reported' = N!Plugins
             /\ \A r \in N!Plugins : DOMAIN reported'[r] = EventKinds
             /\ \A r \in N!Plugins, kind \in EventKinds : DOMAIN reported'[r][kind] = PortsOf(kind)
             /\ \A r \in N!Plugins, kind \in EventKinds : \A q \in PortsOf(kind) :
                  reported'[r][kind][q] = IF r = p /\ IsOf(e, kind, q) THEN value ELSE reported[r][kind][q]
  <2>1. /\ DOMAIN reported' = N!Plugins /\ \A r \in N!Plugins \ {p} : reported'[r] = reported[r]
        /\ reported'[p] = [reported[p] EXCEPT ![e.kind][e.port] = value]
    BY <1>2, <1>4
  <2>2. /\ DOMAIN reported'[p] = EventKinds
        /\ \A kind \in EventKinds \ {e.kind} : reported'[p][kind] = reported[p][kind]
        /\ reported'[p][e.kind] = [reported[p][e.kind] EXCEPT ![e.port] = value]
    BY <1>1, <1>2, <2>1
  <2>3. /\ DOMAIN reported'[p][e.kind] = PortsOf(e.kind)
        /\ \A q \in PortsOf(e.kind) :
             reported'[p][e.kind][q] = IF q = e.port THEN value ELSE reported[p][e.kind][q]
    <3>1. PICK before : before = reported[p][e.kind]
      OBVIOUS
    <3>2. DOMAIN before = PortsOf(e.kind)
      BY <1>1, <1>2, <3>1
    <3>3. reported'[p][e.kind] = [before EXCEPT ![e.port] = value]
      BY <2>2, <3>1
    <3>4. PICK after : after = reported'[p][e.kind]
      OBVIOUS
    <3>5. after = [before EXCEPT ![e.port] = value]
      BY <3>3, <3>4
    <3>6. /\ DOMAIN after = PortsOf(e.kind)
          /\ \A q \in PortsOf(e.kind) : after[q] = IF q = e.port THEN value ELSE before[q]
      BY <1>1, <3>2, <3>5
    <3> QED
      BY <3>1, <3>4, <3>6
  <2> HIDE DEF WithValue
  <2>4. /\ \A r \in N!Plugins : DOMAIN reported'[r] = EventKinds
        /\ \A r \in N!Plugins, kind \in EventKinds : DOMAIN reported'[r][kind] = PortsOf(kind)
    <3>1. ASSUME NEW r \in N!Plugins \ {p}
          PROVE  /\ DOMAIN reported'[r] = EventKinds
                 /\ \A kind \in EventKinds : DOMAIN reported'[r][kind] = PortsOf(kind)
      BY <1>2, <2>1
    <3>2. ASSUME NEW kind \in EventKinds
          PROVE  DOMAIN reported'[p][kind] = PortsOf(kind)
      <4>1. CASE kind = e.kind
        BY <2>3, <4>1
      <4>2. CASE kind # e.kind
        <5>1. reported'[p][kind] = reported[p][kind]
          BY <2>2, <4>2
        <5> QED
          BY <1>2, <5>1
      <4> QED
        BY <4>1, <4>2
    <3> QED
      BY <2>2, <3>1, <3>2
  <2>5. ASSUME NEW r \in N!Plugins, NEW kind \in EventKinds, NEW q \in PortsOf(kind)
        PROVE  reported'[r][kind][q] = IF r = p /\ IsOf(e, kind, q) THEN value
                                       ELSE reported[r][kind][q]
    <3>1. CASE r # p
      <4>1. reported'[r] = reported[r]
        BY <2>1, <3>1
      <4> QED
        BY <3>1, <4>1
    <3>2. CASE r = p /\ kind # e.kind
      <4>1. reported'[r][kind] = reported[r][kind]
        BY <2>2, <3>2
      <4>2. ~IsOf(e, kind, q)
        BY <3>2 DEF IsOf
      <4> QED
        BY <4>1, <4>2
    <3>3. CASE r = p /\ kind = e.kind
      <4>1. IsOf(e, kind, q) <=> q = e.port
        BY <3>3 DEF IsOf
      <4> QED
        BY <2>3, <3>3, <4>1
    <3> QED
      BY <3>1, <3>2, <3>3
  <2> QED
    BY <2>1, <2>4, <2>5
<1> HIDE DEF WithValue
<1>5. CASE e.kind = "connected"
  <2>1. reported' = [reported EXCEPT ![p]["connected"] = N!getInputDevices(N!TypeOf(e.port), reported[p]["connected"])]
    BY <1>5 DEF N!Deliver
  <2>2. PICK known : known = N!getInputDevices(N!TypeOf(e.port), reported[p]["connected"])
    OBVIOUS
  <2>3. DOMAIN known = N!InputPorts /\ \A q \in N!InputPorts :
          known[q] = IF N!TypeOf(q) = N!TypeOf(e.port) THEN driver["connected"][q] ELSE reported[p]["connected"][q]
    BY <2>2 DEF N!getInputDevices
  <2>4. reported' = [reported EXCEPT ![p]["connected"] = known]
    BY <2>1, <2>2
  <2>5. /\ DOMAIN reported' = N!Plugins
        /\ \A r \in N!Plugins : DOMAIN reported'[r] = EventKinds
        /\ \A r \in N!Plugins, kind \in EventKinds :
             reported'[r][kind] = IF r = p /\ kind = "connected" THEN known ELSE reported[r][kind]
    BY <1>2, <1>3, <2>4
  <2>6. \A r \in N!Plugins, kind \in EventKinds : DOMAIN reported'[r][kind] = PortsOf(kind)
    BY <1>2, <1>3, <2>3, <2>5
  <2>7. ASSUME NEW r \in N!Plugins, NEW kind \in EventKinds \ {"VRR"}, NEW q \in PortsOf(kind)
        PROVE  \/ ~(r = p /\ IsOf(e, kind, q)) /\ Heard(r, kind, q)' = Heard(r, kind, q)
               \/ kind = "connected" /\ Heard(r, kind, q)' = driver["connected"][q]
    <3>1. CASE r = p /\ kind = "connected"
      <4>1. Heard(r, kind, q)' = known[q] /\ Heard(r, kind, q) = reported[p]["connected"][q] /\ q \in N!InputPorts
        BY <1>3, <2>5, <3>1 DEF Heard
      <4>2. CASE N!TypeOf(q) = N!TypeOf(e.port)
        BY <2>3, <3>1, <4>1, <4>2
      <4>3. CASE N!TypeOf(q) # N!TypeOf(e.port)
        <5>1. ~IsOf(e, kind, q)
          BY <4>3 DEF IsOf
        <5> QED
          BY <2>3, <4>1, <4>3, <5>1
      <4> QED
        BY <4>2, <4>3
    <3>2. CASE ~(r = p /\ kind = "connected")
      <4>1. reported'[r][kind] = reported[r][kind]
        BY <2>5, <3>2
      <4>2. Heard(r, kind, q)' = Heard(r, kind, q)
        BY <4>1 DEF Heard
      <4> QED
        BY <1>5, <3>2, <4>2 DEF IsOf
    <3> QED
      BY <3>1, <3>2
  <2>8. \A r \in N!Plugins, q \in HdmiPorts :
          ~IsOf(e, "VRR", q) /\ reported'[r]["VRR"][q] = reported[r]["VRR"][q]
    BY <1>3, <1>5, <2>5 DEF IsOf
  <2> QED
    BY <2>5, <2>6, <2>7, <2>8
<1>6. CASE e.kind = "VRR"
  <2>1. reported' = [reported EXCEPT ![p]["VRR"] =
                       N!dsAVGameFeatureStatusEventHandler(reported[p]["VRR"], e.port, e.value)]
    BY <1>6 DEF N!Deliver
  <2>2. N!dsAVGameFeatureStatusEventHandler(reported[p]["VRR"], e.port, e.value) =
          [reported[p]["VRR"] EXCEPT ![e.port] =
             (reported[p]["VRR"][e.port] \ {vrrType}) \cup ({e.value} \ {N!NoVrr})]
    BY DEF N!dsAVGameFeatureStatusEventHandler
  <2>3. PICK value : value = (reported[p]["VRR"][e.port] \ {vrrType}) \cup ({e.value} \ {N!NoVrr})
    OBVIOUS
  <2>4. PICK on : on = [reported[p]["VRR"] EXCEPT ![e.port] = value]
    OBVIOUS
  <2>5. reported' = [reported EXCEPT ![p]["VRR"] = on]
    BY <2>1, <2>2, <2>3, <2>4
  <2>6. /\ DOMAIN reported' = N!Plugins
        /\ \A r \in N!Plugins : DOMAIN reported'[r] = EventKinds
        /\ \A r \in N!Plugins, kind \in EventKinds :
             reported'[r][kind] = IF r = p /\ kind = "VRR" THEN on ELSE reported[r][kind]
    BY <1>2, <1>3, <2>5
  <2>7. DOMAIN on = HdmiPorts
        /\ \A q \in HdmiPorts : on[q] = IF q = e.port THEN value ELSE reported[p]["VRR"][q]
    BY <1>2, <1>3, <2>4
  <2>8. \A r \in N!Plugins, kind \in EventKinds : DOMAIN reported'[r][kind] = PortsOf(kind)
    BY <1>2, <1>3, <2>6, <2>7
  <2>9. \A r \in N!Plugins, kind \in EventKinds \ {"VRR"} : \A q \in PortsOf(kind) :
          ~IsOf(e, kind, q) /\ Heard(r, kind, q)' = Heard(r, kind, q)
    BY <1>6, <2>6 DEF Heard, IsOf
  <2>10. \A r \in N!Plugins, q \in HdmiPorts : ~(r = p /\ IsOf(e, "VRR", q)) =>
           reported'[r]["VRR"][q] = reported[r]["VRR"][q]
    BY <1>3, <1>6, <2>6, <2>7 DEF IsOf
  <2>11. \A q \in HdmiPorts : IsOf(e, "VRR", q) =>
           reported'[p]["VRR"][q] = (reported[p]["VRR"][q] \ {vrrType}) \cup ({e.value} \ {N!NoVrr})
    BY <1>3, <2>3, <2>6, <2>7 DEF IsOf
  <2> QED
    BY <2>6, <2>8, <2>9, <2>10, <2>11
<1>7. CASE e.kind \in EventKinds \ {"connected", "VRR"}
  <2>1. PICK value :
          /\ reported' = WithValue(value)
          /\ e.kind = "mode" => value = <<N!Size(N!TypeOf(e.port), e.value[1]), N!FrameRate(e.value[2])>>
          /\ e.kind = "status" => value = [started |-> e.value, plane |-> planeType[p]]
          /\ e.kind \notin {"mode", "status"} => value = e.value
    <3>1. CASE e.kind = "mode"
      BY <1>7, <3>1, Zenon DEF N!Deliver, WithValue
    <3>2. CASE e.kind = "status"
      BY <1>7, <3>2, Zenon DEF N!Deliver, WithValue
    <3>3. CASE e.kind \notin {"mode", "status"}
      BY <1>7, <3>3, Zenon DEF N!Deliver, WithValue
    <3> QED
      BY <3>1, <3>2, <3>3, Zenon
  <2>2. /\ DOMAIN reported' = N!Plugins
        /\ \A r \in N!Plugins : DOMAIN reported'[r] = EventKinds
        /\ \A r \in N!Plugins, kind \in EventKinds : DOMAIN reported'[r][kind] = PortsOf(kind)
        /\ \A r \in N!Plugins, kind \in EventKinds : \A q \in PortsOf(kind) :
             reported'[r][kind][q] = IF r = p /\ IsOf(e, kind, q) THEN value ELSE reported[r][kind][q]
    BY <1>4, <2>1
  <2>3. ASSUME NEW r \in N!Plugins, NEW kind \in EventKinds \ {"VRR"}, NEW q \in PortsOf(kind)
        PROVE  \/ ~(r = p /\ IsOf(e, kind, q)) /\ Heard(r, kind, q)' = Heard(r, kind, q)
               \/ r = p /\ IsOf(e, kind, q) /\ Heard(r, kind, q)' = Told(kind, q, e.value)
    <3>1. CASE r = p /\ IsOf(e, kind, q)
      <4>1. reported'[r][kind][q] = value
        BY <2>2, <3>1
      <4>2. CASE kind = "status"
        <5>1. Heard(r, kind, q)' = e.value
          BY <2>1, <3>1, <4>1, <4>2 DEF Heard, IsOf
        <5> QED
          BY <3>1, <4>2, <5>1 DEF Told
      <4>3. CASE kind # "status"
        <5>1. Heard(r, kind, q)' = value
          BY <4>1, <4>3 DEF Heard
        <5>2. value = Told(kind, q, e.value)
          BY <2>1, <3>1, <4>3 DEF Told, IsOf
        <5> QED
          BY <3>1, <5>1, <5>2
      <4> QED
        BY <4>2, <4>3
    <3>2. CASE ~(r = p /\ IsOf(e, kind, q))
      <4>1. reported'[r][kind][q] = reported[r][kind][q]
        BY <2>2, <3>2
      <4> QED
        BY <3>2, <4>1 DEF Heard
    <3> QED
      BY <3>1, <3>2
  <2>4. \A r \in N!Plugins, q \in HdmiPorts :
          ~IsOf(e, "VRR", q) /\ reported'[r]["VRR"][q] = reported[r]["VRR"][q]
    BY <1>3, <1>7, <2>2 DEF IsOf
  <2> QED
    BY <2>2, <2>3, <2>4
<1> QED
  BY <1>1, <1>5, <1>6, <1>7

(***************************************************************************)
(* Inputs: events converge.  The last event of a kind and a port that is   *)
(* on its way to a plugin tells the truth, and when none is on its way the *)
(* clients have WithValue it.                                                  *)
(***************************************************************************)

Converges(p, kind, port_) ==
  /\ Tells(queue[p], kind, port_, Truth(kind, port_))
  /\ Silent(queue[p], kind, port_) =>
       Heard(p, kind, port_) = Told(kind, port_, Truth(kind, port_))

Following ==
  \A p \in N!Plugins, kind \in EventKinds \ {"VRR"} : \A q \in PortsOf(kind) :
    N!Listens(p, kind, N!TypeOf(q)) => Converges(p, kind, q)

\* AVInput keeps one VRR type: it is the one of the only port it has WithValue of.
VrrHeard ==
  \A q \in HdmiPorts :
    /\ Tells(queue["AVInput"], "VRR", q, driver["VRR"][q])
    /\ vrrPorts \subseteq {q} =>
         /\ reported["AVInput"]["VRR"][q] = {vrrType} \ {N!NoVrr}
         /\ Silent(queue["AVInput"], "VRR", q) => vrrType = driver["VRR"][q]

EventInv == EventTypes /\ Following /\ VrrHeard

LEMMA KindFacts ==
  /\ "VRR" \in DriverKinds /\ "status" \notin DriverKinds /\ "status" \in EventKinds
  /\ DriverKinds \subseteq EventKinds /\ \A kind \in EventKinds : kind = "status" \/ kind \in DriverKinds
  /\ PortsOf("VRR") = HdmiPorts /\ PortsOf("status") = N!InputPorts
  /\ \A kind \in EventKinds : PortsOf(kind) \subseteq N!InputPorts
  /\ \A q \in N!InputPorts : N!TypeOf(q) \in {"HDMI", "COMPOSITE"}
  /\ \A q \in HdmiPorts : N!TypeOf(q) = "HDMI"
  /\ "AVInput" \in N!Plugins /\ \A kind, type : N!Listens("AVInput", kind, type)
  /\ -1 \notin N!InputPorts
<1>1. -1 \notin N!InputPorts
  BY PartsAssumption DEF N!InputsAssumption, N!InputPorts
<1> QED
  BY <1>1 DEF DriverKinds, EventKinds, HdmiKinds, PortsOf, N!InputPorts, N!TypeOf, N!Plugins, N!Listens

LEMMA EventStart == N!Init => EventInv
<1> SUFFICES ASSUME N!Init PROVE EventInv
  OBVIOUS
<1>1. queue = [p \in N!Plugins |-> <<>>]
  BY DEF N!Init
<1>2. QueueTypes
  <2>1. \A p \in N!Plugins : queue[p] \in Seq(EventSet) /\ Len(queue[p]) = 0
    BY <1>1
  <2> QED
    BY <1>1, <2>1 DEF QueueTypes
<1>3. SelectTypes
  BY DEF N!Init, SelectTypes
<1>4. /\ DOMAIN driver = DriverKinds
      /\ \A kind \in DriverKinds : DOMAIN driver[kind] = PortsOf(kind)
      /\ driver["VRR"] = [q \in HdmiPorts |-> N!NoVrr]
  BY DEF N!Init, DriverKinds, HdmiKinds, PortsOf
<1>5. DOMAIN reported = N!Plugins
      /\ \A p \in N!Plugins : reported[p] =
           [connected |-> driver.connected, signal |-> driver.signal,
            mode      |-> [port_ \in N!InputPorts |->
                             <<N!Size(N!TypeOf(port_), N!Some(Pixels)), N!FrameRate(N!Some(Rates))>>],
            ALLM      |-> driver.ALLM, content |-> driver.content,
            VRR       |-> [port_ \in HdmiPorts |-> {}],
            status    |-> [port_ \in N!InputPorts |-> [started |-> FALSE, plane |-> -1]]]
  BY DEF N!Init
<1>6. \A p \in N!Plugins : DOMAIN reported[p] = EventKinds
  BY <1>5 DEF EventKinds, DriverKinds, HdmiKinds
<1>7. \A p \in N!Plugins, kind \in EventKinds : DOMAIN reported[p][kind] = PortsOf(kind)
  BY <1>4, <1>5 DEF EventKinds, DriverKinds, HdmiKinds, PortsOf
<1>8. TableTypes
  BY <1>4, <1>5, <1>6, <1>7 DEF N!Init, TableTypes, ValuesOf
<1>9. \A p \in N!Plugins : \A kind, q, value : Silent(queue[p], kind, q) /\ Tells(queue[p], kind, q, value)
  BY <1>1 DEF Silent, Tells
<1>10. ASSUME NEW p \in N!Plugins, NEW kind \in EventKinds \ {"VRR"}, NEW q \in PortsOf(kind)
       PROVE  Heard(p, kind, q) = Told(kind, q, Truth(kind, q))
  <2>1. q \in N!InputPorts /\ q # -1 /\ N!TypeOf(q) \in {"HDMI", "COMPOSITE"}
    BY KindFacts
  <2>2. CASE kind = "mode"
    <3>1. driver["mode"][q] = <<N!Some(Pixels), N!Some(Rates)>>
      BY <2>1 DEF N!Init
    <3> QED
      BY <1>5, <2>1, <2>2, <3>1 DEF Heard, Told, Truth
  <2>3. CASE kind = "status"
    <3>1. select[N!TypeOf(q)].port = -1
      BY <2>1 DEF N!Init
    <3>2. Heard(p, "status", q) = FALSE
      BY <1>5, <2>1 DEF Heard
    <3>3. Truth("status", q) = FALSE
      BY <2>1, <3>1 DEF Truth
    <3> QED
      BY <2>3, <3>2, <3>3 DEF Told
  <2>4. CASE kind \in {"connected", "signal", "ALLM", "content"}
    BY <1>5, <2>4 DEF Heard, Told, Truth
  <2> QED
    BY <2>2, <2>3, <2>4 DEF EventKinds, DriverKinds, HdmiKinds
<1>11. VrrHeard
  BY <1>4, <1>5, <1>9, KindFacts DEF VrrHeard, N!Init
<1> QED
  BY <1>2, <1>3, <1>8, <1>9, <1>10, <1>11 DEF EventInv, EventTypes, Following, Converges

LEMMA DeliverConverges ==
  ASSUME EventInv, NEW p \in N!Plugins, N!Deliver(p)
  PROVE  EventInv'
<1> PICK e : e = Head(queue[p])
  OBVIOUS
<1>1. /\ e \in EventSet /\ Proper(e) /\ N!Listens(p, e.kind, N!TypeOf(e.port)) /\ queue[p] # <<>>
      /\ queue[p] \in Seq(EventSet)
  BY HeadOfQueue DEF EventInv, EventTypes, QueueTypes, N!Deliver
<1>2. QueueTypes' /\ queue'[p] = Tail(queue[p]) /\ \A r \in N!Plugins \ {p} : queue'[r] = queue[r]
  BY DeliverTypes DEF EventInv, EventTypes
<1>3. UNCHANGED <<driver, select>>
  BY DEF N!Deliver, N!driverVars
<1>4. /\ vrrType' = IF e.kind = "VRR" THEN e.value ELSE vrrType
      /\ vrrPorts' = IF e.kind = "VRR" THEN vrrPorts \cup {e.port} ELSE vrrPorts
  BY DEF N!Deliver
<1>5. /\ DOMAIN reported' = N!Plugins
      /\ \A r \in N!Plugins : DOMAIN reported'[r] = EventKinds
      /\ \A r \in N!Plugins, kind \in EventKinds : DOMAIN reported'[r][kind] = PortsOf(kind)
  BY DeliverHears DEF EventInv
<1>6. \A r \in N!Plugins, kind \in EventKinds \ {"VRR"} : \A q \in PortsOf(kind) :
        \/ ~(r = p /\ IsOf(e, kind, q)) /\ Heard(r, kind, q)' = Heard(r, kind, q)
        \/ r = p /\ IsOf(e, kind, q) /\ Heard(r, kind, q)' = Told(kind, q, e.value)
        \/ kind = "connected" /\ Heard(r, kind, q)' = driver["connected"][q]
  BY DeliverHears DEF EventInv
<1>7. /\ \A r \in N!Plugins, q \in HdmiPorts : ~(r = p /\ IsOf(e, "VRR", q)) =>
           reported'[r]["VRR"][q] = reported[r]["VRR"][q]
      /\ \A q \in HdmiPorts : IsOf(e, "VRR", q) =>
           reported'[p]["VRR"][q] = (reported[p]["VRR"][q] \ {vrrType}) \cup ({e.value} \ {N!NoVrr})
  BY DeliverHears DEF EventInv
<1>8. e.kind = "VRR" => e.value \in ValuesOf("VRR") /\ e.port \in HdmiPorts /\ p = "AVInput"
  BY <1>1, KindFacts DEF Proper, N!Listens
<1>9. TableTypes'
  BY <1>3, <1>4, <1>5, <1>8 DEF EventInv, EventTypes, TableTypes, PortsOf, ValuesOf
<1>10. SelectTypes'
  BY <1>3 DEF EventInv, EventTypes, SelectTypes
<1>11. ASSUME NEW kind, NEW q, NEW value, Tells(queue[p], kind, q, value)
       PROVE  /\ Tells(queue'[p], kind, q, value)
              /\ Silent(queue'[p], kind, q) => (IsOf(e, kind, q) /\ e.value = value) \/ Silent(queue[p], kind, q)
  BY <1>1, <1>2, <1>11, TailTells
<1>12. ASSUME NEW r \in N!Plugins, NEW kind \in EventKinds \ {"VRR"}, NEW q \in PortsOf(kind),
              N!Listens(r, kind, N!TypeOf(q))
       PROVE  Converges(r, kind, q)'
  <2>1. PICK truth : truth = Truth(kind, q)
    OBVIOUS
  <2>2. Truth(kind, q)' = truth
    BY <1>3, <2>1 DEF Truth
  <2>3. Tells(queue[r], kind, q, truth) /\ (Silent(queue[r], kind, q) => Heard(r, kind, q) = Told(kind, q, truth))
    BY <1>12, <2>1 DEF EventInv, Following, Converges
  <2>4. Tells(queue'[r], kind, q, truth)
    BY <1>2, <1>11, <2>3
  <2>5. ASSUME Silent(queue'[r], kind, q) PROVE Heard(r, kind, q)' = Told(kind, q, truth)
    <3>1. (r = p /\ IsOf(e, kind, q) /\ e.value = truth) \/ Silent(queue[r], kind, q)
      BY <1>2, <1>11, <2>3, <2>5
    <3>2. CASE Heard(r, kind, q)' = driver["connected"][q] /\ kind = "connected"
      BY <2>1, <3>2 DEF Told, Truth
    <3>3. CASE r = p /\ IsOf(e, kind, q) /\ Heard(r, kind, q)' = Told(kind, q, e.value)
      <4>1. e.value = truth
        <5>1. ~Silent(queue[p], kind, q)
          <6>1. queue[p][1] = e /\ 1 \in 1 .. Len(queue[p])
            BY <1>1, TailOfEvents
          <6> QED
            BY <3>3, <6>1 DEF Silent
        <5> QED
          BY <3>1, <3>3, <5>1
      <4> QED
        BY <3>3, <4>1
    <3>4. CASE ~(r = p /\ IsOf(e, kind, q)) /\ Heard(r, kind, q)' = Heard(r, kind, q)
      BY <2>3, <3>1, <3>4
    <3> QED
      BY <1>6, <3>2, <3>3, <3>4
  <2>6. Told(kind, q, truth)' = Told(kind, q, truth)
    BY DEF Told
  <2> QED
    BY <2>2, <2>4, <2>5, <2>6 DEF Converges
<1>13. ASSUME NEW q \in HdmiPorts
       PROVE  /\ Tells(queue'["AVInput"], "VRR", q, driver["VRR"][q])
              /\ vrrPorts' \subseteq {q} =>
                   /\ reported'["AVInput"]["VRR"][q] = {vrrType'} \ {N!NoVrr}
                   /\ Silent(queue'["AVInput"], "VRR", q) => vrrType' = driver["VRR"][q]
  <2>1. PICK truth : truth = driver["VRR"][q]
    OBVIOUS
  <2>2. /\ Tells(queue["AVInput"], "VRR", q, truth)
        /\ vrrPorts \subseteq {q} =>
             /\ reported["AVInput"]["VRR"][q] = {vrrType} \ {N!NoVrr}
             /\ Silent(queue["AVInput"], "VRR", q) => vrrType = truth
    BY <2>1 DEF EventInv, VrrHeard
  <2>3. CASE e.kind = "VRR"
    <3>1. p = "AVInput"
      BY <1>8, <2>3
    <3>2. /\ Tells(queue'["AVInput"], "VRR", q, truth)
          /\ Silent(queue'["AVInput"], "VRR", q) =>
               (IsOf(e, "VRR", q) /\ e.value = truth) \/ Silent(queue["AVInput"], "VRR", q)
      BY <1>11, <2>2, <3>1
    <3>3. ASSUME vrrPorts' \subseteq {q}
          PROVE  /\ reported'["AVInput"]["VRR"][q] = {vrrType'} \ {N!NoVrr}
                 /\ Silent(queue'["AVInput"], "VRR", q) => vrrType' = truth
      <4>1. e.port = q /\ vrrPorts \subseteq {q} /\ IsOf(e, "VRR", q) /\ vrrType' = e.value
        BY <1>4, <2>3, <3>3 DEF IsOf
      <4>2. reported'["AVInput"]["VRR"][q] = {e.value} \ {N!NoVrr}
        <5> PICK on, off : on = reported'["AVInput"]["VRR"][q] /\ off = reported["AVInput"]["VRR"][q]
          OBVIOUS
        <5>1. off = {vrrType} \ {N!NoVrr}
          BY <2>2, <4>1
        <5>2. on = (off \ {vrrType}) \cup ({e.value} \ {N!NoVrr})
          BY <1>7, <3>1, <4>1
        <5>3. off \ {vrrType} = {}
          BY <5>1
        <5>4. on = {e.value} \ {N!NoVrr}
          BY <5>2, <5>3
        <5> QED
          BY <5>4
      <4>3. ~Silent(queue["AVInput"], "VRR", q)
        <5>1. queue[p][1] = e /\ 1 \in 1 .. Len(queue[p])
          BY <1>1, TailOfEvents
        <5> QED
          BY <3>1, <4>1, <5>1 DEF Silent
      <4> QED
        BY <3>2, <4>1, <4>2, <4>3
    <3> QED
      BY <2>1, <3>2, <3>3
  <2>4. CASE e.kind # "VRR"
    <3>1. vrrType' = vrrType /\ vrrPorts' = vrrPorts /\ ~IsOf(e, "VRR", q)
      BY <1>4, <2>4 DEF IsOf
    <3>2. reported'["AVInput"]["VRR"][q] = reported["AVInput"]["VRR"][q]
      BY <1>7, <3>1, KindFacts
    <3>3. /\ Tells(queue'["AVInput"], "VRR", q, truth)
          /\ Silent(queue'["AVInput"], "VRR", q) => Silent(queue["AVInput"], "VRR", q)
      <4>1. CASE p = "AVInput"
        BY <1>11, <2>2, <3>1, <4>1
      <4>2. CASE p # "AVInput"
        BY <1>2, <2>2, <4>2, KindFacts
      <4> QED
        BY <4>1, <4>2
    <3> QED
      BY <2>1, <2>2, <3>1, <3>2, <3>3
  <2> QED
    BY <2>3, <2>4
<1>14. VrrHeard'
  BY <1>3, <1>13 DEF VrrHeard
<1>15. Following'
  BY <1>12 DEF Following, PortsOf, N!Listens, N!TypeOf
<1> QED
  BY <1>2, <1>9, <1>10, <1>14, <1>15 DEF EventInv, EventTypes

LEMMA DriverConverges ==
  ASSUME EventInv, NEW kind \in DriverKinds, NEW port_ \in PortsOf(kind), NEW value \in ValuesOf(kind),
         DriverTells(kind, port_, value)
  PROVE  EventInv'
<1>0. PICK e, s : e = N!Event(kind, port_, value) /\ s = <<e>>
  OBVIOUS
<1>1. /\ e \in EventSet /\ Proper(e) /\ e.kind = kind /\ e.port = port_ /\ e.value = value
      /\ s \in Seq(EventSet) /\ Len(s) = 1 /\ s[1] = e
  BY <1>0, EventIn, KindFacts DEF N!Event
<1>2. /\ N!Send(kind, N!TypeOf(port_), s) /\ driver' = [driver EXCEPT ![kind][port_] = value]
      /\ UNCHANGED <<select, reported, vrrType, vrrPorts>>
  BY <1>0 DEF DriverTells
<1>3. QueueTypes'
  <2>1. \A i \in 1 .. Len(s) : Proper(s[i]) /\ s[i].kind = kind /\ N!TypeOf(s[i].port) = N!TypeOf(port_)
    BY <1>1
  <2>2. QueueTypes
    BY DEF EventInv, EventTypes
  <2> QED
    BY <1>1, <1>2, <2>1, <2>2, SendTypes
<1>4. /\ DOMAIN driver' = DriverKinds
      /\ \A k \in DriverKinds : DOMAIN driver'[k] = PortsOf(k)
      /\ \A k \in DriverKinds : \A q \in PortsOf(k) :
           driver'[k][q] = IF k = kind /\ q = port_ THEN value ELSE driver[k][q]
  BY <1>2 DEF EventInv, EventTypes, TableTypes
<1>5. TableTypes'
  BY <1>2, <1>4, KindFacts DEF EventInv, EventTypes, TableTypes, PortsOf, ValuesOf
<1>6. SelectTypes'
  BY <1>2 DEF EventInv, EventTypes, SelectTypes
<1>7. ASSUME NEW p \in N!Plugins, NEW k \in EventKinds, NEW q \in PortsOf(k), NEW old, NEW new,
             N!Listens(p, k, N!TypeOf(q)), Tells(queue[p], k, q, old),
             IF k = kind /\ q = port_ THEN new = value ELSE new = old
      PROVE  /\ Tells(queue'[p], k, q, new)
             /\ Silent(queue'[p], k, q) => Silent(queue[p], k, q) /\ new = old
  <2>1. \A i \in 1 .. Len(s) : IsOf(s[i], k, q) => s[i].value = new
    BY <1>1, <1>7 DEF IsOf
  <2>2. Silent(s, k, q) => new = old
    BY <1>1, <1>7 DEF Silent, IsOf
  <2>3. ~N!Listens(p, kind, N!TypeOf(port_)) => Silent(s, k, q)
    BY <1>1, <1>7 DEF Silent, IsOf
  <2>4. QueueTypes
    BY DEF EventInv, EventTypes
  <2> PICK type : type = N!TypeOf(port_)
    OBVIOUS
  <2>5. s \in Seq(EventSet) /\ N!Send(kind, type, s) /\ (~N!Listens(p, kind, type) => Silent(s, k, q))
    BY <1>1, <1>2, <2>3
  <2>6. Tells(queue[p], k, q, old) /\ Updates(s, k, q, old, new)
    BY <1>7, <2>1, <2>2 DEF Updates
  <2> QED
    BY <2>4, <2>5, <2>6, SendTells
<1>8. ASSUME NEW p \in N!Plugins, NEW k \in EventKinds \ {"VRR"}, NEW q \in PortsOf(k),
             N!Listens(p, k, N!TypeOf(q))
      PROVE  Converges(p, k, q)'
  <2>1. PICK old, new : old = Truth(k, q) /\ new = IF k = kind /\ q = port_ THEN value ELSE old
    OBVIOUS
  <2>2. Truth(k, q)' = new
    <3>1. CASE k = "status"
      BY <1>2, <2>1, <3>1, KindFacts DEF Truth
    <3>2. CASE k # "status"
      BY <1>4, <2>1, <3>2, KindFacts DEF Truth
    <3> QED
      BY <3>1, <3>2
  <2>3. Tells(queue[p], k, q, old) /\ (Silent(queue[p], k, q) => Heard(p, k, q) = Told(k, q, old))
    BY <1>8, <2>1 DEF EventInv, Following, Converges
  <2>4. Tells(queue'[p], k, q, new) /\ (Silent(queue'[p], k, q) => Silent(queue[p], k, q) /\ new = old)
    BY <1>7, <1>8, <2>1, <2>3
  <2>5. Heard(p, k, q)' = Heard(p, k, q) /\ Told(k, q, new)' = Told(k, q, new)
    BY <1>2 DEF Heard, Told
  <2> QED
    BY <2>2, <2>3, <2>4, <2>5 DEF Converges
<1>9. ASSUME NEW q \in HdmiPorts
      PROVE  /\ Tells(queue'["AVInput"], "VRR", q, driver'["VRR"][q])
             /\ vrrPorts \subseteq {q} =>
                  /\ reported["AVInput"]["VRR"][q] = {vrrType} \ {N!NoVrr}
                  /\ Silent(queue'["AVInput"], "VRR", q) => vrrType = driver'["VRR"][q]
  <2>1. PICK old, new : old = driver["VRR"][q] /\ new = driver'["VRR"][q]
    OBVIOUS
  <2>2. IF "VRR" = kind /\ q = port_ THEN new = value ELSE new = old
    BY <1>4, <2>1, KindFacts
  <2>3. /\ Tells(queue["AVInput"], "VRR", q, old)
        /\ vrrPorts \subseteq {q} =>
             /\ reported["AVInput"]["VRR"][q] = {vrrType} \ {N!NoVrr}
             /\ Silent(queue["AVInput"], "VRR", q) => vrrType = old
    BY <2>1 DEF EventInv, VrrHeard
  <2>4. /\ Tells(queue'["AVInput"], "VRR", q, new)
        /\ Silent(queue'["AVInput"], "VRR", q) => Silent(queue["AVInput"], "VRR", q) /\ new = old
    BY <1>7, <2>2, <2>3, KindFacts
  <2> QED
    BY <2>1, <2>3, <2>4
<1>10. VrrHeard'
  BY <1>2, <1>9 DEF VrrHeard
<1>11. Following'
  BY <1>8 DEF Following, PortsOf, N!Listens, N!TypeOf
<1> QED
  BY <1>3, <1>5, <1>6, <1>10, <1>11 DEF EventInv, EventTypes

LEMMA SelectConverges ==
  ASSUME EventInv, NEW type \in {"HDMI", "COMPOSITE"}, NEW new, NEW plane_, Selects(type, new, plane_)
  PROVE  EventInv'
<1> PICK old : old = select[type].port
  OBVIOUS
<1> PICK s : s = SelectEvents(old, new)
  OBVIOUS
<1>1. /\ old = -1 \/ (old \in N!InputPorts /\ N!TypeOf(old) = type)
      /\ new = -1 \/ (new \in N!InputPorts /\ N!TypeOf(new) = type)
  BY DEF EventInv, EventTypes, SelectTypes, Selects
<1>2. /\ N!Send("status", type, s) /\ UNCHANGED <<driver, reported, vrrType, vrrPorts>>
      /\ select' = [select EXCEPT ![type] = [port |-> new, plane |-> plane_]]
  BY DEF Selects, N!selectPort, SelectEvents
<1>3. /\ s \in Seq(EventSet)
      /\ \A i \in 1 .. Len(s) : /\ Proper(s[i]) /\ s[i].kind = "status" /\ N!TypeOf(s[i].port) = type
                                /\ s[i].value = (s[i].port = new)
      /\ \A q \in N!InputPorts : q \in {old, new} \ {-1} /\ old # new => ~Silent(s, "status", q)
      /\ new # -1 => ~Silent(s, "status", new)
  <2>1. TellsSelection(s, type, old, new)
    BY <1>1, SelectionTold
  <2> QED
    BY <2>1 DEF TellsSelection
<1>4. QueueTypes'
  BY <1>2, <1>3, SendTypes DEF EventInv, EventTypes
<1>5. /\ DOMAIN select' = {"HDMI", "COMPOSITE"}
      /\ select'[type].port = new
      /\ \A t \in {"HDMI", "COMPOSITE"} \ {type} : select'[t] = select[t]
  BY <1>2 DEF EventInv, EventTypes, SelectTypes
<1>6. SelectTypes'
  BY <1>1, <1>5 DEF EventInv, EventTypes, SelectTypes
<1>7. TableTypes'
  BY <1>2 DEF EventInv, EventTypes, TableTypes, PortsOf, ValuesOf
<1>8. ASSUME NEW p \in N!Plugins, NEW k \in EventKinds, NEW q \in PortsOf(k), k # "status",
             NEW truth, Tells(queue[p], k, q, truth)
      PROVE  Tells(queue'[p], k, q, truth) /\ (Silent(queue'[p], k, q) => Silent(queue[p], k, q))
  <2>1. Silent(s, k, q)
    BY <1>3, <1>8 DEF Silent, IsOf
  <2>2. \A i \in 1 .. Len(s) : ~IsOf(s[i], k, q)
    BY <2>1 DEF Silent
  <2>3. QueueTypes
    BY DEF EventInv, EventTypes
  <2>4. s \in Seq(EventSet) /\ N!Send("status", type, s)
    BY <1>2, <1>3
  <2>5. Updates(s, k, q, truth, truth)
    BY <2>2 DEF Updates
  <2> QED
    BY <1>8, <2>1, <2>3, <2>4, <2>5, SendTells
<1>9. ASSUME NEW p \in N!Plugins, NEW k \in EventKinds \ {"VRR", "status"}, NEW q \in PortsOf(k),
             N!Listens(p, k, N!TypeOf(q))
      PROVE  Converges(p, k, q)'
  <2>1. PICK truth : truth = Truth(k, q)
    OBVIOUS
  <2>2. Tells(queue[p], k, q, truth) /\ (Silent(queue[p], k, q) => Heard(p, k, q) = Told(k, q, truth))
    BY <1>9, <2>1 DEF EventInv, Following, Converges
  <2>3. Tells(queue'[p], k, q, truth) /\ (Silent(queue'[p], k, q) => Silent(queue[p], k, q))
    BY <1>8, <2>2
  <2>4. Truth(k, q)' = truth /\ Heard(p, k, q)' = Heard(p, k, q) /\ Told(k, q, truth)' = Told(k, q, truth)
    BY <1>2, <2>1 DEF Truth, Heard, Told
  <2> QED
    BY <2>2, <2>3, <2>4 DEF Converges
<1>10. ASSUME NEW p \in N!Plugins, NEW q \in N!InputPorts, N!Listens(p, "status", N!TypeOf(q))
       PROVE  Converges(p, "status", q)'
  <2>1. PICK was \in BOOLEAN, is \in BOOLEAN :
          was = (select[N!TypeOf(q)].port = q) /\ is = (select'[N!TypeOf(q)].port = q)
    OBVIOUS
  <2>2. Truth("status", q) = was /\ Truth("status", q)' = is
    BY <2>1 DEF Truth
  <2>3. Tells(queue[p], "status", q, was)
        /\ (Silent(queue[p], "status", q) => Heard(p, "status", q) = Told("status", q, was))
    BY <1>10, <2>2, KindFacts DEF EventInv, Following, Converges
  <2>4. N!TypeOf(q) \in {"HDMI", "COMPOSITE"} /\ q # -1
    BY KindFacts
  <2>5. \A i \in 1 .. Len(s) : IsOf(s[i], "status", q) => s[i].value = is
    <3> SUFFICES ASSUME NEW i \in 1 .. Len(s), IsOf(s[i], "status", q) PROVE s[i].value = is
      OBVIOUS
    <3>1. N!TypeOf(q) = type /\ s[i].value = (q = new)
      BY <1>3 DEF IsOf
    <3>2. is = (new = q)
      BY <1>5, <2>1, <3>1
    <3> QED
      BY <3>1, <3>2
  <2>6. Silent(s, "status", q) => is = was
    <3>1. CASE N!TypeOf(q) # type
      BY <1>5, <2>1, <2>4, <3>1
    <3>2. CASE N!TypeOf(q) = type
      <4>1. was = (old = q) /\ is = (new = q)
        BY <1>5, <2>1, <3>2
      <4>2. q \in {old, new} /\ old # new => ~Silent(s, "status", q)
        BY <1>3, <2>4
      <4> QED
        BY <4>1, <4>2
    <3> QED
      BY <3>1, <3>2
  <2>7. ~N!Listens(p, "status", type) => Silent(s, "status", q)
    BY <1>3, <1>10 DEF Silent, IsOf
  <2>8. Tells(queue'[p], "status", q, is)
        /\ (Silent(queue'[p], "status", q) => Silent(queue[p], "status", q) /\ is = was)
    <3>1. QueueTypes /\ s \in Seq(EventSet) /\ N!Send("status", type, s)
      BY <1>2, <1>3 DEF EventInv, EventTypes
    <3>2. Updates(s, "status", q, was, is)
      BY <2>5, <2>6 DEF Updates
    <3>3. Tells(queue[p], "status", q, was)
      BY <2>3
    <3> QED
      BY <2>7, <3>1, <3>2, <3>3, SendTells
  <2>9. Heard(p, "status", q)' = Heard(p, "status", q) /\ \A v : Told("status", q, v) = v /\ Told("status", q, v)' = v
    BY <1>2 DEF Heard, Told
  <2> QED
    BY <2>2, <2>3, <2>8, <2>9 DEF Converges
<1>11. Following'
  <2>1. ASSUME NEW p \in N!Plugins, NEW k \in EventKinds \ {"VRR"}, NEW q \in PortsOf(k),
               N!Listens(p, k, N!TypeOf(q))
        PROVE  Converges(p, k, q)'
    BY <1>9, <1>10, <2>1, KindFacts
  <2> QED
    BY <2>1 DEF Following, PortsOf, N!Listens, N!TypeOf
<1>12. ASSUME NEW q \in HdmiPorts
       PROVE  /\ Tells(queue'["AVInput"], "VRR", q, driver["VRR"][q])
              /\ vrrPorts \subseteq {q} =>
                   /\ reported["AVInput"]["VRR"][q] = {vrrType} \ {N!NoVrr}
                   /\ Silent(queue'["AVInput"], "VRR", q) => vrrType = driver["VRR"][q]
  BY <1>8, KindFacts DEF EventInv, VrrHeard
<1>13. VrrHeard'
  BY <1>2, <1>12 DEF VrrHeard
<1> QED
  BY <1>4, <1>6, <1>7, <1>11, <1>13 DEF EventInv, EventTypes

LEMMA EventsUndisturbed == ASSUME EventInv, EventsKept PROVE EventInv'
<1>1. EventTypes'
  BY DEF EventInv, EventsKept, EventTypes, QueueTypes, SelectTypes, TableTypes, Proper, PortsOf, ValuesOf,
         N!Listens, N!TypeOf
<1>2. VrrHeard'
  BY DEF EventInv, EventsKept, VrrHeard
<1>3. Following'
  BY DEF EventInv, EventsKept, Following, Converges, Truth, Heard, Told, PortsOf, N!Listens, N!TypeOf
<1> QED
  BY <1>1, <1>2, <1>3 DEF EventInv

LEMMA EventStep == ASSUME CallTypes, EventInv, N!Next PROVE EventInv'
BY EventSteps, DeliverConverges, DriverConverges, SelectConverges, EventsUndisturbed

\* The fraction of every frame rate in the list is the rate to the hundredth.
LEMMA RateOfFraction == \A rate : N!RateTold(rate, N!FrameRate(rate))
<1> SUFFICES ASSUME NEW rate, rate \in N!KnownRates \ {24000}
             PROVE  (N!FrameRate(rate)[1] * 100) \div N!FrameRate(rate)[2] \in {rate - 1, rate}
  BY DEF N!RateTold
<1>1. CASE rate \in {2400, 2500, 3000, 5000, 6000, 10000, 12000, 20000}
  <2>1. N!FrameRate(rate) = <<rate * 10, 1000>>
    BY <1>1 DEF N!FrameRate, N!KnownRates
  <2> QED
    BY <1>1, <2>1
<1>2. CASE rate \in {2398, 2997, 5994, 11988, 23976}
  <2>1. N!FrameRate(rate) = <<(rate \div 100 + 1) * 1000, 1001>>
    BY <1>2 DEF N!FrameRate, N!KnownRates
  <2> QED
    BY <1>2, <2>1
<1> QED
  BY <1>1, <1>2 DEF N!KnownRates

-----------------------------------------------------------------------------
(***************************************************************************)
(* Inputs: the plane.  It waits in the static variable of the plugin that  *)
(* selected the HDMI port, where no other call touches it, until the last  *)
(* status event of the port has been delivered.                            *)
(***************************************************************************)

PlaneTypes ==
  /\ planeType \in [N!Plugins -> Planes \cup {-1, 0}]
  /\ \A type \in {"HDMI", "COMPOSITE"} : select[type].plane \in Planes \cup {-1, 0}
  /\ chosen.plane \in {-1, 0, 1} /\ steady \subseteq N!Plugins

SoleCalls ==
  \A c, d \in Callers : c # d /\ request[c] # N!Idle /\ request[d] # N!Idle /\ request[c].alone =>
    request[d].plugin # request[c].plugin

PlaneGiven ==
  \A c \in Callers : request[c].op = "start" /\ request[c].step = "select" /\ request[c].alone =>
    planeType[request[c].plugin] = request[c].plane

PlaneChosen ==
  select["HDMI"].port # -1 /\ chosen.alone => select["HDMI"].plane = chosen.plane

\* No call that changes the plane is under way in the plugin.
Settled(p) == \A c \in Callers : request[c].op \in {"start", "stop"} => request[c].plugin # p

PlaneTold(p) ==
  select["HDMI"].port # -1 =>
    IF Silent(queue[p], "status", select["HDMI"].port)
    THEN reported[p]["status"][select["HDMI"].port].plane = select["HDMI"].plane
    ELSE planeType[p] = select["HDMI"].plane /\ Settled(p)

PlaneInv ==
  PlaneTypes /\ SoleCalls /\ PlaneGiven /\ PlaneChosen /\ \A p \in steady : PlaneTold(p)

LEMMA PlaneStart == N!Init => PlaneInv
<1> SUFFICES ASSUME N!Init PROVE PlaneInv
  OBVIOUS
<1>1. PlaneTypes /\ PlaneChosen /\ steady = {}
  BY DEF N!Init, PlaneTypes, PlaneChosen
<1>2. \A c \in Callers : request[c] = N!Idle
  BY DEF N!Init
<1>3. SoleCalls /\ PlaneGiven
  BY <1>2 DEF SoleCalls, PlaneGiven, N!Idle
<1> QED
  BY <1>1, <1>3 DEF PlaneInv

\* Calls that begin, go on and return: what it means for those that run alone.
LEMMA BeginAlone ==
  ASSUME CallTypes, SoleCalls, NEW c \in Callers, NEW asked \in Calls, N!Begin(c, asked),
         asked.op = "start" => asked.step = "plane"
  PROVE  /\ SoleCalls'
         /\ \A d \in Callers : request'[d].op = "start" /\ request'[d].step = "select" /\ request'[d].alone =>
              /\ request[d].op = "start" /\ request[d].step = "select" /\ request[d].alone
              /\ request'[d].plugin = request[d].plugin /\ request'[d].plane = request[d].plane
              /\ request[d].plugin # asked.plugin
         /\ asked.op = "mix" => \A p \in N!Plugins : Settled(p) => Settled(p)'
         /\ \A p \in N!Plugins : p # asked.plugin /\ Settled(p) => Settled(p)'
<1>1. /\ CallTypes' /\ request[c] = N!Idle
      /\ Same(request'[c], asked)
      /\ request'[c].alone => N!Busy(asked.plugin) = {}
      /\ \A d \in Callers \ {c} : Same(request'[d], request[d])
      /\ \A d \in Callers \ {c} : request[d] # N!Idle /\ request'[d].alone =>
           request[d].alone /\ d \notin N!Busy(asked.plugin)
  BY CallBegins
<1>2. asked # N!Idle /\ asked.plugin \in N!Plugins
  BY CallOps DEF Calls, StartCalls, StopCalls, MixCalls, N!Idle
<1>3. request'[c] # N!Idle /\ request'[c].op = asked.op /\ request'[c].plugin = asked.plugin
      /\ request'[c].step = asked.step
  BY <1>1, <1>2 DEF Same
<1>4. \A d \in Callers \ {c} :
        /\ request'[d] = N!Idle <=> request[d] = N!Idle
        /\ request'[d].op = request[d].op
        /\ request[d] # N!Idle => request'[d].plugin = request[d].plugin /\ request'[d].step = request[d].step
        /\ request[d].op = "start" => request'[d].plane = request[d].plane
  BY <1>1 DEF Same, N!Idle
<1>5. \A d \in Callers : request[d] # N!Idle => (d \in N!Busy(asked.plugin) <=> request[d].plugin = asked.plugin)
  BY DEF N!Busy
<1>6. SoleCalls'
  <2> SUFFICES ASSUME NEW d \in Callers, NEW o \in Callers, d # o, request'[d] # N!Idle, request'[o] # N!Idle,
                      request'[d].alone
               PROVE  request'[o].plugin # request'[d].plugin
    BY DEF SoleCalls, N!Idle
  <2>1. CASE d = c
    <3>1. o # c /\ request[o] # N!Idle /\ request'[o].plugin = request[o].plugin
      BY <1>4, <2>1
    <3>2. o \notin N!Busy(asked.plugin)
      BY <1>1, <2>1
    <3> QED
      BY <1>3, <1>5, <2>1, <3>1, <3>2
  <2>2. CASE d # c
    <3>1. /\ request[d] # N!Idle /\ request'[d].plugin = request[d].plugin
          /\ request[d].alone /\ request[d].plugin # asked.plugin
      BY <1>1, <1>4, <1>5, <2>2
    <3>2. CASE o = c
      BY <1>3, <3>1, <3>2
    <3>3. CASE o # c
      <4>1. request[o] # N!Idle /\ request'[o].plugin = request[o].plugin
        BY <1>4, <3>3
      <4> QED
        BY <3>1, <4>1 DEF SoleCalls
    <3> QED
      BY <3>2, <3>3
  <2> QED
    BY <2>1, <2>2
<1>7. ASSUME NEW d \in Callers, request'[d].op = "start", request'[d].step = "select", request'[d].alone
      PROVE  /\ request[d].op = "start" /\ request[d].step = "select" /\ request[d].alone
             /\ request'[d].plugin = request[d].plugin /\ request'[d].plane = request[d].plane
             /\ request[d].plugin # asked.plugin
  <2>1. d # c
    BY <1>3, <1>7
  <2>2. request[d].op = "start" /\ request[d] # N!Idle
    BY <1>4, <1>7, <2>1 DEF N!Idle
  <2> QED
    BY <1>1, <1>4, <1>5, <1>7, <2>1, <2>2
<1>8. ASSUME NEW p \in N!Plugins, Settled(p), asked.op = "mix" \/ p # asked.plugin PROVE Settled(p)'
  <2> SUFFICES ASSUME NEW d \in Callers, request'[d].op \in {"start", "stop"} PROVE request'[d].plugin # p
    BY DEF Settled
  <2>1. CASE d = c
    BY <1>3, <1>8, <2>1
  <2>2. CASE d # c
    BY <1>4, <1>8, <2>2 DEF Settled, N!Idle
  <2> QED
    BY <2>1, <2>2
<1> QED
  BY <1>6, <1>7, <1>8

LEMMA GoAlone ==
  ASSUME SoleCalls, NEW c \in Callers, request[c] # N!Idle,
         request'[c].plugin = request[c].plugin, request'[c].alone = request[c].alone,
         \A d \in Callers \ {c} : request'[d] = request[d]
  PROVE  SoleCalls'
BY DEF SoleCalls, N!Idle

LEMMA ReturnAlone ==
  ASSUME NEW c \in Callers, request'[c] = N!Idle,
         \A d \in Callers \ {c} : request'[d] = request[d]
  PROVE  /\ SoleCalls => SoleCalls'
         /\ PlaneGiven /\ planeType' = planeType => PlaneGiven'
         /\ \A p \in N!Plugins : Settled(p) => Settled(p)'
BY DEF SoleCalls, PlaneGiven, Settled, N!Idle

\* What clients heard, and what is on its way, stay.
LEMMA PlaneToldStays ==
  ASSUME NEW p \in N!Plugins, PlaneTold(p),
         UNCHANGED <<queue, select, reported>>,
         Silent(queue[p], "status", select["HDMI"].port)
           \/ (planeType'[p] = planeType[p] /\ (Settled(p) => Settled(p)'))
  PROVE  PlaneTold(p)'
BY DEF PlaneTold

\* Status events alone tell a plane: the one in the static variable.
LEMMA StatusDelivered ==
  ASSUME EventTypes, NEW p \in N!Plugins, N!Deliver(p), NEW e, e = Head(queue[p])
  PROVE  \A r \in N!Plugins, q \in N!InputPorts :
           IF r = p /\ IsOf(e, "status", q)
           THEN reported'[r]["status"][q].plane = planeType[p]
           ELSE reported'[r]["status"][q] = reported[r]["status"][q]
<1>1. e.kind \in EventKinds /\ e.port \in PortsOf(e.kind)
  BY HeadOfQueue DEF EventTypes, N!Deliver, EventSet, Proper
<1>2. /\ DOMAIN reported = N!Plugins
      /\ \A r \in N!Plugins : DOMAIN reported[r] = EventKinds
      /\ \A r \in N!Plugins, kind \in EventKinds : DOMAIN reported[r][kind] = PortsOf(kind)
  BY DEF EventTypes, TableTypes
<1>3. CASE e.kind = "status"
  <2>1. PICK value : value = [started |-> e.value, plane |-> planeType[p]]
    OBVIOUS
  <2>2. value.plane = planeType[p] /\ reported' = [reported EXCEPT ![p]["status"][e.port] = value]
    BY <1>3, <2>1 DEF N!Deliver
  <2> QED
    BY <1>1, <1>2, <1>3, <2>2, KindFacts DEF IsOf
<1>4. CASE e.kind # "status"
  <2>1. PICK known, on, told_ :
          \/ reported' = [reported EXCEPT ![p]["connected"] = known]
          \/ reported' = [reported EXCEPT ![p]["VRR"] = on]
          \/ reported' = [reported EXCEPT ![p][e.kind][e.port] = told_]
    <3>1. CASE e.kind = "connected"
      BY <3>1, Zenon DEF N!Deliver
    <3>2. CASE e.kind = "VRR"
      BY <3>2, Zenon DEF N!Deliver
    <3>3. CASE e.kind = "mode"
      BY <3>3, Zenon DEF N!Deliver
    <3>4. CASE e.kind \notin {"connected", "VRR", "mode"}
      BY <1>4, <3>4, Zenon DEF N!Deliver
    <3> QED
      BY <3>1, <3>2, <3>3, <3>4, Zenon
  <2>2. \A r \in N!Plugins : reported'[r]["status"] = reported[r]["status"]
    BY <1>1, <1>2, <1>4, <2>1, KindFacts
  <2> QED
    BY <1>4, <2>2 DEF IsOf
<1> QED
  BY <1>3, <1>4

\* A call that begins to change the plane of a plugin.
LEMMA DisturbTold ==
  ASSUME QueueTypes, PlaneInv, NEW p \in N!Plugins, N!Disturb(p),
         UNCHANGED <<queue, select, reported>>,
         \A r \in N!Plugins \ {p} : planeType'[r] = planeType[r] /\ (Settled(r) => Settled(r)')
  PROVE  steady' \subseteq steady /\ \A r \in steady' : PlaneTold(r)'
<1>1. steady \subseteq N!Plugins /\ \A r \in steady : PlaneTold(r)
  BY DEF PlaneInv, PlaneTypes
<1>2. steady' \subseteq steady
  BY DEF N!Disturb
<1>3. ASSUME NEW r \in steady' PROVE PlaneTold(r)'
  <2>1. r \in N!Plugins /\ PlaneTold(r)
    BY <1>1, <1>2
  <2>2. CASE r # p
    BY <2>1, <2>2, PlaneToldStays
  <2>3. CASE r = p
    <3>1. ~N!Pending(p, "status")
      BY <2>3 DEF N!Disturb
    <3>2. DOMAIN queue[p] = 1 .. Len(queue[p])
      BY DEF QueueTypes
    <3>3. Silent(queue[p], "status", select["HDMI"].port)
      BY <3>1, <3>2 DEF N!Pending, Silent, IsOf
    <3> QED
      BY <2>1, <2>3, <3>3, PlaneToldStays
  <2> QED
    BY <2>2, <2>3
<1> QED
  BY <1>2, <1>3

\* Steps that leave the plane, the selection and the events alone.
LEMMA PlaneUndisturbed ==
  ASSUME PlaneInv, SoleCalls', PlaneGiven',
         UNCHANGED <<planeType, select, queue, reported, chosen, steady>>,
         \A p \in N!Plugins : Settled(p) => Settled(p)'
  PROVE  PlaneInv'
<1>1. PlaneTypes' /\ PlaneChosen'
  BY DEF PlaneInv, PlaneTypes, PlaneChosen
<1>2. \A p \in steady : p \in N!Plugins /\ PlaneTold(p)
  BY DEF PlaneInv, PlaneTypes
<1>3. \A p \in steady : PlaneTold(p)'
  BY <1>2, PlaneToldStays
<1> QED
  BY <1>1, <1>3 DEF PlaneInv

LEMMA PlaneDelivered ==
  ASSUME EventTypes, PlaneInv, NEW p \in N!Plugins, N!Deliver(p) PROVE PlaneInv'
<1>1. PICK e : e = Head(queue[p])
  OBVIOUS
<1>2. UNCHANGED <<planeType, select, chosen, steady, request>>
  BY DEF N!Deliver, N!driverVars, N!history
<1>3. queue'[p] = Tail(queue[p]) /\ \A r \in N!Plugins \ {p} : queue'[r] = queue[r]
  BY DeliverTypes DEF EventTypes
<1>4. queue[p] \in Seq(EventSet) /\ queue[p] # <<>>
  BY DEF EventTypes, QueueTypes, N!Deliver
<1>5. \A r \in N!Plugins, q \in N!InputPorts :
        IF r = p /\ IsOf(e, "status", q)
        THEN reported'[r]["status"][q].plane = planeType[p]
        ELSE reported'[r]["status"][q] = reported[r]["status"][q]
  BY <1>1, StatusDelivered
<1>6. ASSUME NEW r \in steady PROVE PlaneTold(r)'
  <2> SUFFICES ASSUME select["HDMI"].port # -1
               PROVE  IF Silent(queue'[r], "status", select["HDMI"].port)
                      THEN reported'[r]["status"][select["HDMI"].port].plane = select["HDMI"].plane
                      ELSE planeType[r] = select["HDMI"].plane /\ Settled(r)'
    BY <1>2 DEF PlaneTold
  <2> PICK q : q = select["HDMI"].port
    OBVIOUS
  <2>1. q \in N!InputPorts
    BY DEF EventTypes, SelectTypes
  <2>2. r \in N!Plugins /\ PlaneTold(r)
    BY DEF PlaneInv, PlaneTypes
  <2>3. IF Silent(queue[r], "status", q)
        THEN reported[r]["status"][q].plane = select["HDMI"].plane
        ELSE planeType[r] = select["HDMI"].plane /\ Settled(r)
    BY <2>2 DEF PlaneTold
  <2>4. Settled(r) => Settled(r)'
    BY <1>2 DEF Settled
  <2>5. CASE r # p
    <3>1. queue'[r] = queue[r] /\ reported'[r]["status"][q] = reported[r]["status"][q]
      BY <1>3, <1>5, <2>1, <2>2, <2>5
    <3> QED
      BY <2>3, <2>4, <3>1
  <2>6. CASE r = p /\ IsOf(e, "status", q)
    <3>1. ~Silent(queue[r], "status", q)
      <4>1. queue[p][1] = e /\ 1 \in 1 .. Len(queue[p])
        BY <1>1, <1>4, TailOfEvents
      <4> QED
        BY <2>6, <4>1 DEF Silent
    <3>2. reported'[r]["status"][q].plane = select["HDMI"].plane
      BY <1>5, <2>1, <2>2, <2>3, <2>6, <3>1
    <3> QED
      BY <2>3, <2>4, <3>1, <3>2
  <2>7. CASE r = p /\ ~IsOf(e, "status", q)
    <3>1. Silent(queue'[p], "status", q) <=> Silent(queue[p], "status", q)
      <4>1. /\ Head(queue[p]) = queue[p][1] /\ Len(Tail(queue[p])) = Len(queue[p]) - 1 /\ Len(queue[p]) \in Nat
            /\ \A i \in 1 .. Len(queue[p]) - 1 : Tail(queue[p])[i] = queue[p][i + 1]
        BY <1>4, TailOfEvents
      <4>2. ASSUME Silent(queue[p], "status", q), NEW i \in 1 .. Len(queue[p]) - 1
            PROVE  ~IsOf(Tail(queue[p])[i], "status", q)
        <5>1. i + 1 \in 1 .. Len(queue[p]) /\ Tail(queue[p])[i] = queue[p][i + 1]
          BY <4>1
        <5> QED
          BY <4>2, <5>1 DEF Silent
      <4>3. ASSUME Silent(Tail(queue[p]), "status", q), NEW i \in 1 .. Len(queue[p])
            PROVE  ~IsOf(queue[p][i], "status", q)
        <5>1. CASE i = 1
          BY <1>1, <2>7, <4>1, <5>1
        <5>2. CASE i # 1
          <6>1. i - 1 \in 1 .. Len(queue[p]) - 1 /\ (i - 1) + 1 = i
            BY <4>1, <5>2
          <6>2. Tail(queue[p])[i - 1] = queue[p][i]
            BY <4>1, <6>1
          <6> QED
            BY <4>1, <4>3, <6>1, <6>2 DEF Silent
        <5> QED
          BY <5>1, <5>2
      <4> QED
        BY <1>3, <4>1, <4>2, <4>3 DEF Silent
    <3>2. reported'[r]["status"][q] = reported[r]["status"][q]
      BY <1>5, <2>1, <2>2, <2>7
    <3> QED
      BY <2>3, <2>4, <2>7, <3>1, <3>2
  <2> QED
    BY <2>5, <2>6, <2>7
<1>7. PlaneTypes' /\ SoleCalls' /\ PlaneGiven' /\ PlaneChosen'
  BY <1>2 DEF PlaneInv, PlaneTypes, SoleCalls, PlaneGiven, PlaneChosen
<1> QED
  BY <1>2, <1>6, <1>7 DEF PlaneInv

LEMMA PlaneOfDriver ==
  ASSUME EventTypes, PlaneInv, N!DriverChanges PROVE PlaneInv'
<1>1. UNCHANGED <<planeType, select, reported, chosen, steady, request>>
  BY DEF N!DriverChanges, N!pluginVars, N!history
<1>2. PICK kind \in DriverKinds : \E port_ \in PortsOf(kind), value \in ValuesOf(kind) :
        DriverTells(kind, port_, value)
  BY DriverSteps
<1>3. PICK q_ \in PortsOf(kind), value \in ValuesOf(kind) : DriverTells(kind, q_, value)
  BY <1>2
<1>4. PICK s, type : s = <<N!Event(kind, q_, value)>> /\ type = N!TypeOf(q_)
  OBVIOUS
<1>5. s \in Seq(EventSet) /\ N!Send(kind, type, s) /\ kind # "status"
      /\ \A q : Silent(s, "status", q)
  <2>1. N!Event(kind, q_, value) \in EventSet /\ kind # "status"
    BY EventIn, KindFacts
  <2>2. N!Event(kind, q_, value).kind = kind
    BY DEF N!Event
  <2> QED
    BY <1>3, <1>4, <2>1, <2>2 DEF DriverTells, Silent, IsOf
<1>6. ASSUME NEW r \in steady PROVE PlaneTold(r)'
  <2>1. r \in N!Plugins /\ PlaneTold(r) /\ queue[r] \in Seq(EventSet)
    BY DEF PlaneInv, PlaneTypes, EventTypes, QueueTypes
  <2>2. queue'[r] = queue[r] \o s \/ queue'[r] = queue[r]
    BY <1>5, <2>1 DEF N!Send
  <2>3. ASSUME NEW q PROVE Silent(queue'[r], "status", q) <=> Silent(queue[r], "status", q)
    <3>1. Silent(queue[r] \o s, "status", q) <=> Silent(queue[r], "status", q)
      BY <1>5, <2>1, ConcatSilent
    <3> QED
      BY <2>2, <3>1
  <2> QED
    BY <1>1, <2>1, <2>3 DEF PlaneTold, Settled
<1>7. PlaneTypes' /\ SoleCalls' /\ PlaneGiven' /\ PlaneChosen'
  BY <1>1 DEF PlaneInv, PlaneTypes, SoleCalls, PlaneGiven, PlaneChosen
<1> QED
  BY <1>1, <1>6, <1>7 DEF PlaneInv

LEMMA PlaneOfStart ==
  ASSUME CallTypes, EventTypes, PlaneInv, NEW c \in Callers, N!start(c) PROVE PlaneInv'
<1>1. PICK p \in N!Plugins, q_ \in N!InputPorts, plane_ \in Planes :
        /\ N!Begin(c, [op |-> "start", plugin |-> p, port |-> q_, plane |-> plane_,
                       step |-> "plane", alone |-> TRUE])
        /\ planeType' = [planeType EXCEPT ![p] = 0] /\ N!Disturb(p)
        /\ UNCHANGED <<select, queue, reported, chosen>>
  BY DEF N!start, N!driverVars
<1>2. PICK asked : asked = [op |-> "start", plugin |-> p, port |-> q_, plane |-> plane_,
                          step |-> "plane", alone |-> TRUE]
  OBVIOUS
<1>3. asked \in Calls /\ asked.op = "start" /\ asked.plugin = p /\ asked.step = "plane"
  BY <1>2 DEF Calls, StartCalls
<1>4. N!Begin(c, asked)
  BY <1>1, <1>2
<1>5. /\ SoleCalls'
      /\ \A d \in Callers : request'[d].op = "start" /\ request'[d].step = "select" /\ request'[d].alone =>
           /\ request[d].op = "start" /\ request[d].step = "select" /\ request[d].alone
           /\ request'[d].plugin = request[d].plugin /\ request'[d].plane = request[d].plane
           /\ request[d].plugin # p
      /\ \A r \in N!Plugins : r # p /\ Settled(r) => Settled(r)'
  BY <1>3, <1>4, BeginAlone DEF PlaneInv
<1>6. /\ planeType' \in [N!Plugins -> Planes \cup {-1, 0}]
      /\ \A r \in N!Plugins \ {p} : planeType'[r] = planeType[r]
  BY <1>1 DEF PlaneInv, PlaneTypes
<1>7. PlaneGiven'
  <2>1. \A d \in Callers : request[d].op = "start" => request[d].plugin \in N!Plugins
    BY StartAt
  <2> QED
    BY <1>5, <1>6, <2>1 DEF PlaneInv, PlaneGiven
<1>8. steady' \subseteq steady /\ \A r \in steady' : PlaneTold(r)'
  BY <1>1, <1>5, <1>6, DisturbTold DEF EventTypes
<1>9. PlaneTypes' /\ PlaneChosen'
  BY <1>1, <1>6, <1>8 DEF PlaneInv, PlaneTypes, PlaneChosen
<1> QED
  BY <1>5, <1>7, <1>8, <1>9 DEF PlaneInv

LEMMA PlaneOfStop ==
  ASSUME CallTypes, EventTypes, PlaneInv, NEW c \in Callers, N!stop(c) PROVE PlaneInv'
<1>1. PICK p, type, value, plane_ :
        /\ p \in N!Plugins /\ type \in {"HDMI", "COMPOSITE"} /\ value \in {"primary", "select"}
        /\ N!Begin(c, [op |-> "stop", plugin |-> p, type |-> type, alone |-> TRUE, step |-> value])
        /\ plane_ \in {-1, planeType[p]}
        /\ planeType' = [planeType EXCEPT ![p] = plane_] /\ N!Disturb(p)
        /\ UNCHANGED <<select, queue, reported, chosen>>
  <2>1. PICK p \in N!Plugins, type \in {"HDMI", "COMPOSITE"} :
          /\ N!Begin(c, [op |-> "stop", plugin |-> p, type |-> type, alone |-> TRUE,
                         step |-> IF balanceSet[p] THEN "primary" ELSE "select"])
          /\ planeType' = [planeType EXCEPT ![p] =
                             IF p = "AVInput" \/ ~balanceSet[p] THEN -1 ELSE @]
          /\ N!Disturb(p) /\ UNCHANGED <<select, queue, reported, chosen>>
    BY DEF N!stop, N!driverVars
  <2>2. PICK value, plane_ :
          /\ value = IF balanceSet[p] THEN "primary" ELSE "select"
          /\ plane_ = IF p = "AVInput" \/ ~balanceSet[p] THEN -1 ELSE planeType[p]
    OBVIOUS
  <2>3. planeType' = [planeType EXCEPT ![p] = plane_]
    BY <2>1, <2>2
  <2>4. N!Begin(c, [op |-> "stop", plugin |-> p, type |-> type, alone |-> TRUE, step |-> value])
    BY <2>1, <2>2
  <2>5. value \in {"primary", "select"} /\ plane_ \in {-1, planeType[p]}
    BY <2>2
  <2> QED
    BY <2>1, <2>3, <2>4, <2>5
<1>2. PICK asked : asked = [op |-> "stop", plugin |-> p, type |-> type, alone |-> TRUE, step |-> value]
  OBVIOUS
<1>3. asked \in Calls /\ asked.op = "stop" /\ asked.plugin = p
  BY <1>1, <1>2 DEF Calls, StopCalls
<1>4. N!Begin(c, asked)
  BY <1>1, <1>2
<1>5. /\ SoleCalls'
      /\ \A d \in Callers : request'[d].op = "start" /\ request'[d].step = "select" /\ request'[d].alone =>
           /\ request[d].op = "start" /\ request[d].step = "select" /\ request[d].alone
           /\ request'[d].plugin = request[d].plugin /\ request'[d].plane = request[d].plane
           /\ request[d].plugin # p
      /\ \A r \in N!Plugins : r # p /\ Settled(r) => Settled(r)'
  BY <1>3, <1>4, BeginAlone DEF PlaneInv
<1>6. /\ planeType' \in [N!Plugins -> Planes \cup {-1, 0}]
      /\ \A r \in N!Plugins \ {p} : planeType'[r] = planeType[r]
  <2>1. plane_ \in Planes \cup {-1, 0}
    BY <1>1 DEF PlaneInv, PlaneTypes
  <2> QED
    BY <1>1, <2>1 DEF PlaneInv, PlaneTypes
<1>7. PlaneGiven'
  <2>1. \A d \in Callers : request[d].op = "start" => request[d].plugin \in N!Plugins
    BY StartAt
  <2> QED
    BY <1>5, <1>6, <2>1 DEF PlaneInv, PlaneGiven
<1>8. steady' \subseteq steady /\ \A r \in steady' : PlaneTold(r)'
  BY <1>1, <1>5, <1>6, DisturbTold DEF EventTypes
<1>9. PlaneTypes' /\ PlaneChosen'
  BY <1>1, <1>6, <1>8 DEF PlaneInv, PlaneTypes, PlaneChosen
<1> QED
  BY <1>5, <1>7, <1>8, <1>9 DEF PlaneInv

\* A call of a plugin under way changes its static variable.
LEMMA PlaneMoves ==
  ASSUME PlaneInv, NEW c \in Callers, request[c].op \in {"start", "stop"}, NEW p \in N!Plugins,
         request[c].plugin = p, NEW plane_ \in Planes \cup {-1, 0},
         planeType' = [planeType EXCEPT ![p] = plane_],
         UNCHANGED <<select, queue, reported, chosen, steady>>,
         SoleCalls', PlaneGiven', \A r \in N!Plugins \ {p} : Settled(r) => Settled(r)'
  PROVE  PlaneInv'
<1>1. PlaneTypes' /\ \A r \in N!Plugins \ {p} : planeType'[r] = planeType[r]
  BY DEF PlaneInv, PlaneTypes
<1>2. PlaneChosen'
  BY DEF PlaneInv, PlaneChosen
<1>3. ASSUME NEW r \in steady PROVE PlaneTold(r)'
  <2>1. r \in N!Plugins /\ PlaneTold(r)
    BY DEF PlaneInv, PlaneTypes
  <2>2. CASE r = p
    <3>1. ~Settled(p)
      BY DEF Settled
    <3> QED
      BY <2>1, <2>2, <3>1 DEF PlaneTold
  <2>3. CASE r # p
    BY <1>1, <2>1, <2>3, PlaneToldStays
  <2> QED
    BY <2>2, <2>3
<1> QED
  BY <1>1, <1>2, <1>3 DEF PlaneInv

LEMMA PlaneOfStartPlane ==
  ASSUME CallTypes, PlaneInv, NEW c \in Callers, N!startPlane(c) PROVE PlaneInv'
<1>1. /\ request[c].op = "start" /\ request[c].step = "plane"
      /\ planeType' = [planeType EXCEPT ![request[c].plugin] = request[c].plane]
      /\ IF request[c].plane \in {0, 1} THEN N!Go(c, "select") ELSE N!Return(c)
      /\ UNCHANGED <<select, queue, reported, chosen, steady>>
  BY DEF N!startPlane, N!At, N!driverVars, N!history
<1>2. PICK p \in N!Plugins, plane_ \in Planes : p = request[c].plugin /\ plane_ = request[c].plane
  BY <1>1, StartAt
<1>3. planeType' = [planeType EXCEPT ![p] = plane_] /\ request[c] # N!Idle
  BY <1>1, <1>2 DEF N!Idle
<1>4. planeType'[p] = plane_ /\ \A r \in N!Plugins \ {p} : planeType'[r] = planeType[r]
  BY <1>3 DEF PlaneInv, PlaneTypes
<1>5. CASE plane_ \in {0, 1}
  <2>1. /\ request'[c].op = "start" /\ request'[c].plugin = p /\ request'[c].step = "select"
        /\ request'[c].alone = request[c].alone /\ request'[c].plane = plane_
        /\ \A d \in Callers \ {c} : request'[d] = request[d]
    BY <1>1, <1>2, <1>3, <1>5, CallGoes
  <2>2. SoleCalls'
    BY <1>2, <1>3, <2>1, GoAlone DEF PlaneInv
  <2>3. PlaneGiven'
    <3> SUFFICES ASSUME NEW d \in Callers, request'[d].op = "start", request'[d].step = "select",
                        request'[d].alone
                 PROVE  planeType'[request'[d].plugin] = request'[d].plane
      BY DEF PlaneGiven
    <3>1. CASE d = c
      BY <1>4, <2>1, <3>1
    <3>2. CASE d # c
      <4>1. request'[d] = request[d] /\ request[d] # N!Idle /\ request[d].plugin \in N!Plugins
        BY <2>1, <3>2, StartAt DEF N!Idle
      <4>2. request[c].plugin # request[d].plugin
        BY <1>3, <3>2, <4>1 DEF PlaneInv, SoleCalls
      <4> QED
        BY <1>2, <1>4, <4>1, <4>2 DEF PlaneInv, PlaneGiven
    <3> QED
      BY <3>1, <3>2
  <2>4. \A r \in N!Plugins \ {p} : Settled(r) => Settled(r)'
    BY <2>1 DEF Settled
  <2>5. /\ request[c].op \in {"start", "stop"} /\ request[c].plugin = p
        /\ plane_ \in Planes \cup {-1, 0}
        /\ UNCHANGED <<select, queue, reported, chosen, steady>>
    BY <1>1, <1>2
  <2> QED
    BY <1>3, <2>2, <2>3, <2>4, <2>5, PlaneMoves
<1>6. CASE plane_ \notin {0, 1}
  <2>1. request'[c] = N!Idle /\ \A d \in Callers \ {c} : request'[d] = request[d]
    BY <1>1, <1>2, <1>6, CallReturns
  <2>2. SoleCalls' /\ \A r \in N!Plugins : Settled(r) => Settled(r)'
    BY <2>1, ReturnAlone DEF PlaneInv
  <2>3. PlaneGiven'
    <3> SUFFICES ASSUME NEW d \in Callers, request'[d].op = "start", request'[d].step = "select",
                        request'[d].alone
                 PROVE  planeType'[request'[d].plugin] = request'[d].plane
      BY DEF PlaneGiven
    <3>1. d # c
      BY <2>1 DEF N!Idle
    <3>2. request'[d] = request[d] /\ request[d] # N!Idle /\ request[d].plugin \in N!Plugins
      BY <2>1, <3>1, StartAt DEF N!Idle
    <3>3. request[c].plugin # request[d].plugin
      BY <1>3, <3>1, <3>2 DEF PlaneInv, SoleCalls
    <3> QED
      BY <1>2, <1>4, <3>2, <3>3 DEF PlaneInv, PlaneGiven
  <2>4. /\ request[c].op \in {"start", "stop"} /\ request[c].plugin = p
        /\ plane_ \in Planes \cup {-1, 0}
        /\ UNCHANGED <<select, queue, reported, chosen, steady>>
    BY <1>1, <1>2
  <2>5. \A r \in N!Plugins \ {p} : Settled(r) => Settled(r)'
    BY <2>2
  <2> QED
    BY <1>3, <2>2, <2>3, <2>4, <2>5, PlaneMoves
<1> QED
  BY <1>5, <1>6

LEMMA PlaneOfRestores ==
  ASSUME CallTypes, PlaneInv, NEW c \in Callers, N!stopRestores(c) PROVE PlaneInv'
<1>1. PICK at \in {"primary", "input", "lower"} :
        /\ request[c].op = "stop" /\ request[c].step = at
        /\ planeType' = [planeType EXCEPT !["HdmiInput"] =
                           IF at = "lower" /\ request[c].plugin = "HdmiInput" THEN -1 ELSE @]
        /\ N!Go(c, CASE at = "primary" -> "input" [] at = "input" -> "lower" [] OTHER -> "select")
        /\ UNCHANGED <<select, queue, reported, chosen, steady>>
  BY DEF N!stopRestores, N!history
<1>2. PICK next \in {"input", "lower", "select"} :
        next = CASE at = "primary" -> "input" [] at = "input" -> "lower" [] OTHER -> "select"
  BY <1>1
<1>3. PICK p \in N!Plugins : p = request[c].plugin
  BY <1>1, StopAt
<1>4. request[c] # N!Idle /\ N!Go(c, next)
  BY <1>1, <1>2 DEF N!Idle
<1>5. /\ request'[c].op = "stop" /\ request'[c].plugin = p /\ request'[c].alone = request[c].alone
      /\ \A d \in Callers \ {c} : request'[d] = request[d]
  BY <1>1, <1>2, <1>3, <1>4, CallGoes
<1>6. SoleCalls' /\ \A r \in N!Plugins : Settled(r) => Settled(r)'
  BY <1>1, <1>3, <1>4, <1>5, GoAlone DEF PlaneInv, Settled
<1>7. PICK plane_ \in Planes \cup {-1, 0} : planeType' = [planeType EXCEPT ![p] = plane_]
  <2>1. planeType \in [N!Plugins -> Planes \cup {-1, 0}]
    BY DEF PlaneInv, PlaneTypes
  <2>2. CASE at = "lower" /\ p = "HdmiInput"
    <3>1. planeType' = [planeType EXCEPT !["HdmiInput"] = -1]
      BY <1>1, <1>3, <2>2
    <3> QED
      BY <2>2, <3>1
  <2>3. CASE ~(at = "lower" /\ p = "HdmiInput")
    <3>1. planeType' = planeType
      BY <1>1, <1>3, <2>1, <2>3
    <3>2. planeType' = [planeType EXCEPT ![p] = planeType[p]] /\ planeType[p] \in Planes \cup {-1, 0}
      BY <2>1, <3>1
    <3> QED
      BY <3>2
  <2> QED
    BY <2>2, <2>3
<1>8. \A r \in N!Plugins \ {p} : planeType'[r] = planeType[r]
  BY <1>7 DEF PlaneInv, PlaneTypes
<1>9. PlaneGiven'
  <2> SUFFICES ASSUME NEW d \in Callers, request'[d].op = "start", request'[d].step = "select",
                      request'[d].alone
               PROVE  planeType'[request'[d].plugin] = request'[d].plane
    BY DEF PlaneGiven
  <2>1. d # c
    BY <1>5
  <2>2. request'[d] = request[d] /\ request[d] # N!Idle /\ request[d].plugin \in N!Plugins
    BY <1>5, <2>1, StartAt DEF N!Idle
  <2>3. request[c].plugin # request[d].plugin
    BY <1>4, <2>1, <2>2 DEF PlaneInv, SoleCalls
  <2> QED
    BY <1>3, <1>8, <2>2, <2>3 DEF PlaneInv, PlaneGiven
<1> QED
  BY <1>1, <1>3, <1>6, <1>7, <1>9, PlaneMoves

\* What a selection tells, from the port that was selected.
LEMMA SelectionSent ==
  ASSUME EventTypes, NEW type \in {"HDMI", "COMPOSITE"}, NEW new, NEW plane_,
         new = -1 \/ (new \in N!InputPorts /\ N!TypeOf(new) = type),
         N!selectPort(type, new, plane_)
  PROVE  /\ select'[type].port = new /\ select'[type].plane = plane_
         /\ \A t \in {"HDMI", "COMPOSITE"} \ {type} : select'[t] = select[t]
         /\ \E s \in Seq(EventSet) :
              N!Send("status", type, s) /\ TellsSelection(s, type, select[type].port, new)
<1> PICK old, s : old = select[type].port /\ s = SelectEvents(old, new)
  OBVIOUS
<1>1. N!Send("status", type, s) /\ select' = [select EXCEPT ![type] = [port |-> new, plane |-> plane_]]
  BY DEF N!selectPort, SelectEvents
<1>2. old = -1 \/ (old \in N!InputPorts /\ N!TypeOf(old) = type)
  BY DEF EventTypes, SelectTypes
<1>3. TellsSelection(s, type, old, new)
  BY <1>2, SelectionTold
<1>4. s \in Seq(EventSet)
  BY <1>3 DEF TellsSelection
<1>5. /\ select'[type].port = new /\ select'[type].plane = plane_
      /\ \A t \in {"HDMI", "COMPOSITE"} \ {type} : select'[t] = select[t]
  BY <1>1 DEF EventTypes, SelectTypes
<1> QED
  BY <1>1, <1>3, <1>4, <1>5

\* A composite input's selection does not touch the HDMI port's events.
LEMMA CompositeSelected ==
  ASSUME EventTypes, NEW new, NEW plane_, new = -1 \/ (new \in N!InputPorts /\ N!TypeOf(new) = "COMPOSITE"),
         N!selectPort("COMPOSITE", new, plane_), UNCHANGED <<reported, planeType>>,
         NEW r \in N!Plugins, PlaneTold(r), Settled(r) => Settled(r)'
  PROVE  PlaneTold(r)'
<1>1. /\ select'["HDMI"] = select["HDMI"]
      /\ \E s \in Seq(EventSet) :
           N!Send("status", "COMPOSITE", s) /\ TellsSelection(s, "COMPOSITE", select["COMPOSITE"].port, new)
  BY SelectionSent
<1>2. PICK s \in Seq(EventSet) :
        N!Send("status", "COMPOSITE", s) /\ TellsSelection(s, "COMPOSITE", select["COMPOSITE"].port, new)
  BY <1>1
<1> PICK q : q = select["HDMI"].port
  OBVIOUS
<1>3. SUFFICES ASSUME q # -1
               PROVE  Silent(queue'[r], "status", q) <=> Silent(queue[r], "status", q)
  BY <1>1 DEF PlaneTold
<1>4. N!TypeOf(q) = "HDMI" /\ queue[r] \in Seq(EventSet)
  BY <1>3 DEF EventTypes, SelectTypes, QueueTypes
<1>5. Silent(s, "status", q)
  BY <1>2, <1>4 DEF TellsSelection, Silent, IsOf
<1>6. queue'[r] = queue[r] \o s \/ queue'[r] = queue[r]
  BY <1>2 DEF N!Send
<1>7. Silent(queue[r] \o s, "status", q) <=> Silent(queue[r], "status", q)
  BY <1>4, <1>5, ConcatSilent
<1> QED
  BY <1>6, <1>7

LEMMA PlaneOfStartSelect ==
  ASSUME CallTypes, EventTypes, PlaneInv, NEW c \in Callers, N!startSelect(c) PROVE PlaneInv'
<1>1. /\ request[c].op = "start" /\ request[c].step = "select" /\ N!Return(c)
      /\ UNCHANGED <<reported, planeType>>
  BY DEF N!startSelect, N!At, N!pluginVars
<1>2. PICK p \in N!Plugins, q \in N!InputPorts, b \in BOOLEAN :
        p = request[c].plugin /\ q = request[c].port /\ b = request[c].alone
  BY <1>1, StartAt
<1>3. request[c].plane \in {0, 1} /\ request[c] # N!Idle
  BY <1>1 DEF CallTypes, N!Idle
<1>4. request'[c] = N!Idle /\ \A d \in Callers \ {c} : request'[d] = request[d]
  BY <1>1, CallReturns
<1>5. SoleCalls' /\ PlaneGiven' /\ \A r \in N!Plugins : Settled(r) => Settled(r)'
  BY <1>1, <1>4, ReturnAlone DEF PlaneInv
<1>6. CASE q \in HdmiPorts
  <2>1. /\ N!selectPort("HDMI", q, planeType[p])
        /\ chosen' = [plane |-> request[c].plane, alone |-> b]
        /\ steady' = IF b THEN {p} ELSE {}
    BY <1>2, <1>6 DEF N!startSelect, N!PlaneOf
  <2>2. N!TypeOf(q) = "HDMI"
    BY <1>6, KindFacts
  <2>3. /\ select'["HDMI"].port = q /\ select'["HDMI"].plane = planeType[p]
        /\ select'["COMPOSITE"] = select["COMPOSITE"]
        /\ \E s \in Seq(EventSet) :
             N!Send("status", "HDMI", s) /\ TellsSelection(s, "HDMI", select["HDMI"].port, q)
    BY <2>1, <2>2, SelectionSent
  <2>4. PICK s \in Seq(EventSet) :
          N!Send("status", "HDMI", s) /\ TellsSelection(s, "HDMI", select["HDMI"].port, q)
    BY <2>3
  <2>5. b => planeType[p] = request[c].plane
    BY <1>1, <1>2 DEF PlaneInv, PlaneGiven
  <2>6. PlaneTypes' /\ PlaneChosen'
    <3>1. planeType[p] \in Planes \cup {-1, 0}
      BY DEF PlaneInv, PlaneTypes
    <3>2. \A type \in {"HDMI", "COMPOSITE"} : select'[type].plane \in Planes \cup {-1, 0}
      BY <2>3, <3>1 DEF PlaneInv, PlaneTypes
    <3>3. chosen'.plane \in {-1, 0, 1} /\ steady' \subseteq N!Plugins
      BY <1>3, <2>1
    <3>4. PlaneChosen'
      BY <2>1, <2>3, <2>5 DEF PlaneChosen
    <3> QED
      BY <1>1, <3>2, <3>3, <3>4 DEF PlaneInv, PlaneTypes
  <2>7. ASSUME b PROVE PlaneTold(p)'
    <3>1. N!Listens(p, "status", "HDMI")
      BY DEF N!Listens
    <3>2. queue'[p] = queue[p] \o s
      BY <2>4, <3>1 DEF N!Send
    <3>3. queue[p] \in Seq(EventSet)
      BY DEF EventTypes, QueueTypes
    <3>4. ~Silent(s, "status", q)
      BY <2>4, KindFacts DEF TellsSelection
    <3>5. ~Silent(queue'[p], "status", q)
      BY <3>2, <3>3, <3>4, ConcatSilent
    <3>6. Settled(p)'
      <4> SUFFICES ASSUME NEW d \in Callers, request'[d].op \in {"start", "stop"} PROVE request'[d].plugin # p
        BY DEF Settled
      <4>1. d # c
        BY <1>4 DEF N!Idle
      <4>2. request'[d] = request[d] /\ request[d] # N!Idle
        BY <1>4, <4>1 DEF N!Idle
      <4> QED
        BY <1>2, <1>3, <2>7, <4>1, <4>2 DEF PlaneInv, SoleCalls
    <3> QED
      BY <1>1, <2>3, <3>5, <3>6 DEF PlaneTold
  <2> QED
    BY <1>5, <2>1, <2>6, <2>7 DEF PlaneInv
<1>7. CASE q \notin HdmiPorts
  <2>1. N!selectPort("COMPOSITE", q, 0) /\ UNCHANGED <<chosen, steady>>
    BY <1>2, <1>7 DEF N!startSelect
  <2>2. N!TypeOf(q) = "COMPOSITE"
    BY <1>7 DEF N!TypeOf
  <2>3. select'["COMPOSITE"].plane = 0 /\ select'["HDMI"] = select["HDMI"]
    BY <2>1, <2>2, SelectionSent
  <2>4. PlaneTypes' /\ PlaneChosen'
    BY <1>1, <2>1, <2>3 DEF PlaneInv, PlaneTypes, PlaneChosen
  <2>5. \A r \in steady : PlaneTold(r)'
    BY <1>1, <1>5, <2>1, <2>2, CompositeSelected DEF PlaneInv, PlaneTypes
  <2> QED
    BY <1>5, <2>1, <2>4, <2>5 DEF PlaneInv
<1> QED
  BY <1>6, <1>7

LEMMA PlaneOfStopSelect ==
  ASSUME CallTypes, EventTypes, PlaneInv, NEW c \in Callers, N!stopSelect(c) PROVE PlaneInv'
<1>1. /\ request[c].op = "stop" /\ N!Return(c) /\ N!selectPort(request[c].type, -1, -1)
      /\ UNCHANGED <<reported, planeType, chosen, steady>>
  BY DEF N!stopSelect, N!At, N!history
<1>2. PICK type \in {"HDMI", "COMPOSITE"} : type = request[c].type
  BY <1>1, StopAt
<1>3. request'[c] = N!Idle /\ \A d \in Callers \ {c} : request'[d] = request[d]
  BY <1>1, CallReturns
<1>4. SoleCalls' /\ PlaneGiven' /\ \A r \in N!Plugins : Settled(r) => Settled(r)'
  BY <1>1, <1>3, ReturnAlone DEF PlaneInv
<1>5. /\ select'[type].port = -1 /\ select'[type].plane = -1
      /\ \A t \in {"HDMI", "COMPOSITE"} \ {type} : select'[t] = select[t]
  BY <1>1, <1>2, SelectionSent
<1>6. PlaneTypes' /\ PlaneChosen'
  BY <1>1, <1>5 DEF PlaneInv, PlaneTypes, PlaneChosen
<1>7. ASSUME NEW r \in steady PROVE PlaneTold(r)'
  <2>1. r \in N!Plugins /\ PlaneTold(r)
    BY DEF PlaneInv, PlaneTypes
  <2>2. CASE type = "HDMI"
    BY <1>5, <2>2 DEF PlaneTold
  <2>3. CASE type = "COMPOSITE"
    BY <1>1, <1>2, <1>4, <2>1, <2>3, CompositeSelected
  <2> QED
    BY <2>2, <2>3
<1> QED
  BY <1>1, <1>4, <1>6, <1>7 DEF PlaneInv

\* The balance, and a driver that fails.
LEMMA PlaneOfTheRest ==
  ASSUME CallTypes, PlaneInv, NEW c \in Callers,
         N!setMixerLevels(c) \/ N!mixLevels(c) \/ N!mixRaises(c) \/ N!DriverFails(c)
  PROVE  PlaneInv'
<1>1. UNCHANGED <<planeType, select, queue, reported, chosen, steady>>
  BY DEF N!setMixerLevels, N!mixLevels, N!mixRaises, N!DriverFails, N!driverVars, N!pluginVars, N!history
<1>2. CASE N!setMixerLevels(c)
  <2>1. PICK p \in N!Plugins, primary \in MixerLevels, input \in MixerLevels :
          N!Begin(c, [op |-> "mix", plugin |-> p, primary |-> primary, input |-> input,
                      step |-> "primary", alone |-> TRUE])
    BY <1>2 DEF N!setMixerLevels
  <2>2. PICK asked : asked = [op |-> "mix", plugin |-> p, primary |-> primary, input |-> input,
                            step |-> "primary", alone |-> TRUE]
    OBVIOUS
  <2>3. asked \in Calls /\ asked.op = "mix" /\ asked.plugin = p
    BY <2>2 DEF Calls, MixCalls
  <2>4. N!Begin(c, asked)
    BY <2>1, <2>2
  <2>5. /\ SoleCalls'
        /\ \A d \in Callers : request'[d].op = "start" /\ request'[d].step = "select" /\ request'[d].alone =>
             /\ request[d].op = "start" /\ request[d].step = "select" /\ request[d].alone
             /\ request'[d].plugin = request[d].plugin /\ request'[d].plane = request[d].plane
             /\ request[d].plugin # p
        /\ \A r \in N!Plugins : Settled(r) => Settled(r)'
    BY <2>3, <2>4, BeginAlone DEF PlaneInv
  <2>6. PlaneGiven'
    BY <1>1, <2>5 DEF PlaneInv, PlaneGiven
  <2> QED
    BY <1>1, <2>5, <2>6, PlaneUndisturbed
<1>3. CASE N!mixLevels(c)
  <2>1. request[c].op = "mix" /\ request[c].step \in {"primary", "input"}
        /\ N!Go(c, IF request[c].step = "primary" THEN "input" ELSE "raise")
    BY <1>3 DEF N!mixLevels
  <2>2. PICK next \in {"input", "raise"} : N!Go(c, next)
    BY <2>1
  <2>3. /\ request[c] # N!Idle /\ request'[c].op = "mix" /\ request'[c].plugin = request[c].plugin
        /\ request'[c].alone = request[c].alone
        /\ \A d \in Callers \ {c} : request'[d] = request[d]
    BY <2>1, <2>2, CallGoes DEF N!Idle
  <2>4. SoleCalls'
    BY <2>3, GoAlone DEF PlaneInv
  <2>5. PlaneGiven' /\ \A r \in N!Plugins : Settled(r) => Settled(r)'
    BY <1>1, <2>1, <2>3 DEF PlaneInv, PlaneGiven, Settled
  <2> QED
    BY <1>1, <2>4, <2>5, PlaneUndisturbed
<1>4. CASE N!mixRaises(c) \/ N!DriverFails(c)
  <2>1. N!Return(c)
    BY <1>4 DEF N!mixRaises, N!DriverFails
  <2>2. request'[c] = N!Idle /\ \A d \in Callers \ {c} : request'[d] = request[d]
    BY <2>1, CallReturns
  <2>3. SoleCalls' /\ PlaneGiven' /\ \A r \in N!Plugins : Settled(r) => Settled(r)'
    BY <1>1, <2>2, ReturnAlone DEF PlaneInv
  <2> QED
    BY <1>1, <2>3, PlaneUndisturbed
<1> QED
  BY <1>2, <1>3, <1>4

LEMMA PlaneStep ==
  ASSUME CallTypes, EventTypes, PlaneInv, N!Next PROVE PlaneInv'
BY PlaneDelivered, PlaneOfDriver, PlaneOfStart, PlaneOfStartPlane, PlaneOfStartSelect, PlaneOfStop,
   PlaneOfRestores, PlaneOfStopSelect, PlaneOfTheRest DEF N!Next, N!CallStep

\* What holds of the two plugins and the driver.
InputsInv == MixInv /\ EventInv /\ PlaneInv

LEMMA InputsInvariant == PartsSpec => [](part = "inputs" => InputsInv)
<1> DEFINE Inv == part = "inputs" => InputsInv
<1>1. PartsInit => Inv
  BY PartsStart, MixStart, EventStart, PlaneStart DEF InputsInv
<1>2. Inv /\ [PartsNext]_AllVars => Inv'
  <2> SUFFICES ASSUME Inv, [PartsNext]_AllVars, part' = "inputs" PROVE InputsInv'
    OBVIOUS
  <2>1. part = "inputs" /\ (N!Next \/ UNCHANGED InputsVars)
    BY PartsStep
  <2>2. CASE UNCHANGED InputsVars
    <3>1. MixInv'
      BY <2>1, <2>2, MixUndisturbed DEF InputsVars, InputsInv, MixInv, CallTypes, Same
    <3>2. EventInv'
      BY <2>1, <2>2, EventsUndisturbed DEF InputsVars, InputsInv, EventsKept
    <3>3. PlaneInv'
      <4>1. /\ UNCHANGED <<planeType, select, queue, reported, chosen, steady>>
            /\ SoleCalls' /\ PlaneGiven' /\ \A p \in N!Plugins : Settled(p) => Settled(p)'
        BY <2>1, <2>2 DEF InputsVars, InputsInv, PlaneInv, SoleCalls, PlaneGiven, Settled
      <4> QED
        BY <2>1, <4>1, PlaneUndisturbed DEF InputsInv
    <3> QED
      BY <3>1, <3>2, <3>3 DEF InputsInv
  <2>3. CASE N!Next
    <3>1. CallTypes /\ EventTypes /\ MixInv /\ EventInv /\ PlaneInv
      BY <2>1 DEF InputsInv, MixInv, EventInv
    <3> QED
      BY <2>3, <3>1, MixStep, EventStep, PlaneStep DEF InputsInv
  <2> QED
    BY <2>1, <2>2, <2>3
<1> QED
  BY <1>1, <1>2, PTL DEF PartsSpec, AllVars

\* A mixer whose levels no call and no flag accounts for is at its full levels
\* (setMixerLevels, stopHdmiInput, stopInput of both plugins), unless a balance met a
\* restoration in its plugin or the driver failed between its two levels.
THEOREM MixerIsRestorable == PartsSpec => []MixerRestorable
<1>1. (part = "inputs" => InputsInv) => MixerRestorable
  <2> SUFFICES ASSUME MixInv, ~mixerTorn, \A c \in Callers : request[c] = N!Idle,
                      \A p \in N!Plugins : ~balanceSet[p]
               PROVE  mixer = [primary |-> N!Full, input |-> N!Full]
    BY DEF MixerRestorable, N!MixerRestorable, InputsInv
  <2>1. \A p \in N!Plugins : \A steps : CallsAt("mix", p, steps) = {}
    BY DEF CallsAt, N!Idle
  <2>2. \A level \in {"primary", "input"} : mixer[level] = N!Full
    BY <2>1 DEF MixInv, Owed, Owes
  <2> QED
    BY <2>2 DEF MixInv, MixTypes
<1> QED
  BY <1>1, InputsInvariant, PTL

\* When a plugin has delivered its events, its clients have heard what the driver has
\* of every port it reports (the event handlers of HdmiInput.cpp and AVInput.cpp),
\* VRR included as long as a single port has had any.
THEOREM EventsAgreement == PartsSpec => []EventsConverge
<1>1. EventInv => N!EventsConverge
  <2> SUFFICES ASSUME EventInv, NEW p \in N!Plugins, queue[p] = <<>>, NEW q \in N!InputPorts,
                      N!Listens(p, "status", N!TypeOf(q))
               PROVE  /\ reported[p].connected[q] = driver.connected[q]
                      /\ reported[p].signal[q] = driver.signal[q]
                      /\ reported[p].mode[q][1] = N!Size(N!TypeOf(q), driver.mode[q][1])
                      /\ N!RateTold(driver.mode[q][2], reported[p].mode[q][2])
                      /\ reported[p].status[q].started <=> select[N!TypeOf(q)].port = q
                      /\ q \in HdmiPorts =>
                           /\ reported[p].ALLM[q] = N!getHdmiALLMStatus(q)
                           /\ reported[p].content[q] = driver.content[q]
                           /\ p = "AVInput" /\ vrrPorts \subseteq {q} =>
                                reported[p].VRR[q] = {type \in VrrTypes : N!getGameFeatureStatus(q, type)}
    BY DEF N!EventsConverge
  <2>1. \A kind, port_ : Silent(queue[p], kind, port_)
    BY DEF Silent
  <2>2. \A kind \in EventKinds \ {"VRR"} : q \in PortsOf(kind) => Heard(p, kind, q) = Told(kind, q, Truth(kind, q))
    <3> SUFFICES ASSUME NEW kind \in EventKinds \ {"VRR"}, q \in PortsOf(kind)
                 PROVE  Heard(p, kind, q) = Told(kind, q, Truth(kind, q))
      OBVIOUS
    <3>1. N!Listens(p, kind, N!TypeOf(q))
      BY DEF N!Listens
    <3> QED
      BY <2>1, <3>1 DEF EventInv, Following, Converges
  <2>3. reported[p].connected[q] = driver.connected[q] /\ reported[p].signal[q] = driver.signal[q]
    BY <2>2 DEF EventKinds, DriverKinds, HdmiKinds, PortsOf, Heard, Told, Truth
  <2>4. reported[p].mode[q] = <<N!Size(N!TypeOf(q), driver.mode[q][1]), N!FrameRate(driver.mode[q][2])>>
    BY <2>2 DEF EventKinds, DriverKinds, HdmiKinds, PortsOf, Heard, Told, Truth
  <2>5. reported[p].mode[q][2] = N!FrameRate(driver.mode[q][2])
    BY <2>4
  <2>6. N!RateTold(driver.mode[q][2], reported[p].mode[q][2])
    BY <2>5, RateOfFraction
  <2>7. reported[p].status[q].started <=> select[N!TypeOf(q)].port = q
    <3>1. Heard(p, "status", q) = Truth("status", q)
      BY <2>2, KindFacts DEF Told
    <3> QED
      BY <3>1 DEF Heard, Truth
  <2>8. ASSUME q \in HdmiPorts
        PROVE  reported[p].ALLM[q] = N!getHdmiALLMStatus(q) /\ reported[p].content[q] = driver.content[q]
    BY <2>2, <2>8 DEF EventKinds, DriverKinds, HdmiKinds, PortsOf, Heard, Told, Truth, N!getHdmiALLMStatus
  <2>9. ASSUME q \in HdmiPorts, p = "AVInput", vrrPorts \subseteq {q}
        PROVE  reported[p].VRR[q] = {type \in VrrTypes : N!getGameFeatureStatus(q, type)}
    <3>1. reported["AVInput"]["VRR"][q] = {vrrType} \ {N!NoVrr} /\ vrrType = driver["VRR"][q]
      BY <2>1, <2>9 DEF EventInv, VrrHeard
    <3>2. vrrType \in VrrTypes \cup {N!NoVrr} /\ N!NoVrr \notin VrrTypes
      BY PartsAssumption DEF EventInv, EventTypes, TableTypes, ValuesOf, N!InputsAssumption, N!NoVrr
    <3>3. {vrrType} \ {N!NoVrr} = {type \in VrrTypes : driver["VRR"][q] = type}
      BY <3>1, <3>2
    <3> QED
      BY <2>9, <3>1, <3>3 DEF N!getGameFeatureStatus
  <2> QED
    BY <2>3, <2>4, <2>6, <2>7, <2>8, <2>9
<1>2. (part = "inputs" => InputsInv) => EventsConverge
  BY <1>1 DEF EventsConverge, InputsInv
<1> QED
  BY <1>2, InputsInvariant, PTL

\* The plane a client asked for reaches the driver and the clients, although it goes
\* through one static variable (startHdmiInput, startInput, onStatusChange), for a call
\* that ran alone in its plugin and an event that no other call overtook.
THEOREM PlaneIsTrue == PartsSpec => []PlaneTrue
<1>1. InputsInv => N!PlaneTrue
  <2> SUFFICES ASSUME InputsInv, select["HDMI"].port # -1
               PROVE  /\ chosen.alone => select["HDMI"].plane = chosen.plane
                      /\ \A p \in steady : ~N!Pending(p, "status") =>
                           reported[p].status[select["HDMI"].port].plane = select["HDMI"].plane
    BY DEF N!PlaneTrue
  <2>1. chosen.alone => select["HDMI"].plane = chosen.plane
    BY DEF InputsInv, PlaneInv, PlaneChosen
  <2>2. ASSUME NEW p \in steady, ~N!Pending(p, "status")
        PROVE  reported[p].status[select["HDMI"].port].plane = select["HDMI"].plane
    <3>1. p \in N!Plugins /\ PlaneTold(p)
      BY DEF InputsInv, PlaneInv, PlaneTypes
    <3>2. DOMAIN queue[p] = 1 .. Len(queue[p])
      BY <3>1 DEF InputsInv, EventInv, EventTypes, QueueTypes
    <3>3. Silent(queue[p], "status", select["HDMI"].port)
      BY <2>2, <3>2 DEF N!Pending, Silent, IsOf
    <3> QED
      BY <3>1, <3>3 DEF PlaneTold
  <2> QED
    BY <2>1, <2>2
<1>2. (part = "inputs" => InputsInv) => PlaneTrue
  BY <1>1 DEF PlaneTrue
<1> QED
  BY <1>2, InputsInvariant, PTL
-----------------------------------------------------------------------------
(***************************************************************************)
(* SettingsFile.  Some settings that a restart may bring are those of the  *)
(* file the name leads to, or, while a setter writes, of the file it will  *)
(* leave, unless two setters overlapped.                                   *)
(***************************************************************************)

Value(k) ==
  CASE k = "cecVendorId" -> VendorTexts \cup {S!DefaultVendorId}
    [] k = "cecOSDName" -> Names \cup {DefaultName}
    [] OTHER -> BOOLEAN

AnyValue == UNION {Value(k) : k \in S!Keys}

Files    == {f \in UNION {[K -> AnyValue] : K \in SUBSET S!Keys} : \A k \in DOMAIN f : f[k] \in Value(k)}
Complete == {f \in [S!Keys -> AnyValue] : \A k \in S!Keys : f[k] \in Value(k)}
MemberSet ==
  {f \in [S!Keys -> AnyValue \cup 0 .. S!VendorIds - 1] :
     /\ f["cecVendorId"] \in 0 .. S!VendorIds - 1
     /\ \A k \in S!Keys \ {"cecVendorId"} : f[k] \in Value(k)}

\* What the members are made of a file, and the settings with one changed.
Means(content) == S!Members(S!Completed(content))
Changed(s, setting) == IF setting[1] = "none" THEN s ELSE [s EXCEPT ![setting[1]] = setting[2]]

LEMMA KeyFacts ==
  /\ S!Keys = {"cecEnabled", "cecOTPEnabled", "cecOSDName", "cecVendorId"}
  /\ "none" \notin S!Keys /\ \A k \in S!Keys : Value(k) \subseteq AnyValue
  /\ \A k \in S!Keys : S!PersistFirst(k) => k # "cecVendorId"
  /\ ~S!PersistFirst("none")
  /\ \A v \in Value("cecVendorId") : v \in Nat
BY PartsAssumption DEF S!Keys, AnyValue, Value, S!PersistFirst, S!SettingsAssumption, S!DefaultVendorId

LEMMA DefaultsComplete == S!Defaults \in Complete
<1>1. S!Defaults = [cecEnabled |-> TRUE, cecOTPEnabled |-> TRUE,
                    cecOSDName |-> DefaultName, cecVendorId |-> S!DefaultVendorId]
  BY DEF S!Defaults
<1>2. \A k \in S!Keys : S!Defaults[k] \in Value(k)
  <2>1. /\ S!Defaults["cecEnabled"] \in Value("cecEnabled")
        /\ S!Defaults["cecOTPEnabled"] \in Value("cecOTPEnabled")
    BY <1>1 DEF Value
  <2>2. S!Defaults["cecOSDName"] \in Value("cecOSDName")
    BY <1>1 DEF Value
  <2>3. S!Defaults["cecVendorId"] \in Value("cecVendorId")
    BY <1>1 DEF Value
  <2> QED
    BY <2>1, <2>2, <2>3, KeyFacts
<1>3. DOMAIN S!Defaults = S!Keys /\ S!Defaults = [k \in S!Keys |-> S!Defaults[k]]
  BY <1>1, KeyFacts
<1> QED
  BY <1>2, <1>3, KeyFacts DEF Complete

LEMMA BlankFile == S!Blank \in Files /\ S!Completed(S!Blank) = S!Defaults
<1>1. DOMAIN S!Blank = {} /\ S!Blank \in [{} -> AnyValue]
  BY DEF S!Blank
<1>2. S!Blank \in Files
  BY <1>1 DEF Files
<1>3. S!Completed(S!Blank) = [k \in S!Keys |-> S!Defaults[k]]
  BY <1>1 DEF S!Completed
<1> QED
  BY <1>2, <1>3, DefaultsComplete DEF Complete

LEMMA CompletedFiles ==
  ASSUME NEW f \in Files
  PROVE  S!Completed(f) \in Complete /\ DOMAIN f \subseteq S!Keys
<1>1. DOMAIN f \subseteq S!Keys /\ \A k \in DOMAIN f : f[k] \in Value(k)
  BY DEF Files
<1>2. \A k \in S!Keys : S!Defaults[k] \in Value(k)
  BY DefaultsComplete DEF Complete
<1> QED
  BY <1>1, <1>2, KeyFacts DEF S!Completed, Complete

LEMMA CompleteFiles ==
  ASSUME NEW s \in Complete
  PROVE  s \in Files /\ DOMAIN s = S!Keys /\ S!Completed(s) = s
BY DEF Complete, Files, S!Completed

LEMMA FileWithKey ==
  ASSUME NEW f \in Files, NEW k \in S!Keys, NEW v \in Value(k)
  PROVE  /\ S!WithKey(f, k, v) \in Files
         /\ S!Completed(S!WithKey(f, k, v)) = [S!Completed(f) EXCEPT ![k] = v]
<1> PICK g : g = S!WithKey(f, k, v)
  OBVIOUS
<1>1. /\ g = [label \in DOMAIN f \cup {k} |-> IF label = k THEN v ELSE f[label]]
      /\ DOMAIN g = DOMAIN f \cup {k} /\ g[k] = v
      /\ \A label \in DOMAIN f \ {k} : g[label] = f[label]
  BY DEF S!WithKey
<1>2. DOMAIN f \subseteq S!Keys /\ \A label \in DOMAIN f : f[label] \in Value(label)
  BY DEF Files
<1>3. g \in Files
  <2>1. \A label \in DOMAIN g : g[label] \in Value(label) /\ g[label] \in AnyValue
    BY <1>1, <1>2, KeyFacts
  <2>2. g \in [DOMAIN g -> AnyValue] /\ DOMAIN g \in SUBSET S!Keys
    BY <1>1, <1>2, <2>1
  <2> QED
    BY <2>1, <2>2 DEF Files
<1>4. S!Completed(g) = [label \in S!Keys |-> IF label = k THEN v ELSE S!Completed(f)[label]]
  BY <1>1 DEF S!Completed
<1>5. [S!Completed(f) EXCEPT ![k] = v] = [label \in S!Keys |-> IF label = k THEN v ELSE S!Completed(f)[label]]
  BY DEF S!Completed
<1> QED
  BY <1>3, <1>4, <1>5

LEMMA VendorIdsFact == S!VendorIds \in Nat /\ S!VendorIds > 0
BY DEF S!VendorIds

LEMMA MembersAre ==
  ASSUME NEW s, s = [k \in S!Keys |-> s[k]]
  PROVE  S!Members(s) = [k \in S!Keys |-> IF k = "cecVendorId" THEN s[k] % S!VendorIds ELSE s[k]]
<1>1. "cecVendorId" \in S!Keys /\ DOMAIN s = S!Keys
  BY KeyFacts
<1> QED
  BY <1>1 DEF S!Members

LEMMA MembersOf ==
  ASSUME NEW s \in Complete \cup MemberSet
  PROVE  /\ S!Members(s) \in MemberSet
         /\ \A k \in S!Keys : S!Members(s)[k] = IF k = "cecVendorId" THEN s[k] % S!VendorIds ELSE s[k]
<1> PICK m : m = S!Members(s)
  OBVIOUS
<1>1. "cecVendorId" \in S!Keys /\ DOMAIN s = S!Keys /\ s = [k \in S!Keys |-> s[k]]
  BY KeyFacts DEF Complete, MemberSet
<1>2. s["cecVendorId"] \in Nat
  BY <1>1, KeyFacts, VendorIdsFact DEF Complete, MemberSet
<1>3. s["cecVendorId"] % S!VendorIds \in 0 .. S!VendorIds - 1
  BY <1>2, VendorIdsFact
<1>4. \A k \in S!Keys \ {"cecVendorId"} : s[k] \in Value(k)
  BY DEF Complete, MemberSet
<1>5. m = [k \in S!Keys |-> IF k = "cecVendorId" THEN s[k] % S!VendorIds ELSE s[k]]
  BY <1>1, MembersAre
<1>6. m["cecVendorId"] \in 0 .. S!VendorIds - 1
  BY <1>1, <1>3, <1>5
<1>7. \A k \in S!Keys \ {"cecVendorId"} : m[k] \in Value(k) /\ m[k] \in AnyValue
  BY <1>4, <1>5, KeyFacts
<1>8. m \in [S!Keys -> AnyValue \cup 0 .. S!VendorIds - 1]
  BY <1>5, <1>6, <1>7
<1>9. m \in MemberSet
  BY <1>6, <1>7, <1>8 DEF MemberSet
<1> QED
  BY <1>5, <1>9

LEMMA SameMembers ==
  ASSUME NEW f \in Complete \cup MemberSet, NEW g \in Complete \cup MemberSet
  PROVE  S!Members(f) = S!Members(g) <=>
           \A k \in S!Keys : (IF k = "cecVendorId" THEN f[k] % S!VendorIds ELSE f[k])
                             = (IF k = "cecVendorId" THEN g[k] % S!VendorIds ELSE g[k])
<1> PICK a, b : a = S!Members(f) /\ b = S!Members(g)
  OBVIOUS
<1>1. a = [k \in S!Keys |-> a[k]] /\ b = [k \in S!Keys |-> b[k]]
  BY MembersOf DEF MemberSet
<1>2. a = b <=> \A k \in S!Keys : a[k] = b[k]
  BY <1>1
<1>3. \A k \in S!Keys : a[k] = IF k = "cecVendorId" THEN f[k] % S!VendorIds ELSE f[k]
  BY MembersOf
<1>4. \A k \in S!Keys : b[k] = IF k = "cecVendorId" THEN g[k] % S!VendorIds ELSE g[k]
  BY MembersOf
<1> QED
  BY <1>2, <1>3, <1>4

\* A setting changed before or after the members are made of it.
LEMMA MembersChange ==
  ASSUME NEW f \in Complete \cup MemberSet, NEW g \in Complete \cup MemberSet,
         S!Members(f) = S!Members(g), NEW k \in S!Keys, NEW v \in Value(k)
  PROVE  S!Members([f EXCEPT ![k] = v]) = S!Members([g EXCEPT ![k] = v])
<1>0. PICK f2, g2 : f2 = [f EXCEPT ![k] = v] /\ g2 = [g EXCEPT ![k] = v]
  OBVIOUS
<1>1. DOMAIN f = S!Keys /\ DOMAIN g = S!Keys
  BY DEF Complete, MemberSet
<1>2. /\ DOMAIN f2 = S!Keys /\ DOMAIN g2 = S!Keys
      /\ \A l \in S!Keys : f2[l] = (IF l = k THEN v ELSE f[l]) /\ g2[l] = (IF l = k THEN v ELSE g[l])
  BY <1>0, <1>1
<1>3. \A l \in S!Keys : (IF l = "cecVendorId" THEN f[l] % S!VendorIds ELSE f[l])
                        = (IF l = "cecVendorId" THEN g[l] % S!VendorIds ELSE g[l])
  BY SameMembers
<1>4. /\ S!Members(f2) = [l \in S!Keys |-> IF l = "cecVendorId" THEN f2[l] % S!VendorIds ELSE f2[l]]
      /\ S!Members(g2) = [l \in S!Keys |-> IF l = "cecVendorId" THEN g2[l] % S!VendorIds ELSE g2[l]]
  <2>1. f2 = [l \in S!Keys |-> f2[l]] /\ g2 = [l \in S!Keys |-> g2[l]]
    BY <1>0, <1>1
  <2>2. S!Members(f2) = [l \in S!Keys |-> IF l = "cecVendorId" THEN f2[l] % S!VendorIds ELSE f2[l]]
    BY <2>1, MembersAre
  <2>3. S!Members(g2) = [l \in S!Keys |-> IF l = "cecVendorId" THEN g2[l] % S!VendorIds ELSE g2[l]]
    BY <2>1, MembersAre
  <2> QED
    BY <2>2, <2>3
<1> QED
  BY <1>0, <1>2, <1>3, <1>4

\* A setter under way, or loadSettings writing (its setting is "none").
Settings == {<<"none", 0>>} \cup UNION {{<<k, v>> : v \in Value(k)} : k \in S!Keys}
Setters == [at : {"open", "read", "destroy", "create", "write", "written"},
          setting : Settings, file : Nat, content : Files]

CallOK(r, ph, files) ==
  r = S!NoCall \/ (/\ r \in Setters /\ ph # "down"
                   /\ r.file \in 0 .. files /\ (r.at = "read" => r.file # 0)
                   /\ (r.setting[1] = "none" <=> ph = "loading")
                   /\ (ph = "loading" => r.at \in {"destroy", "create", "write"}))

Sole(calling) ==
  \A c, d \in Callers : calling[c] # S!NoCall /\ calling[d] # S!NoCall => c = d
Lone(c, calling) == \A d \in Callers \ {c} : calling[d] = S!NoCall

StoreTypes ==
  /\ disk \in Seq(Files) /\ path \in 0 .. Len(disk)
  /\ member \in MemberSet /\ may \subseteq Complete

SetterTypes ==
  /\ phase \in {"down", "loading", "up"} /\ DOMAIN setter = Callers
  /\ \A c \in Callers : CallOK(setter[c], phase, Len(disk))
  /\ phase = "loading" => Sole(setter)

\* What a call leaves at each of its steps, when the members and the file were s before.
Going(r, s, m, p, d) ==
  /\ r.at \in {"open", "read", "destroy"} => p # 0 /\ Means(d[p]) = S!Members(s)
  /\ r.at = "read" => r.file = p
  /\ r.at \in {"destroy", "create", "write"} => Means(r.content) = S!Members(Changed(s, r.setting))
  /\ r.at = "create" => p = 0
  /\ r.at = "write" => p # 0 /\ r.file = p /\ d[p] = S!Blank
  /\ r.at = "written" => p # 0 /\ Means(d[p]) = S!Members(Changed(s, r.setting))
  /\ m = S!Members(IF S!PersistFirst(r.setting[1]) THEN s ELSE Changed(s, r.setting))

\* The file a start would find.
Found(p, d) == IF p = 0 THEN S!Blank ELSE d[p]

KeptFor(s, ph, calling, m, p, d) ==
  IF ph = "down" THEN Means(Found(p, d)) = S!Members(s)
  ELSE IF \A c \in Callers : calling[c] = S!NoCall
       THEN p # 0 /\ Means(d[p]) = S!Members(s) /\ m = S!Members(s)
       ELSE \A c \in Callers : calling[c] # S!NoCall => Going(calling[c], s, m, p, d)

Kept ==
  ~overlapped => /\ Sole(setter)
                 /\ \E s \in may : KeptFor(s, phase, setter, member, path, disk)

SettingsInv == StoreTypes /\ SetterTypes /\ Kept

LEMMA AskedValues ==
  ASSUME NEW k \in S!Keys
  PROVE  S!Asked(k) \subseteq Value(k)
<1>1. CASE k = "cecVendorId"
  <2>1. S!Asked(k) = {IF t = Invalid THEN S!DefaultVendorId ELSE t : t \in VendorTexts \cup {Invalid}}
    BY <1>1 DEF S!Asked
  <2>2. Value(k) = VendorTexts \cup {S!DefaultVendorId}
    BY <1>1 DEF Value
  <2> QED
    BY <2>1, <2>2
<1>2. CASE k = "cecOSDName"
  BY <1>2 DEF S!Asked, Value
<1>3. CASE k \notin {"cecVendorId", "cecOSDName"}
  BY <1>3 DEF S!Asked, Value
<1> QED
  BY <1>1, <1>2, <1>3

LEMMA SettingIs ==
  ASSUME NEW x \in Settings
  PROVE  /\ x[1] = "none" \/ (x[1] \in S!Keys /\ x[2] \in Value(x[1]))
         /\ x = <<x[1], x[2]>>
BY DEF Settings

LEMMA DefaultFileIs ==
  /\ S!DefaultFile \in Files /\ S!Completed(S!DefaultFile) = S!Defaults
<1> PICK K : K = IF plugin = "sink" THEN S!Keys \ {"cecOTPEnabled"} ELSE S!Keys
  OBVIOUS
<1>1. K \subseteq S!Keys
  OBVIOUS
<1> PICK f : f = [k \in K |-> S!Defaults[k]]
  OBVIOUS
<1>2. S!DefaultFile = f
  BY DEF S!DefaultFile
<1>3. \A k \in S!Keys : S!Defaults[k] \in Value(k)
  BY DefaultsComplete DEF Complete
<1>4. f \in Files
  BY <1>1, <1>3, KeyFacts DEF Files
<1>5. S!Completed(f) = [k \in S!Keys |-> S!Defaults[k]]
  BY <1>1 DEF S!Completed
<1>6. S!Defaults = [k \in S!Keys |-> S!Defaults[k]]
  BY DefaultsComplete DEF Complete
<1> QED
  BY <1>2, <1>4, <1>5, <1>6

\* The members made of the members are the same.
LEMMA MembersAgain ==
  ASSUME NEW s \in Complete
  PROVE  S!Members(S!Members(s)) = S!Members(s)
<1> PICK m : m = S!Members(s)
  OBVIOUS
<1>1. m \in MemberSet /\ m["cecVendorId"] \in 0 .. S!VendorIds - 1 /\ m = [k \in S!Keys |-> m[k]]
  BY MembersOf DEF MemberSet
<1>2. m["cecVendorId"] % S!VendorIds = m["cecVendorId"]
  BY <1>1, VendorIdsFact
<1>3. S!Members(m) = [k \in S!Keys |-> IF k = "cecVendorId" THEN m[k] % S!VendorIds ELSE m[k]]
  BY <1>1, MembersAre
<1> QED
  BY <1>1, <1>2, <1>3

\* A setting the setters persist first is changed in the members as in the file.
LEMMA MembersKeep ==
  ASSUME NEW s \in Complete, NEW k \in S!Keys, S!PersistFirst(k), NEW v \in Value(k)
  PROVE  [S!Members(s) EXCEPT ![k] = v] = S!Members([s EXCEPT ![k] = v])
<1>0. PICK s2 : s2 = [s EXCEPT ![k] = v]
  OBVIOUS
<1>1. DOMAIN s = S!Keys /\ k # "cecVendorId"
  BY KeyFacts DEF Complete
<1>2. s2 = [l \in S!Keys |-> s2[l]] /\ \A l \in S!Keys : s2[l] = IF l = k THEN v ELSE s[l]
  BY <1>0, <1>1
<1>3. S!Members(s2) = [l \in S!Keys |-> IF l = "cecVendorId" THEN s2[l] % S!VendorIds ELSE s2[l]]
  BY <1>2, MembersAre
<1>4. S!Members(s) = [l \in S!Keys |-> IF l = "cecVendorId" THEN s[l] % S!VendorIds ELSE s[l]]
  <2>1. s = [l \in S!Keys |-> s[l]]
    BY DEF Complete
  <2> QED
    BY <2>1, MembersAre
<1>5. [S!Members(s) EXCEPT ![k] = v] =
        [l \in S!Keys |-> IF l = k THEN v ELSE IF l = "cecVendorId" THEN s[l] % S!VendorIds ELSE s[l]]
  BY <1>4
<1>6. S!Members(s2) = [l \in S!Keys |-> IF l = k THEN v ELSE IF l = "cecVendorId" THEN s[l] % S!VendorIds ELSE s[l]]
  BY <1>1, <1>2, <1>3
<1> QED
  BY <1>0, <1>5, <1>6

LEMMA ChangedComplete ==
  ASSUME NEW s \in Complete, NEW k \in S!Keys, NEW v \in Value(k)
  PROVE  [s EXCEPT ![k] = v] \in Complete
BY KeyFacts DEF Complete

\* A call that goes on or returns: the call statuses stay right.
LEMMA CallGoesOn ==
  ASSUME SetterTypes, NEW c \in Callers, NEW n, setter' = [setter EXCEPT ![c] = n],
         disk \in Seq(Files), disk' \in Seq(Files), Len(disk') >= Len(disk),
         CallOK(n, phase', Len(disk')), phase' \in {"down", "loading", "up"},
         phase' = phase \/ Lone(c, setter), phase' = "loading" => Lone(c, setter)
  PROVE  /\ SetterTypes' /\ setter'[c] = n /\ (Lone(c, setter) => Lone(c, setter'))
         /\ \A d \in Callers \ {c} : setter'[d] = setter[d]
<1>1. /\ DOMAIN setter' = Callers /\ setter'[c] = n
      /\ \A d \in Callers \ {c} : setter'[d] = setter[d]
  BY DEF SetterTypes
<1>2. \A d \in Callers \ {c} : CallOK(setter'[d], phase', Len(disk'))
  <2>1. SUFFICES ASSUME NEW d \in Callers \ {c}
                 PROVE  CallOK(setter'[d], phase', Len(disk'))
    OBVIOUS
  <2>2. CASE setter[d] = S!NoCall
    BY <1>1, <2>2 DEF CallOK
  <2>3. CASE setter[d] # S!NoCall
    <3>1. phase' = phase
      BY <2>3 DEF Lone
    <3>2. CallOK(setter[d], phase, Len(disk))
      BY DEF SetterTypes
    <3>3. Len(disk) \in Nat /\ Len(disk') \in Nat
      OBVIOUS
    <3> QED
      BY <1>1, <3>1, <3>2, <3>3 DEF CallOK
  <2> QED
    BY <2>2, <2>3
<1>3. phase' = "loading" => Sole(setter')
  BY <1>1 DEF Sole, Lone
<1> QED
  BY <1>1, <1>2, <1>3 DEF SetterTypes, Lone

\* A call is a record with a setting of its own key.
LEMMA CallIs ==
  ASSUME NEW c \in Callers, NEW n \in Nat, NEW ph, NEW r, CallOK(r, ph, n), r # S!NoCall
  PROVE  /\ r \in Setters /\ r.setting \in Settings /\ r.file \in 0 .. n /\ r.content \in Files
         /\ r.at \in {"open", "read", "destroy", "create", "write", "written"}
         /\ (r.setting[1] = "none" <=> ph = "loading")
         /\ (ph = "loading" => r.at \in {"destroy", "create", "write"})
         /\ (r.at = "read" => r.file # 0) /\ ph # "down"
BY DEF CallOK, Setters

LEMMA NoCallIs == S!NoCall \notin Setters /\ S!NoCall.at = "idle"
BY DEF S!NoCall, Setters

\* While a loading, or a lone setter, is under way it is the only one.
LEMMA KeptByCall ==
  ASSUME NEW calling, NEW c \in Callers, NEW ph, ph # "down", calling[c] # S!NoCall,
         Lone(c, calling), NEW s, NEW m, NEW p, NEW d
  PROVE  /\ KeptFor(s, ph, calling, m, p, d) <=> Going(calling[c], s, m, p, d)
         /\ Sole(calling)
BY DEF KeptFor, Lone, Sole

LEMMA KeptAtRest ==
  ASSUME NEW calling, \A c \in Callers : calling[c] = S!NoCall, NEW ph, ph # "down",
         NEW s, NEW m, NEW p, NEW d
  PROVE  /\ KeptFor(s, ph, calling, m, p, d) <=>
              p # 0 /\ Means(d[p]) = S!Members(s) /\ m = S!Members(s)
         /\ Sole(calling)
BY DEF KeptFor, Sole

\* The write of a file, a new file, and the file of that name emptied.
LEMMA DiskWith ==
  ASSUME NEW d \in Seq(Files), NEW f \in Files, NEW i \in 0 .. Len(d)
  PROVE  /\ [d EXCEPT ![i] = f] \in Seq(Files) /\ Len([d EXCEPT ![i] = f]) = Len(d)
         /\ i # 0 => [d EXCEPT ![i] = f][i] = f
         /\ Append(d, f) \in Seq(Files) /\ Len(Append(d, f)) = Len(d) + 1
         /\ Append(d, f)[Len(d) + 1] = f
<1>1. d = [j \in 1 .. Len(d) |-> d[j]] /\ \A j \in 1 .. Len(d) : d[j] \in Files
  OBVIOUS
<1>2. [d EXCEPT ![i] = f] = [j \in 1 .. Len(d) |-> IF j = i THEN f ELSE d[j]]
  BY <1>1
<1>3. Len(d) \in Nat
  OBVIOUS
<1>4. [d EXCEPT ![i] = f] \in [1 .. Len(d) -> Files]
  BY <1>1, <1>2
<1>5. [d EXCEPT ![i] = f] \in Seq(Files) /\ Len([d EXCEPT ![i] = f]) = Len(d)
  BY <1>2, <1>3, <1>4
<1>6. i # 0 => [d EXCEPT ![i] = f][i] = f
  BY <1>1, <1>3
<1>7. /\ Append(d, f) \in Seq(Files) /\ Len(Append(d, f)) = Len(d) + 1
      /\ Append(d, f)[Len(d) + 1] = f
  OBVIOUS
<1> QED
  BY <1>5, <1>6, <1>7

LEMMA CreateIs ==
  ASSUME StoreTypes, NEW c \in Callers, NEW next, S!Create(c, next)
  PROVE  /\ disk' \in Seq(Files) /\ path' \in 1 .. Len(disk') /\ Len(disk') >= Len(disk)
         /\ disk'[path'] = S!Blank
         /\ setter' = [setter EXCEPT ![c] = [setter[c] EXCEPT !.at = next, !.file = path']]
<1>1. setter' = [setter EXCEPT ![c] = [setter[c] EXCEPT !.at = next, !.file = path']]
  BY DEF S!Create, S!GoesTo
<1>2. CASE path = 0
  <2>1. disk' = Append(disk, S!Blank) /\ path' = Len(disk) + 1
    BY <1>2 DEF S!Create
  <2>2. Len(disk) \in Nat
    BY DEF StoreTypes
  <2> QED
    BY <1>1, <1>2, <2>1, <2>2, DiskWith, BlankFile DEF StoreTypes
<1>3. CASE path # 0
  <2>1. disk' = [disk EXCEPT ![path] = S!Blank] /\ path' = path
    BY <1>3 DEF S!Create
  <2>2. Len(disk) \in Nat
    BY DEF StoreTypes
  <2> QED
    BY <1>1, <1>3, <2>1, <2>2, DiskWith, BlankFile DEF StoreTypes
<1> QED
  BY <1>2, <1>3

\* A lone call that is under way has found what was kept before it.
LEMMA CallFound ==
  ASSUME SettingsInv, ~overlapped, NEW c \in Callers, setter[c] # S!NoCall
  PROVE  /\ Lone(c, setter) /\ phase # "down"
         /\ \E s \in may : s \in Complete /\ Going(setter[c], s, member, path, disk)
<1>1. CallOK(setter[c], phase, Len(disk)) /\ may \subseteq Complete
  BY DEF SettingsInv, SetterTypes, StoreTypes
<1>2. phase # "down"
  BY <1>1 DEF CallOK
<1>3. Sole(setter)
  BY DEF SettingsInv, Kept
<1>4. Lone(c, setter)
  BY <1>3 DEF Lone, Sole
<1>5. PICK s \in may : KeptFor(s, phase, setter, member, path, disk)
  BY DEF SettingsInv, Kept
<1>6. Going(setter[c], s, member, path, disk)
  BY <1>2, <1>4, <1>5, KeptByCall
<1> QED
  BY <1>1, <1>2, <1>4, <1>6

\* A call that goes on keeps what it has found.
LEMMA CallKeeps ==
  ASSUME SettingsInv, NEW c \in Callers, setter[c] # S!NoCall, setter'[c] # S!NoCall,
         Lone(c, setter) => Lone(c, setter'), phase' # "down", overlapped' <=> overlapped,
         may' = may,
         \A s \in Complete : Going(setter[c], s, member, path, disk)
                               => Going(setter'[c], s, member', path', disk')
  PROVE  Kept'
<1>1. SUFFICES ASSUME ~overlapped'
               PROVE  Sole(setter') /\ \E s \in may' : KeptFor(s, phase', setter', member', path', disk')
  BY DEF Kept
<1>2. ~overlapped
  BY <1>1
<1>3. /\ Lone(c, setter)
      /\ \E s \in may : s \in Complete /\ Going(setter[c], s, member, path, disk)
  BY <1>2, CallFound
<1>4. PICK s \in may : s \in Complete /\ Going(setter'[c], s, member', path', disk')
  BY <1>3
<1>5. Lone(c, setter')
  BY <1>3
<1>6. KeptFor(s, phase', setter', member', path', disk') /\ Sole(setter')
  BY <1>4, <1>5, KeptByCall
<1> QED
  BY <1>6

\* A call that goes to its next step.
Becomes(r, n, at, file, content) ==
  /\ n \in Setters /\ n.at = at /\ n.setting = r.setting
  /\ n.file = file /\ n.content = content

Ats == {"open", "read", "destroy", "create", "write", "written"}

LEMMA NextWithFile ==
  ASSUME NEW r \in Setters, NEW at \in Ats, NEW file \in Nat,
         NEW n, n = [r EXCEPT !.at = at, !.file = file]
  PROVE  Becomes(r, n, at, file, r.content)
<1>1. n \in Setters
  BY DEF Setters, Ats
<1>2. n.at = at /\ n.file = file /\ n.setting = r.setting /\ n.content = r.content
  BY DEF Setters, Ats
<1> QED
  BY <1>1, <1>2 DEF Becomes

LEMMA NextWithContent ==
  ASSUME NEW r \in Setters, NEW at \in Ats, NEW content \in Files,
         NEW n, n = [r EXCEPT !.at = at, !.content = content]
  PROVE  Becomes(r, n, at, r.file, content)
<1>1. n \in Setters
  BY DEF Setters, Ats
<1>2. n.at = at /\ n.file = r.file /\ n.setting = r.setting /\ n.content = content
  BY DEF Setters, Ats
<1> QED
  BY <1>1, <1>2 DEF Becomes

LEMMA NextStep ==
  ASSUME NEW r \in Setters, NEW at \in Ats, NEW n, n = [r EXCEPT !.at = at]
  PROVE  Becomes(r, n, at, r.file, r.content)
<1>1. n \in Setters
  BY DEF Setters, Ats
<1>2. n.at = at /\ n.file = r.file /\ n.setting = r.setting /\ n.content = r.content
  BY DEF Setters, Ats
<1> QED
  BY <1>1, <1>2 DEF Becomes

LEMMA StepOpen ==
  ASSUME SettingsInv, NEW c \in Callers, S!Open(c), overlapped' <=> overlapped
  PROVE  SettingsInv'
<1> PICK r : r = setter[c]
  OBVIOUS
<1>1. /\ r.at = "open" /\ phase' = phase /\ member' = member /\ may' = may
      /\ StoreTypes /\ SetterTypes
  BY DEF S!Open, SettingsInv
<1>2. r # S!NoCall /\ CallOK(r, phase, Len(disk)) /\ Len(disk) \in Nat /\ path \in Nat
  BY <1>1, NoCallIs DEF SetterTypes, StoreTypes
<1>3. r \in Setters /\ phase # "loading" /\ phase # "down" /\ (r.setting[1] = "none" <=> phase = "loading")
  BY <1>1, <1>2, CallIs
<1>4. /\ disk' \in Seq(Files) /\ path' \in 1 .. Len(disk') /\ Len(disk') >= Len(disk)
      /\ setter' = [setter EXCEPT ![c] = [r EXCEPT !.at = "read", !.file = path']]
      /\ path # 0 => path' = path /\ disk' = disk
  <2>1. CASE path = 0
    <3>1. S!Create(c, "read")
      BY <2>1 DEF S!Open
    <3> QED
      BY <1>1, <2>1, <3>1, CreateIs
  <2>2. CASE path # 0
    <3>1. /\ path' = path /\ disk' = disk
          /\ setter' = [setter EXCEPT ![c] = [setter[c] EXCEPT !.at = "read", !.file = path]]
      BY <2>2 DEF S!Open, S!GoesTo
    <3> QED
      BY <1>1, <1>2, <2>2, <3>1 DEF StoreTypes
  <2> QED
    BY <2>1, <2>2
<1>5. PICK n : n = [r EXCEPT !.at = "read", !.file = path']
  OBVIOUS
<1>6. n \in Setters /\ n.at = "read" /\ n.file = path' /\ n.setting = r.setting
  <2>1. path' \in Nat /\ "read" \in Ats
    BY <1>4 DEF Ats
  <2>2. Becomes(r, n, "read", path', r.content)
    BY <1>3, <1>5, <2>1, NextWithFile
  <2> QED
    BY <2>2 DEF Becomes
<1>7. n # S!NoCall /\ CallOK(n, phase, Len(disk'))
  BY <1>3, <1>4, <1>6, NoCallIs DEF CallOK
<1>8. setter' = [setter EXCEPT ![c] = n]
  BY <1>4, <1>5
<1>9. SetterTypes' /\ setter'[c] = n /\ (Lone(c, setter) => Lone(c, setter'))
  <2>1. disk \in Seq(Files) /\ phase \in {"down", "loading", "up"}
    BY <1>1 DEF StoreTypes, SetterTypes
  <2>2. /\ disk' \in Seq(Files) /\ Len(disk') >= Len(disk)
        /\ phase' = phase
    BY <1>1, <1>4
  <2>3. CallOK(n, phase', Len(disk'))
    BY <1>7, <2>2
  <2>4. SetterTypes
    BY <1>1
  <2> QED
    BY <1>3, <1>8, <2>1, <2>2, <2>3, <2>4, CallGoesOn
<1>10. StoreTypes'
  BY <1>1, <1>4 DEF StoreTypes
<1>11. ASSUME NEW s, Going(r, s, member, path, disk)
       PROVE  Going(n, s, member', path', disk')
  BY <1>1, <1>4, <1>6, <1>11 DEF Going
<1>12. Kept'
  BY <1>1, <1>2, <1>3, <1>7, <1>9, <1>11, CallKeeps
<1> QED
  BY <1>9, <1>10, <1>12 DEF SettingsInv

\* The file's values with one changed mean the settings with it changed.
LEMMA ContentChanges ==
  ASSUME NEW f \in Files, NEW s \in Complete, Means(f) = S!Members(s),
         NEW k \in S!Keys, NEW v \in Value(k)
  PROVE  Means(S!WithKey(f, k, v)) = S!Members([s EXCEPT ![k] = v])
<1>1. S!Completed(f) \in Complete /\ S!Members(S!Completed(f)) = S!Members(s)
  BY CompletedFiles DEF Means
<1>2. S!Members([S!Completed(f) EXCEPT ![k] = v]) = S!Members([s EXCEPT ![k] = v])
  BY <1>1, MembersChange
<1> QED
  BY <1>2, FileWithKey DEF Means

\* What holds of the call that takes a step.
LEMMA CallSteps ==
  ASSUME SettingsInv, NEW c \in Callers, setter[c].at # "idle"
  PROVE  /\ setter[c] # S!NoCall /\ setter[c] \in Setters /\ setter[c].setting \in Settings
         /\ setter[c].content \in Files /\ setter[c].file \in 0 .. Len(disk)
         /\ (setter[c].at = "read" => setter[c].file # 0)
         /\ (setter[c].setting[1] = "none" <=> phase = "loading")
         /\ (phase = "loading" => setter[c].at \in {"destroy", "create", "write"} /\ Lone(c, setter))
         /\ phase \in {"loading", "up"} /\ Len(disk) \in Nat
         /\ disk \in Seq(Files) /\ path \in 0 .. Len(disk) /\ StoreTypes /\ SetterTypes
<1>1. /\ CallOK(setter[c], phase, Len(disk)) /\ phase \in {"down", "loading", "up"}
      /\ disk \in Seq(Files) /\ path \in 0 .. Len(disk) /\ StoreTypes /\ SetterTypes
      /\ (phase = "loading" => Sole(setter))
  BY DEF SettingsInv, StoreTypes, SetterTypes
<1>2. setter[c] # S!NoCall /\ Len(disk) \in Nat
  BY <1>1, NoCallIs
<1>3. phase = "loading" => Lone(c, setter)
  BY <1>1, <1>2 DEF Lone, Sole
<1> QED
  BY <1>1, <1>2, <1>3, CallIs

LEMMA StepFromFile ==
  ASSUME SettingsInv, NEW c \in Callers, S!FromFile(c), overlapped' <=> overlapped
  PROVE  SettingsInv'
<1> PICK r : r = setter[c]
  OBVIOUS
<1>1. /\ r.at = "read" /\ phase' = phase /\ member' = member /\ may' = may
      /\ path' = path /\ disk' = disk
  BY DEF S!FromFile
<1>2. /\ r # S!NoCall /\ r \in Setters /\ r.setting \in Settings /\ r.file \in 0 .. Len(disk) /\ r.file # 0
      /\ r.setting[1] # "none" /\ phase = "up" /\ StoreTypes /\ SetterTypes
      /\ disk \in Seq(Files) /\ Len(disk) \in Nat
  BY <1>1, CallSteps
<1>3. PICK k, v : k \in S!Keys /\ v \in Value(k) /\ k = r.setting[1] /\ v = r.setting[2]
  BY <1>2, SettingIs
<1>4. PICK g : g = S!WithKey(disk[r.file], k, v)
  OBVIOUS
<1>5. disk[r.file] \in Files /\ g \in Files
  <2>1. disk[r.file] \in Files
    BY <1>2
  <2> QED
    BY <1>3, <1>4, <2>1, FileWithKey
<1>6. PICK n : n = [r EXCEPT !.at = "destroy", !.content = g]
  OBVIOUS
<1>7. Becomes(r, n, "destroy", r.file, g)
  BY <1>2, <1>5, <1>6, NextWithContent DEF Ats
<1>8. setter' = [setter EXCEPT ![c] = n]
  BY <1>3, <1>4, <1>6 DEF S!FromFile, S!GoesTo
<1>9. n # S!NoCall /\ CallOK(n, phase', Len(disk'))
  BY <1>1, <1>2, <1>7, NoCallIs DEF CallOK, Becomes
<1>10. SetterTypes' /\ setter'[c] = n /\ (Lone(c, setter) => Lone(c, setter'))
  <2>1. /\ disk' \in Seq(Files) /\ Len(disk') >= Len(disk)
        /\ phase' \in {"down", "loading", "up"} /\ (phase' = "loading" => Lone(c, setter))
    BY <1>1, <1>2
  <2> QED
    BY <1>1, <1>2, <1>8, <1>9, <2>1, CallGoesOn
<1>11. StoreTypes'
  BY <1>1, <1>2 DEF StoreTypes
<1>12. ASSUME NEW s \in Complete, Going(r, s, member, path, disk)
       PROVE  Going(n, s, member', path', disk')
  <2>1. path # 0 /\ r.file = path /\ Means(disk[path]) = S!Members(s)
        /\ member = S!Members(IF S!PersistFirst(r.setting[1]) THEN s ELSE Changed(s, r.setting))
    BY <1>1, <1>12 DEF Going
  <2>2. Means(g) = S!Members([s EXCEPT ![k] = v])
    BY <1>3, <1>4, <1>5, <2>1, ContentChanges
  <2>3. Changed(s, r.setting) = [s EXCEPT ![k] = v]
    BY <1>2, <1>3 DEF Changed
  <2> QED
    BY <1>1, <1>7, <2>1, <2>2, <2>3 DEF Going, Becomes
<1>13. Kept'
  BY <1>1, <1>2, <1>9, <1>10, <1>12, CallKeeps
<1> QED
  BY <1>10, <1>11, <1>13 DEF SettingsInv

LEMMA StepDestroy ==
  ASSUME SettingsInv, NEW c \in Callers, S!Destroy(c), overlapped' <=> overlapped
  PROVE  SettingsInv'
<1> PICK r : r = setter[c]
  OBVIOUS
<1>1. /\ r.at = "destroy" /\ phase' = phase /\ member' = member /\ may' = may
      /\ path' = 0 /\ disk' = disk
  BY DEF S!Destroy
<1>2. /\ r # S!NoCall /\ r \in Setters /\ r.file \in 0 .. Len(disk)
      /\ (r.setting[1] = "none" <=> phase = "loading") /\ phase \in {"loading", "up"}
      /\ (phase = "loading" => Lone(c, setter)) /\ StoreTypes /\ SetterTypes
      /\ disk \in Seq(Files) /\ Len(disk) \in Nat
  BY <1>1, CallSteps
<1>3. PICK n : n = [r EXCEPT !.at = "create"]
  OBVIOUS
<1>4. Becomes(r, n, "create", r.file, r.content)
  BY <1>2, <1>3, NextStep DEF Ats
<1>5. setter' = [setter EXCEPT ![c] = n]
  BY <1>3 DEF S!Destroy, S!GoesTo
<1>6. n # S!NoCall /\ CallOK(n, phase', Len(disk'))
  BY <1>1, <1>2, <1>4, NoCallIs DEF CallOK, Becomes
<1>7. SetterTypes' /\ setter'[c] = n /\ (Lone(c, setter) => Lone(c, setter'))
  <2>1. /\ disk' \in Seq(Files) /\ Len(disk') >= Len(disk)
        /\ phase' \in {"down", "loading", "up"} /\ (phase' = "loading" => Lone(c, setter))
    BY <1>1, <1>2
  <2> QED
    BY <1>1, <1>2, <1>5, <1>6, <2>1, CallGoesOn
<1>8. StoreTypes'
  BY <1>1, <1>2 DEF StoreTypes
<1>9. ASSUME NEW s \in Complete, Going(r, s, member, path, disk)
      PROVE  Going(n, s, member', path', disk')
  BY <1>1, <1>4, <1>9 DEF Going, Becomes
<1>10. Kept'
  BY <1>1, <1>2, <1>6, <1>7, <1>9, CallKeeps
<1> QED
  BY <1>7, <1>8, <1>10 DEF SettingsInv

LEMMA StepRecreate ==
  ASSUME SettingsInv, NEW c \in Callers, S!Recreate(c), overlapped' <=> overlapped
  PROVE  SettingsInv'
<1> PICK r : r = setter[c]
  OBVIOUS
<1>1. /\ r.at = "create" /\ phase' = phase /\ member' = member /\ may' = may
      /\ S!Create(c, "write")
  BY DEF S!Recreate
<1>2. /\ r # S!NoCall /\ r \in Setters /\ r.file \in 0 .. Len(disk)
      /\ (r.setting[1] = "none" <=> phase = "loading") /\ phase \in {"loading", "up"}
      /\ (phase = "loading" => Lone(c, setter)) /\ StoreTypes /\ SetterTypes
      /\ disk \in Seq(Files) /\ Len(disk) \in Nat
  BY <1>1, CallSteps
<1>3. /\ disk' \in Seq(Files) /\ path' \in 1 .. Len(disk') /\ Len(disk') >= Len(disk)
      /\ disk'[path'] = S!Blank
      /\ setter' = [setter EXCEPT ![c] = [r EXCEPT !.at = "write", !.file = path']]
  BY <1>1, <1>2, CreateIs
<1>4. PICK n : n = [r EXCEPT !.at = "write", !.file = path']
  OBVIOUS
<1>5. path' \in Nat /\ path' # 0 /\ Len(disk') \in Nat
  BY <1>3
<1>6. Becomes(r, n, "write", path', r.content)
  BY <1>2, <1>4, <1>5, NextWithFile DEF Ats
<1>7. n # S!NoCall /\ CallOK(n, phase', Len(disk'))
  BY <1>1, <1>2, <1>3, <1>6, NoCallIs DEF CallOK, Becomes
<1>8. SetterTypes' /\ setter'[c] = n /\ (Lone(c, setter) => Lone(c, setter'))
  BY <1>1, <1>2, <1>3, <1>4, <1>7, CallGoesOn
<1>9. StoreTypes'
  BY <1>1, <1>2, <1>3 DEF StoreTypes
<1>10. ASSUME NEW s \in Complete, Going(r, s, member, path, disk)
       PROVE  Going(n, s, member', path', disk')
  BY <1>1, <1>3, <1>5, <1>6, <1>10 DEF Going, Becomes
<1>11. Kept'
  BY <1>1, <1>2, <1>7, <1>8, <1>10, CallKeeps
<1> QED
  BY <1>8, <1>9, <1>11 DEF SettingsInv

\* A lone call that ends leaves what was kept.
LEMMA CallEnds ==
  ASSUME SettingsInv, NEW c \in Callers, setter[c] # S!NoCall, setter'[c] = S!NoCall,
         Lone(c, setter) => Lone(c, setter'), phase' # "down", overlapped' <=> overlapped,
         \A s \in Complete : s \in may /\ Going(setter[c], s, member, path, disk)
           => \E new \in may' : /\ path' # 0 /\ Means(disk'[path']) = S!Members(new)
                                /\ member' = S!Members(new)
  PROVE  Kept'
<1>1. SUFFICES ASSUME ~overlapped'
               PROVE  Sole(setter') /\ \E s \in may' : KeptFor(s, phase', setter', member', path', disk')
  BY DEF Kept
<1>2. ~overlapped
  BY <1>1
<1>3. /\ Lone(c, setter)
      /\ \E s \in may : s \in Complete /\ Going(setter[c], s, member, path, disk)
  BY <1>2, CallFound
<1>4. PICK new \in may' : /\ path' # 0 /\ Means(disk'[path']) = S!Members(new)
                          /\ member' = S!Members(new)
  BY <1>3
<1>5. \A d \in Callers : setter'[d] = S!NoCall
  BY <1>3 DEF Lone
<1>6. KeptFor(new, phase', setter', member', path', disk') /\ Sole(setter')
  BY <1>4, <1>5, KeptAtRest
<1> QED
  BY <1>6

LEMMA StepToFile ==
  ASSUME SettingsInv, NEW c \in Callers, S!ToFile(c), overlapped' <=> overlapped
  PROVE  SettingsInv'
<1> PICK r : r = setter[c]
  OBVIOUS
<1>1. /\ r.at = "write" /\ member' = member /\ may' = may /\ path' = path
      /\ disk' = [disk EXCEPT ![r.file] = r.content]
  BY DEF S!ToFile
<1>2. /\ r # S!NoCall /\ r \in Setters /\ r.file \in 0 .. Len(disk) /\ r.content \in Files
      /\ r.setting \in Settings
      /\ (r.setting[1] = "none" <=> phase = "loading") /\ phase \in {"loading", "up"}
      /\ (phase = "loading" => Lone(c, setter)) /\ StoreTypes /\ SetterTypes
      /\ disk \in Seq(Files) /\ Len(disk) \in Nat
  BY <1>1, CallSteps
<1>3. disk' \in Seq(Files) /\ Len(disk') = Len(disk) /\ (r.file # 0 => disk'[r.file] = r.content)
  BY <1>1, <1>2, DiskWith
<1>4. StoreTypes'
  BY <1>1, <1>2, <1>3 DEF StoreTypes
<1>5. CASE phase = "loading"
  <2>1. setter' = [setter EXCEPT ![c] = S!NoCall] /\ phase' = "up"
    BY <1>5 DEF S!ToFile, S!GoesTo
  <2>2. CallOK(S!NoCall, phase', Len(disk')) /\ phase' \in {"down", "loading", "up"}
        /\ Len(disk') >= Len(disk) /\ phase' # "loading" /\ phase' # "down"
    BY <1>2, <1>3, <2>1 DEF CallOK
  <2>3. SetterTypes' /\ setter'[c] = S!NoCall /\ (Lone(c, setter) => Lone(c, setter'))
    BY <1>2, <1>3, <1>5, <2>1, <2>2, CallGoesOn
  <2>4. ASSUME NEW s \in Complete, s \in may /\ Going(r, s, member, path, disk)
        PROVE  \E new \in may' : /\ path' # 0 /\ Means(disk'[path']) = S!Members(new)
                                 /\ member' = S!Members(new)
    <3>1. /\ path # 0 /\ r.file = path /\ Means(r.content) = S!Members(Changed(s, r.setting))
          /\ member = S!Members(IF S!PersistFirst(r.setting[1]) THEN s ELSE Changed(s, r.setting))
      BY <1>1, <2>4 DEF Going
    <3>2. Changed(s, r.setting) = s
      BY <1>2, <1>5 DEF Changed
    <3>3. disk'[path'] = r.content /\ path' # 0
      BY <1>1, <1>3, <3>1
    <3> QED
      BY <1>1, <2>4, <3>1, <3>2, <3>3
  <2>5. Kept'
    BY <1>2, <2>2, <2>3, <2>4, CallEnds
  <2> QED
    BY <1>4, <2>3, <2>5 DEF SettingsInv
<1>6. CASE phase = "up"
  <2>1. PICK n : n = [r EXCEPT !.at = "written"]
    OBVIOUS
  <2>2. setter' = [setter EXCEPT ![c] = n] /\ phase' = phase
    BY <1>6, <2>1 DEF S!ToFile, S!GoesTo
  <2>3. Becomes(r, n, "written", r.file, r.content)
    BY <1>2, <2>1, NextStep DEF Ats
  <2>4. n # S!NoCall /\ CallOK(n, phase', Len(disk'))
    BY <1>2, <1>3, <1>6, <2>2, <2>3, NoCallIs DEF CallOK, Becomes
  <2>5. phase' \in {"down", "loading", "up"} /\ Len(disk') >= Len(disk)
        /\ phase' # "loading" /\ phase' # "down"
    BY <1>2, <1>3, <1>6, <2>2
  <2>6. SetterTypes' /\ setter'[c] = n /\ (Lone(c, setter) => Lone(c, setter'))
    BY <1>2, <1>3, <2>2, <2>4, <2>5, CallGoesOn
  <2>7. ASSUME NEW s \in Complete, Going(r, s, member, path, disk)
        PROVE  Going(n, s, member', path', disk')
    <3>1. /\ path # 0 /\ r.file = path /\ Means(r.content) = S!Members(Changed(s, r.setting))
          /\ member = S!Members(IF S!PersistFirst(r.setting[1]) THEN s ELSE Changed(s, r.setting))
      BY <1>1, <2>7 DEF Going
    <3>2. disk'[path'] = r.content /\ path' # 0
      BY <1>1, <1>3, <3>1
    <3> QED
      BY <1>1, <2>3, <3>1, <3>2 DEF Going, Becomes
  <2>8. Kept'
    BY <1>1, <1>2, <2>4, <2>5, <2>6, <2>7, CallKeeps
  <2> QED
    BY <1>4, <2>6, <2>8 DEF SettingsInv
<1> QED
  BY <1>2, <1>5, <1>6

LEMMA StepReturn ==
  ASSUME SettingsInv, NEW c \in Callers, S!Return(c), overlapped' <=> overlapped
  PROVE  SettingsInv'
<1> PICK r, k, v : r = setter[c] /\ k = r.setting[1] /\ v = r.setting[2]
  OBVIOUS
<1>1. /\ r.at = "written" /\ path' = path /\ disk' = disk /\ phase' = phase
      /\ member' = IF S!PersistFirst(k) THEN [member EXCEPT ![k] = v] ELSE member
      /\ may' = {[s EXCEPT ![k] = v] : s \in may}
      /\ setter' = [setter EXCEPT ![c] = S!NoCall]
  BY DEF S!Return, S!GoesTo
<1>2. /\ r # S!NoCall /\ r.setting \in Settings /\ r.setting[1] # "none" /\ phase = "up"
      /\ StoreTypes /\ SetterTypes /\ disk \in Seq(Files) /\ Len(disk) \in Nat
  BY <1>1, CallSteps
<1>3. k \in S!Keys /\ v \in Value(k)
  BY <1>2, SettingIs
<1>4. member' \in MemberSet
  <2>1. member \in MemberSet
    BY <1>2 DEF StoreTypes
  <2>2. CASE S!PersistFirst(k)
    <3>1. k # "cecVendorId" /\ member' = [member EXCEPT ![k] = v]
      BY <1>1, <1>3, <2>2, KeyFacts
    <3>2. PICK m : m = [member EXCEPT ![k] = v]
      OBVIOUS
    <3>3. m \in [S!Keys -> AnyValue \cup 0 .. S!VendorIds - 1]
      BY <1>3, <2>1, <3>2, KeyFacts DEF MemberSet
    <3>4. /\ m["cecVendorId"] = member["cecVendorId"]
          /\ \A l \in S!Keys \ {"cecVendorId"} : m[l] = IF l = k THEN v ELSE member[l]
      BY <2>1, <3>1, <3>2, KeyFacts DEF MemberSet
    <3> QED
      BY <1>3, <2>1, <3>1, <3>2, <3>3, <3>4 DEF MemberSet
  <2> QED
    BY <1>1, <2>1, <2>2
<1>5. may' \subseteq Complete
  BY <1>1, <1>2, <1>3, ChangedComplete DEF StoreTypes
<1>6. StoreTypes'
  BY <1>1, <1>2, <1>4, <1>5 DEF StoreTypes
<1>7. CallOK(S!NoCall, phase', Len(disk')) /\ phase' = "up" /\ Len(disk') >= Len(disk)
  BY <1>1, <1>2 DEF CallOK
<1>8. SetterTypes' /\ setter'[c] = S!NoCall /\ (Lone(c, setter) => Lone(c, setter'))
  BY <1>1, <1>2, <1>7, CallGoesOn
<1>9. ASSUME NEW s \in Complete, s \in may /\ Going(r, s, member, path, disk)
      PROVE  \E new \in may' : /\ path' # 0 /\ Means(disk'[path']) = S!Members(new)
                               /\ member' = S!Members(new)
  <2>0. PICK new : new = [s EXCEPT ![k] = v]
    OBVIOUS
  <2>1. Changed(s, r.setting) = new /\ new \in may'
    BY <1>1, <1>2, <1>9, <2>0 DEF Changed
  <2>2. /\ path # 0 /\ Means(disk[path]) = S!Members(new)
        /\ member = S!Members(IF S!PersistFirst(k) THEN s ELSE new)
    BY <1>1, <1>9, <2>1 DEF Going
  <2>3. member' = S!Members(new)
    <3>1. CASE S!PersistFirst(k)
      <4>1. [S!Members(s) EXCEPT ![k] = v] = S!Members([s EXCEPT ![k] = v])
        BY <1>3, <1>9, <3>1, MembersKeep
      <4> QED
        BY <1>1, <2>0, <2>2, <3>1, <4>1
    <3>2. CASE ~S!PersistFirst(k)
      BY <1>1, <2>2, <3>2
    <3> QED
      BY <3>1, <3>2
  <2> QED
    BY <1>1, <2>1, <2>2, <2>3
<1>10. Kept'
  BY <1>1, <1>2, <1>7, <1>8, <1>9, CallEnds
<1> QED
  BY <1>6, <1>8, <1>10 DEF SettingsInv

LEMMA ChangedMembers ==
  ASSUME NEW m \in MemberSet, NEW k \in S!Keys, NEW v \in Value(k)
  PROVE  S!Members([m EXCEPT ![k] = v]) \in MemberSet
<1>0. PICK n : n = [m EXCEPT ![k] = v]
  OBVIOUS
<1>1. DOMAIN m = S!Keys /\ "cecVendorId" \in S!Keys
  BY KeyFacts DEF MemberSet
<1>2. n = [l \in S!Keys |-> n[l]] /\ \A l \in S!Keys : n[l] = IF l = k THEN v ELSE m[l]
  BY <1>0, <1>1
<1>3. n["cecVendorId"] \in Nat
  <2>1. m["cecVendorId"] \in 0 .. S!VendorIds - 1
    BY DEF MemberSet
  <2>2. m["cecVendorId"] \in Nat
    BY <2>1, VendorIdsFact
  <2>3. k = "cecVendorId" => v \in Nat
    BY KeyFacts
  <2> QED
    BY <1>1, <1>2, <2>2, <2>3
<1>4. n["cecVendorId"] % S!VendorIds \in 0 .. S!VendorIds - 1
  BY <1>3, VendorIdsFact
<1>5. \A l \in S!Keys \ {"cecVendorId"} : n[l] \in Value(l) /\ n[l] \in AnyValue
  <2>1. \A l \in S!Keys \ {"cecVendorId"} : m[l] \in Value(l)
    BY DEF MemberSet
  <2> QED
    BY <1>2, <2>1, KeyFacts
<1>6. PICK f : f = S!Members(n)
  OBVIOUS
<1>7. f = [l \in S!Keys |-> IF l = "cecVendorId" THEN n[l] % S!VendorIds ELSE n[l]]
  BY <1>2, <1>6, MembersAre
<1>8. f["cecVendorId"] \in 0 .. S!VendorIds - 1
  BY <1>1, <1>4, <1>7
<1>9. \A l \in S!Keys \ {"cecVendorId"} : f[l] \in Value(l) /\ f[l] \in AnyValue
  BY <1>5, <1>7
<1>10. f \in [S!Keys -> AnyValue \cup 0 .. S!VendorIds - 1]
  BY <1>7, <1>8, <1>9
<1> QED
  BY <1>0, <1>6, <1>8, <1>9, <1>10 DEF MemberSet

\* Nothing is under way in a state at rest, and what was kept is there.
LEMMA RestFound ==
  ASSUME SettingsInv, ~overlapped, phase = "up", \A d \in Callers : setter[d] = S!NoCall
  PROVE  \E s \in may : /\ s \in Complete /\ path # 0 /\ Means(disk[path]) = S!Members(s)
                        /\ member = S!Members(s)
<1>1. PICK s \in may : KeptFor(s, phase, setter, member, path, disk)
  BY DEF SettingsInv, Kept
<1>2. s \in Complete
  BY DEF SettingsInv, StoreTypes
<1> QED
  BY <1>1, <1>2, KeptAtRest

LEMMA StepSet ==
  ASSUME SettingsInv, NEW c \in Callers, NEW k \in S!Settable, NEW v \in S!Asked(k),
         S!Set(c, k, v)
  PROVE  SettingsInv'
<1>1. k \in S!Keys /\ v \in Value(k)
  <2>1. k \in S!Keys
    BY DEF S!Settable
  <2> QED
    BY <2>1, AskedValues
<1>2. /\ phase = "up" /\ setter[c] = S!NoCall /\ path' = path /\ disk' = disk
      /\ phase' = phase /\ may' = may /\ StoreTypes /\ SetterTypes
  BY DEF S!Set, SettingsInv
<1>3. overlapped' = (overlapped \/ S!Others(c) # {})
  BY DEF S!Set
<1>4. ~overlapped' => ~overlapped /\ S!Others(c) = {}
  BY <1>3
<1>5. ASSUME ~overlapped'
      PROVE  /\ ~overlapped /\ Lone(c, setter)
             /\ \A d \in Callers : setter[d] = S!NoCall
  <2>1. Lone(c, setter)
    BY <1>4, <1>5 DEF S!Others, Lone
  <2> QED
    BY <1>2, <1>4, <1>5, <2>1 DEF Lone
<1>6. disk \in Seq(Files) /\ Len(disk) \in Nat /\ path \in 0 .. Len(disk) /\ member \in MemberSet
      /\ may \subseteq Complete
  BY <1>2 DEF StoreTypes
<1>7. CASE S!PersistFirst(k) /\ member[k] = v
  <2>1. member' = member /\ setter' = setter
    BY <1>7 DEF S!Set
  <2>2. StoreTypes' /\ SetterTypes'
    BY <1>2, <2>1 DEF StoreTypes, SetterTypes, Sole
  <2>3. Kept'
    <3>1. SUFFICES ASSUME ~overlapped'
                   PROVE  Sole(setter') /\ \E s \in may' : KeptFor(s, phase', setter', member', path', disk')
      BY DEF Kept
    <3>2. Sole(setter) /\ \E s \in may : KeptFor(s, phase, setter, member, path, disk)
      BY <1>5, <3>1 DEF SettingsInv, Kept
    <3> QED
      BY <1>2, <2>1, <3>2
  <2> QED
    BY <2>2, <2>3 DEF SettingsInv
<1>8. CASE ~(S!PersistFirst(k) /\ member[k] = v)
  <2>1. PICK n : n = [at |-> "open", setting |-> <<k, v>>, file |-> 0, content |-> S!Blank]
    OBVIOUS
  <2>2. /\ setter' = [setter EXCEPT ![c] = n]
        /\ member' = IF S!PersistFirst(k) THEN member ELSE S!Members([member EXCEPT ![k] = v])
    BY <1>8, <2>1 DEF S!Set
  <2>3. n \in Setters /\ n.at = "open" /\ n.setting = <<k, v>> /\ n.file = 0
    <3>1. <<k, v>> \in Settings
      BY <1>1 DEF Settings
    <3>2. S!Blank \in Files
      BY BlankFile
    <3> QED
      BY <2>1, <3>1, <3>2 DEF Setters
  <2>4. n # S!NoCall /\ CallOK(n, phase', Len(disk'))
    <3>1. n.setting[1] = k /\ k # "none"
      BY <1>1, <2>3, KeyFacts
    <3>2. 0 \in 0 .. Len(disk)
      BY <1>6
    <3> QED
      BY <1>2, <2>3, <3>1, <3>2, NoCallIs DEF CallOK
  <2>5. /\ SetterTypes' /\ setter'[c] = n /\ (Lone(c, setter) => Lone(c, setter'))
    <3>1. /\ disk' \in Seq(Files) /\ Len(disk') >= Len(disk)
          /\ phase' \in {"down", "loading", "up"} /\ phase' # "loading"
      BY <1>2, <1>6
    <3> QED
      BY <1>2, <1>6, <2>2, <2>4, <3>1, CallGoesOn
  <2>6. PICK changed : changed = [member EXCEPT ![k] = v]
    OBVIOUS
  <2>7. member' \in MemberSet
    <3>1. CASE S!PersistFirst(k)
      BY <1>6, <2>2, <3>1
    <3>2. CASE ~S!PersistFirst(k)
      <4>1. member' = S!Members(changed)
        BY <2>2, <2>6, <3>2
      <4>2. S!Members(changed) \in MemberSet
        BY <1>1, <1>6, <2>6, ChangedMembers
      <4> QED
        BY <4>1, <4>2
    <3> QED
      BY <3>1, <3>2
  <2>8. StoreTypes'
    BY <1>2, <1>6, <2>7 DEF StoreTypes
  <2>9. Kept'
    <3>1. SUFFICES ASSUME ~overlapped'
                   PROVE  Sole(setter') /\ \E s \in may' : KeptFor(s, phase', setter', member', path', disk')
      BY DEF Kept
    <3>2. /\ ~overlapped /\ Lone(c, setter)
          /\ \A d \in Callers : setter[d] = S!NoCall
      BY <1>5, <3>1
    <3>3. PICK s \in may : /\ s \in Complete /\ path # 0 /\ Means(disk[path]) = S!Members(s)
                           /\ member = S!Members(s)
      BY <1>2, <3>2, RestFound
    <3>4. Changed(s, n.setting) = [s EXCEPT ![k] = v] /\ n.setting[1] = k
      BY <1>1, <2>3, KeyFacts DEF Changed
    <3>5. member' = S!Members(IF S!PersistFirst(k) THEN s ELSE [s EXCEPT ![k] = v])
      <4>1. CASE S!PersistFirst(k)
        BY <2>2, <3>3, <4>1
      <4>2. CASE ~S!PersistFirst(k)
        <5>1. S!Members(member) = S!Members(s)
          BY <3>3, MembersAgain
        <5>2. S!Members([member EXCEPT ![k] = v]) = S!Members([s EXCEPT ![k] = v])
          <6>1. PICK m : m = member
            OBVIOUS
          <6>2. m \in Complete \cup MemberSet /\ s \in Complete \cup MemberSet
                /\ S!Members(m) = S!Members(s)
            BY <1>6, <3>3, <5>1, <6>1
          <6>3. S!Members([m EXCEPT ![k] = v]) = S!Members([s EXCEPT ![k] = v])
            BY <1>1, <6>2, MembersChange
          <6> QED
            BY <6>1, <6>3
        <5> QED
          BY <2>2, <2>6, <4>2, <5>2
      <4> QED
        BY <4>1, <4>2
    <3>6. Going(n, s, member', path', disk')
      BY <1>2, <2>3, <3>3, <3>4, <3>5 DEF Going
    <3>7. Lone(c, setter') /\ setter'[c] # S!NoCall /\ phase' # "down"
      BY <1>2, <2>4, <2>5, <3>2
    <3>8. KeptFor(s, phase', setter', member', path', disk') /\ Sole(setter')
      BY <2>5, <3>6, <3>7, KeptByCall
    <3> QED
      BY <1>2, <3>8
  <2> QED
    BY <2>5, <2>8, <2>9 DEF SettingsInv
<1> QED
  BY <1>7, <1>8

LEMMA StepLoad ==
  ASSUME SettingsInv, NEW c \in Callers, S!loadSettings(c)
  PROVE  SettingsInv'
<1> PICK content : content = IF path = 0 THEN S!DefaultFile ELSE disk[path]
  OBVIOUS
<1>1. /\ phase = "down" /\ member' = S!Members(S!Completed(content))
      /\ may' = {s \in may : S!Members(s) = member'}
      /\ path' = path /\ disk' = disk /\ overlapped' = overlapped
  BY DEF S!loadSettings
<1>2. /\ StoreTypes /\ SetterTypes /\ disk \in Seq(Files) /\ Len(disk) \in Nat
      /\ path \in 0 .. Len(disk) /\ may \subseteq Complete
  BY DEF SettingsInv, StoreTypes
<1>3. \A d \in Callers : setter[d] = S!NoCall
  BY <1>1, <1>2 DEF SetterTypes, CallOK
<1>4. /\ content \in Files /\ S!Completed(content) \in Complete
      /\ S!Completed(content) = S!Completed(Found(path, disk))
  <2>1. CASE path = 0
    BY <2>1, DefaultFileIs, BlankFile, CompletedFiles DEF Found
  <2>2. CASE path # 0
    <3>1. content = disk[path] /\ path \in 1 .. Len(disk)
      BY <1>2, <2>2
    <3> QED
      BY <1>2, <2>2, <3>1, CompletedFiles DEF Found
  <2> QED
    BY <2>1, <2>2
<1>5. StoreTypes'
  <2>1. member' \in MemberSet
    BY <1>1, <1>4, MembersOf
  <2> QED
    BY <1>1, <1>2, <2>1 DEF StoreTypes
<1>6. Lone(c, setter)
  BY <1>3 DEF Lone
<1>7. ASSUME ~overlapped'
      PROVE  \E s \in may' : /\ s \in Complete /\ Means(Found(path, disk)) = S!Members(s)
                             /\ member' = S!Members(s) /\ Means(content) = S!Members(s)
  <2>1. ~overlapped
    BY <1>1, <1>7
  <2>2. PICK s \in may : KeptFor(s, phase, setter, member, path, disk)
    BY <2>1 DEF SettingsInv, Kept
  <2>3. Means(Found(path, disk)) = S!Members(s)
    BY <1>1, <2>2 DEF KeptFor
  <2>4. Means(content) = S!Members(s) /\ member' = S!Members(s)
    BY <1>1, <1>4, <2>3 DEF Means
  <2> QED
    BY <1>1, <1>2, <2>3, <2>4
<1>8. CASE path # 0 /\ DOMAIN content = S!Keys
  <2>1. phase' = "up" /\ setter' = setter
    BY <1>8 DEF S!loadSettings
  <2>2. SetterTypes'
    BY <1>1, <1>2, <1>3, <2>1 DEF SetterTypes, CallOK
  <2>3. Kept'
    <3>1. SUFFICES ASSUME ~overlapped'
                   PROVE  Sole(setter') /\ \E s \in may' : KeptFor(s, phase', setter', member', path', disk')
      BY DEF Kept
    <3>2. PICK s \in may' : Means(Found(path, disk)) = S!Members(s) /\ member' = S!Members(s)
      BY <1>7, <3>1
    <3>3. path' # 0 /\ Means(disk'[path']) = S!Members(s)
      BY <1>1, <1>8, <3>2 DEF Found
    <3>4. \A d \in Callers : setter'[d] = S!NoCall
      BY <1>3, <2>1
    <3>5. phase' # "down"
      BY <2>1
    <3>6. KeptFor(s, phase', setter', member', path', disk') /\ Sole(setter')
      BY <3>2, <3>3, <3>4, <3>5, KeptAtRest
    <3> QED
      BY <3>6
  <2> QED
    BY <1>5, <2>2, <2>3 DEF SettingsInv
<1>9. CASE ~(path # 0 /\ DOMAIN content = S!Keys)
  <2>1. PICK n : n = [at |-> IF path = 0 THEN "create" ELSE "destroy", setting |-> <<"none", 0>>,
                      file |-> path,
                      content |-> IF path = 0 THEN S!DefaultFile ELSE S!Completed(content)]
    OBVIOUS
  <2>2. phase' = "loading" /\ setter' = [setter EXCEPT ![c] = n]
    BY <1>9, <2>1 DEF S!loadSettings, S!GoesTo
  <2>3. /\ n.at = (IF path = 0 THEN "create" ELSE "destroy") /\ n.setting = <<"none", 0>>
        /\ n.file = path /\ n.content = (IF path = 0 THEN S!DefaultFile ELSE S!Completed(content))
    BY <2>1
  <2>4. n.content \in Files /\ Means(n.content) = Means(content)
    <3>1. CASE path = 0
      BY <2>3, <3>1, DefaultFileIs
    <3>2. CASE path # 0
      <4>1. S!Completed(content) \in Files /\ S!Completed(S!Completed(content)) = S!Completed(content)
        BY <1>4, CompleteFiles
      <4> QED
        BY <2>3, <3>2, <4>1 DEF Means
    <3> QED
      BY <3>1, <3>2
  <2>5. n \in Setters
    <3>1. n.setting \in Settings /\ n.file \in Nat /\ n.at \in {"destroy", "create"}
      BY <1>2, <2>3 DEF Settings
    <3>2. n = [at |-> n.at, setting |-> n.setting, file |-> n.file, content |-> n.content]
      BY <2>1
    <3> QED
      BY <2>4, <3>1, <3>2 DEF Setters
  <2>6. n # S!NoCall /\ CallOK(n, phase', Len(disk'))
    <3>1. n.setting[1] = "none" /\ n.at \in {"destroy", "create"} /\ n.file \in 0 .. Len(disk)
      BY <1>2, <2>3
    <3> QED
      BY <1>1, <2>2, <2>5, <3>1, NoCallIs DEF CallOK
  <2>7. SetterTypes' /\ setter'[c] = n /\ (Lone(c, setter) => Lone(c, setter'))
    <3>1. /\ disk' \in Seq(Files) /\ Len(disk') >= Len(disk)
          /\ phase' \in {"down", "loading", "up"}
      BY <1>1, <1>2, <2>2
    <3> QED
      BY <1>2, <1>6, <2>2, <2>6, <3>1, CallGoesOn
  <2>8. Kept'
    <3>1. SUFFICES ASSUME ~overlapped'
                   PROVE  Sole(setter') /\ \E s \in may' : KeptFor(s, phase', setter', member', path', disk')
      BY DEF Kept
    <3>2. PICK s \in may' : /\ Means(Found(path, disk)) = S!Members(s)
                            /\ member' = S!Members(s) /\ Means(content) = S!Members(s)
      BY <1>7, <3>1
    <3>3. Changed(s, n.setting) = s /\ ~S!PersistFirst(n.setting[1])
      BY <2>3, KeyFacts DEF Changed
    <3>4. path # 0 => Means(disk[path]) = S!Members(s)
      BY <3>2 DEF Found
    <3>5. Going(n, s, member', path', disk')
      BY <1>1, <2>3, <2>4, <3>2, <3>3, <3>4 DEF Going
    <3>6. Lone(c, setter') /\ setter'[c] # S!NoCall /\ phase' # "down"
      BY <1>6, <2>2, <2>6, <2>7
    <3>7. KeptFor(s, phase', setter', member', path', disk') /\ Sole(setter')
      BY <2>7, <3>5, <3>6, KeptByCall
    <3> QED
      BY <3>7
  <2> QED
    BY <1>5, <2>7, <2>8 DEF SettingsInv
<1> QED
  BY <1>8, <1>9

\* The file a crash leaves means the settings before the call, those after it, or none.
LEMMA StepCrash ==
  ASSUME SettingsInv, S!Crash
  PROVE  SettingsInv'
<1> PICK busy : busy = {c \in Callers : setter[c] # S!NoCall}
  OBVIOUS
<1>0. PICK setting : setting = {setter[c].setting : c \in {b \in busy : setter[b].setting[1] # "none"}}
  OBVIOUS
<1>1. /\ phase # "down" /\ phase' = "down" /\ setter' = [c \in Callers |-> S!NoCall]
      /\ disk' = (IF path = 0 THEN <<>> ELSE <<disk[path]>>) /\ path' = Len(disk')
      /\ member' = member /\ overlapped' = overlapped
  BY DEF S!Crash
<1>2. may' = may \cup (UNION {{[s EXCEPT ![kv[1]] = kv[2]] : s \in may} : kv \in setting})
             \cup (IF busy = {} THEN {} ELSE {S!Defaults})
  BY <1>0 DEF S!Crash
<1>3. /\ StoreTypes /\ SetterTypes /\ disk \in Seq(Files) /\ Len(disk) \in Nat
      /\ path \in 0 .. Len(disk) /\ may \subseteq Complete
  BY DEF SettingsInv, StoreTypes
<1>4. disk' \in Seq(Files) /\ path' \in 0 .. Len(disk') /\ Found(path', disk') = Found(path, disk)
  <2>1. CASE path = 0
    BY <1>1, <2>1 DEF Found
  <2>2. CASE path # 0
    <3>1. PICK f : f = disk[path]
      OBVIOUS
    <3>2. f \in Files
      BY <1>3, <2>2, <3>1
    <3>3. disk' = <<f>> /\ path' = 1
      BY <1>1, <2>2, <3>1
    <3> QED
      BY <2>2, <3>1, <3>2, <3>3 DEF Found
  <2> QED
    BY <2>1, <2>2
<1>5. \A kv \in setting : kv[1] \in S!Keys /\ kv[2] \in Value(kv[1])
  <2>1. SUFFICES ASSUME NEW c \in Callers, setter[c] # S!NoCall, setter[c].setting[1] # "none"
                 PROVE  /\ setter[c].setting[1] \in S!Keys
                        /\ setter[c].setting[2] \in Value(setter[c].setting[1])
    BY <1>0
  <2>2. CallOK(setter[c], phase, Len(disk))
    BY <1>3 DEF SetterTypes
  <2>3. setter[c].setting \in Settings
    BY <1>3, <2>1, <2>2, CallIs
  <2> QED
    BY <2>1, <2>3, SettingIs
<1>6. may' \subseteq Complete
  <2>1. \A s \in may : \A kv \in setting : [s EXCEPT ![kv[1]] = kv[2]] \in Complete
    BY <1>3, <1>5, ChangedComplete
  <2>2. UNION {{[s EXCEPT ![kv[1]] = kv[2]] : s \in may} : kv \in setting} \subseteq Complete
    <3>1. \A kv \in setting : {[s EXCEPT ![kv[1]] = kv[2]] : s \in may} \subseteq Complete
      BY <2>1
    <3> QED
      BY <3>1
  <2>3. (IF busy = {} THEN {} ELSE {S!Defaults}) \subseteq Complete
    BY DefaultsComplete, Zenon
  <2> QED
    BY <1>2, <1>3, <2>2, <2>3, Zenon
<1>7. StoreTypes'
  BY <1>1, <1>3, <1>4, <1>6 DEF StoreTypes
<1>8. SetterTypes' /\ Sole(setter')
  BY <1>1 DEF SetterTypes, CallOK, Sole
<1>9. ASSUME ~overlapped'
      PROVE  \E s \in may' : Means(Found(path, disk)) = S!Members(s)
  <2>1. ~overlapped
    BY <1>1, <1>9
  <2>2. CASE busy = {}
    <3>1. \A d \in Callers : setter[d] = S!NoCall
      BY <2>2
    <3>2. PICK s \in may : KeptFor(s, phase, setter, member, path, disk)
      BY <2>1 DEF SettingsInv, Kept
    <3>3. path # 0 /\ Means(disk[path]) = S!Members(s)
      BY <1>1, <3>1, <3>2, KeptAtRest
    <3> QED
      BY <1>2, <3>2, <3>3 DEF Found
  <2>3. CASE busy # {}
    <3>1. PICK c \in Callers : setter[c] # S!NoCall
      BY <2>3
    <3>2. PICK s \in may : s \in Complete /\ Going(setter[c], s, member, path, disk)
      BY <2>1, <3>1, CallFound
    <3>3. PICK r : r = setter[c]
      OBVIOUS
    <3>4. CallOK(r, phase, Len(disk)) /\ r # S!NoCall
      BY <1>3, <3>1, <3>3 DEF SetterTypes
    <3>5. /\ r.at \in {"open", "read", "destroy", "create", "write", "written"}
          /\ (r.setting[1] = "none" <=> phase = "loading")
          /\ (phase = "loading" => r.at \in {"destroy", "create", "write"})
      BY <1>3, <3>4, CallIs
    <3>6. s \in may' /\ S!Defaults \in may'
      BY <1>2, <2>3, <3>2, Zenon
    <3>7. CASE r.at \in {"open", "read", "destroy"}
      BY <3>2, <3>3, <3>6, <3>7 DEF Going, Found
    <3>8. CASE r.at \in {"create", "write"}
      <4>1. Found(path, disk) = S!Blank
        BY <3>2, <3>3, <3>8 DEF Going, Found
      <4>2. Means(S!Blank) = S!Members(S!Defaults)
        BY BlankFile DEF Means
      <4> QED
        BY <3>6, <4>1, <4>2
    <3>9. CASE r.at = "written"
      <4>1. r.setting[1] # "none"
        BY <3>5, <3>9
      <4>2. r.setting \in setting
        BY <1>0, <3>1, <3>3, <4>1
      <4>3. Changed(s, r.setting) = [s EXCEPT ![r.setting[1]] = r.setting[2]]
        BY <4>1 DEF Changed
      <4>4. Changed(s, r.setting) \in may'
        <5>1. PICK kv : kv = r.setting
          OBVIOUS
        <5>2. kv \in setting
          BY <4>2, <5>1
        <5>3. [s EXCEPT ![kv[1]] = kv[2]] \in {[u EXCEPT ![kv[1]] = kv[2]] : u \in may}
          BY <3>2
        <5>4. PICK all : all = UNION {{[u EXCEPT ![x[1]] = x[2]] : u \in may} : x \in setting}
          OBVIOUS
        <5>5. [s EXCEPT ![kv[1]] = kv[2]] \in all
          <6>1. PICK one : one = {[u EXCEPT ![kv[1]] = kv[2]] : u \in may}
            OBVIOUS
          <6>2. one \in {{[u EXCEPT ![x[1]] = x[2]] : u \in may} : x \in setting}
            BY <5>2, <6>1, Zenon
          <6>3. one \subseteq all
            BY <5>4, <6>2, Zenon
          <6> QED
            BY <5>3, <6>1, <6>3
        <5>6. all \subseteq may'
          BY <1>2, <5>4, Zenon
        <5> QED
          BY <4>3, <5>1, <5>5, <5>6
      <4>5. Means(Found(path, disk)) = S!Members(Changed(s, r.setting))
        BY <3>2, <3>3, <3>9 DEF Going, Found
      <4> QED
        BY <4>4, <4>5
    <3> QED
      BY <3>5, <3>7, <3>8, <3>9
  <2> QED
    BY <2>2, <2>3
<1>10. Kept'
  <2>1. SUFFICES ASSUME ~overlapped'
                 PROVE  \E s \in may' : KeptFor(s, phase', setter', member', path', disk')
    BY <1>8 DEF Kept
  <2>2. PICK s \in may' : Means(Found(path, disk)) = S!Members(s)
    BY <1>9, <2>1
  <2> QED
    BY <1>1, <1>4, <2>2 DEF KeptFor
<1> QED
  BY <1>7, <1>8, <1>10 DEF SettingsInv

LEMMA SettingsStart ==
  ASSUME S!Init
  PROVE  SettingsInv
<1>1. /\ phase = "down" /\ member = S!Members(S!Defaults) /\ path = 0 /\ disk = <<>>
      /\ setter = [c \in Callers |-> S!NoCall] /\ may = {S!Defaults}
  BY DEF S!Init
<1>2. StoreTypes
  BY <1>1, DefaultsComplete, MembersOf DEF StoreTypes
<1>3. SetterTypes /\ Sole(setter)
  BY <1>1 DEF SetterTypes, CallOK, Sole
<1>4. KeptFor(S!Defaults, phase, setter, member, path, disk)
  <2>1. Found(path, disk) = S!Blank
    BY <1>1 DEF Found
  <2>2. Means(S!Blank) = S!Members(S!Defaults)
    BY BlankFile DEF Means
  <2> QED
    BY <1>1, <2>1, <2>2 DEF KeptFor
<1> QED
  BY <1>1, <1>2, <1>3, <1>4 DEF SettingsInv, Kept

LEMMA SettingsStep ==
  ASSUME SettingsInv, S!Next \/ UNCHANGED SettingsVars
  PROVE  SettingsInv'
<1>1. CASE UNCHANGED SettingsVars
  BY <1>1 DEF SettingsVars, SettingsInv, StoreTypes, SetterTypes, Kept, Sole
<1>2. CASE S!Crash
  BY <1>2, StepCrash
<1>3. CASE \E c \in Callers : S!loadSettings(c)
  BY <1>3, StepLoad
<1>4. CASE \E c \in Callers : \E k \in S!Settable : \E v \in S!Asked(k) : S!Set(c, k, v)
  BY <1>4, StepSet
<1>5. CASE \E c \in Callers : S!Persist(c)
  <2>1. PICK c \in Callers : S!Persist(c)
    BY <1>5
  <2>2. overlapped' <=> overlapped
    BY <2>1 DEF S!Persist
  <2>3. S!Open(c) \/ S!FromFile(c) \/ S!Destroy(c) \/ S!Recreate(c) \/ S!ToFile(c) \/ S!Return(c)
    BY <2>1 DEF S!Persist
  <2> QED
    BY <2>2, <2>3, StepOpen, StepFromFile, StepDestroy, StepRecreate, StepToFile, StepReturn
<1> QED
  BY <1>1, <1>2, <1>3, <1>4, <1>5 DEF S!Next

LEMMA SettingsInvariant == PartsSpec => [](part = "settings" => SettingsInv)
<1>1. PartsInit => (part = "settings" => SettingsInv)
  BY PartsStart, SettingsStart
<1>2. (part = "settings" => SettingsInv) /\ [PartsNext]_AllVars => (part = "settings" => SettingsInv)'
  BY PartsStep, SettingsStep
<1> HIDE DEF SettingsInv
<1> QED
  BY <1>1, <1>2, PTL DEF PartsSpec, AllVars

\* What was set is kept over restarts: persistJsonSettings and loadSettings, for any
\* names and vendor ids, and any number of calls and of crashes.
THEOREM SettingsAreKept == PartsSpec => []SettingsKept
<1>1. (part = "settings" => SettingsInv) => SettingsKept
  <2>1. SUFFICES ASSUME SettingsInv, phase = "up", \A c \in Callers : setter[c] = S!NoCall, ~overlapped
                 PROVE  /\ member \in {S!Members(s) : s \in may}
                        /\ path # 0 /\ S!Members(S!Completed(disk[path])) = member
    BY DEF SettingsKept, S!SettingsKept
  <2> QED
    BY <2>1, RestFound DEF Means
<1> QED
  BY <1>1, SettingsInvariant, PTL
=============================================================================
