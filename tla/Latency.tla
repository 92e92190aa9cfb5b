------------------------------ MODULE Latency -------------------------------
(***************************************************************************)
(* HdmiInput reports the latency of the TV to HdmiCecSink.  Two threads,   *)
(* the event bus's and the JSON-RPC client's, write static variables and   *)
(* then read all of them, one by one and without a lock, for a call of the *)
(* sink plugin, which keeps them in the bytes it broadcasts.               *)
(*                                                                         *)
(* The variables met and missed are history: no guard reads them.          *)
(***************************************************************************)
EXTENDS Naturals, Sequences

CONSTANTS
  Delays,       \* milliseconds the driver and the plugins start with or report
  MaxReports    \* driver events, game mode events and plugin restarts

LatencyAssumption == Delays \subseteq Nat

Handlers == {"dsHdmiAVLatencyEventHandler", "onGameModeEventHandler"}

\* What is passed on, in the order of the reads.
Items == <<"audioOutputDelay", "videoLatency", "lowLatencyMode">>

\* DEFAULT_AUDIO_OUTPUT_DELAY, DEFAULT_VIDEO_LATENCY and DEFAULT_LATENCY_FLAGS.
Defaults == [audioOutputDelay |-> 100, videoLatency |-> 100, lowLatencyMode |-> 3]

Idle == [step |-> "idle"]

VARIABLES
  statics,   \* HdmiInput: audio_output_delay, video_latency, lowLatencyMode
  sink,      \* HdmiCecSink: m_audio_output_delay, m_video_latency, m_latency_flags
  active,    \* the sink plugin is ACTIVATED
  handler,   \* per handler: the event and the next step
  reports,
  met,       \* the two handlers were at work at once
  missed     \* the sink was not there for the last report, or lost it

vars == <<statics, sink, active, handler, reports, met, missed>>

StepsUnhalved(ms) == (ms + 1) % 256

\* CEC counts latencies in steps of 2 ms from 1, in a byte.
Steps(ms) == (ms \div 2 + 1) % 256

Compensated == 3   \* audioOutputCompensated, always "3"

\* The low latency bit, over the two bits of the compensation.
LatencyFlags(mode) == (mode % 2) * 4 + Compensated

updateCurrentLatency(values) ==
  sink' = [audioOutputDelay |-> Steps(values.audioOutputDelay),
           videoLatency     |-> Steps(values.videoLatency),
           lowLatencyMode   |-> LatencyFlags(values.lowLatencyMode)]

\* The items that the event of a handler carries, and the values it finds or brings.
Carries(h) == IF h = "onGameModeEventHandler" THEN <<Items[3]>> ELSE <<Items[1], Items[2]>>
Events(h) ==
  IF h = "onGameModeEventHandler"
  THEN [audioOutputDelay : {statics.audioOutputDelay}, videoLatency : {statics.videoLatency},
        lowLatencyMode : 0 .. 1]
  ELSE [audioOutputDelay : Delays, videoLatency : Delays, lowLatencyMode : {statics.lowLatencyMode}]

EventArrives(h) ==
  /\ reports < MaxReports /\ reports' = reports + 1
  /\ handler[h] = Idle
  /\ \E values \in Events(h) :
       handler' = [handler EXCEPT ![h] = [step |-> "write", item |-> 1, values |-> values]]
  /\ met' = (met \/ \E other \in Handlers : handler[other] # Idle)
  /\ UNCHANGED <<statics, sink, active, missed>>

\* The statics of the event, one after the other.
Writes(h) ==
  /\ handler[h].step = "write"
  /\ LET item == handler[h].item
         name == Carries(h)[item] IN
     /\ statics' = [statics EXCEPT ![name] = handler[h].values[name]]
     /\ handler' = [handler EXCEPT ![h].step = IF item = Len(Carries(h)) THEN "ask" ELSE "write",
                                   ![h].item = IF item = Len(Carries(h)) THEN 1 ELSE 2]
  /\ UNCHANGED <<sink, active, reports, met, missed>>

\* getServiceState: no report if the sink plugin is not activated.
Asks(h) ==
  /\ handler[h].step = "ask"
  /\ handler' = [handler EXCEPT ![h] = IF active THEN [@ EXCEPT !.step = "read"] ELSE Idle]
  /\ missed' = (missed \/ ~active)
  /\ UNCHANGED <<statics, sink, active, reports, met>>

\* reportLatencyInfoToHdmiCecSink: the three statics into the parameters.
Reads(h) ==
  /\ handler[h].step = "read"
  /\ LET item == handler[h].item IN
     handler' = [handler EXCEPT ![h].values[Items[item]] = statics[Items[item]],
                                ![h].step = IF item = 3 THEN "invoke" ELSE "read",
                                ![h].item = IF item = 3 THEN 1 ELSE item + 1]
  /\ UNCHANGED <<statics, sink, active, reports, met, missed>>

\* setLatencyInfo, answered within 2 s, or lost with a sink that has gone.
Invokes(h) ==
  /\ handler[h].step = "invoke"
  /\ handler' = [handler EXCEPT ![h] = Idle]
  /\ IF active THEN updateCurrentLatency(handler[h].values) ELSE UNCHANGED sink
  /\ missed' = ~active
  /\ UNCHANGED <<statics, active, reports, met>>

\* Configure: the members start with the sink's own defaults.
SinkStarts ==
  /\ reports < MaxReports /\ reports' = reports + 1
  /\ ~active /\ active' = TRUE
  /\ sink' = Defaults
  /\ missed' = TRUE
  /\ UNCHANGED <<statics, handler, met>>

SinkStops ==
  /\ reports < MaxReports /\ reports' = reports + 1
  /\ active /\ active' = FALSE
  /\ UNCHANGED <<statics, sink, handler, met, missed>>

Init ==
  /\ statics = [audioOutputDelay |-> 100, videoLatency |-> 20, lowLatencyMode |-> 0]
  /\ sink = Defaults
  /\ active = TRUE
  /\ handler = [h \in Handlers |-> Idle]
  /\ reports = 0
  /\ met = FALSE /\ missed = TRUE

Next ==
  \/ \E h \in Handlers : EventArrives(h) \/ Writes(h) \/ Asks(h) \/ Reads(h) \/ Invokes(h)
  \/ SinkStarts \/ SinkStops

Spec == Init /\ [][Next]_vars
-----------------------------------------------------------------------------
\* Bytes in the sink, and steps that follow one another.
TypeOK ==
  /\ statics \in [audioOutputDelay : Delays \cup {100}, videoLatency : Delays \cup {20},
                  lowLatencyMode : 0 .. 1]
  /\ \A name \in DOMAIN sink : sink[name] \in 0 .. 255
  /\ \A h \in Handlers : handler[h].step \in {"idle", "write", "ask", "read", "invoke"}

\* When no report is under way, an activated sink broadcasts the latencies that
\* HdmiInput holds, each within a step of 2 ms as far as a byte goes (latencies of
\* 510 ms and more wrap), unless the two handlers met, one report with older
\* values overtaking the other, or the sink has started since the last report.
LatencyAgrees ==
  (\A h \in Handlers : handler[h] = Idle) /\ active /\ ~met /\ ~missed =>
    /\ \A name \in {"audioOutputDelay", "videoLatency"} :
         statics[name] < 510 => statics[name] - 2 * (sink[name] - 1) \in {0, 1}
    /\ sink.lowLatencyMode \div 4 = statics.lowLatencyMode
=============================================================================
