----------------------------- MODULE SinkPresence -----------------------------
(***************************************************************************)
(* SinkDevices with a history: whether each device answered the bus while  *)
(* a thread that changes the table was at work.                            *)
(*                                                                         *)
(* threadRun pings every address, keeps who came and who went in two       *)
(* vectors (HdmiCecSinkImplementation.cpp, POLL_THREAD_STATE_PING), and    *)
(* acts on them when all are pinged; a frame or a hot plug event is acted  *)
(* upon after it has arrived.  The bus changes meanwhile.                  *)
(***************************************************************************)
EXTENDS SinkDevices

VARIABLE lately   \* history: of each thread and device, whether the device was
                  \* attached at the moments since the thread set to work

Workers == {"poll", "cec", "hpd"}

\* Between two passes over the addresses, two frames or two hot plug events.
RestLabels == {"idle", "none", "top", "forget", "run", "timeout", "ended"}

Watch ==
  lately' = [t \in Workers |-> [d \in Devices |->
    (IF pc[t] \in RestLabels THEN {} ELSE lately[t][d]) \cup {attached'[d]}]]

PresenceInit ==
  /\ Init
  /\ lately = [t \in Workers |-> [d \in Devices |-> {attached[d]}]]

PresenceNext == Next /\ Watch

presenceVars == <<vars, lately>>

PresenceSpec == PresenceInit /\ [][PresenceNext]_presenceVars

-------------------------------------------------------------------------------
\* A device comes into the table only if it was on the bus, and leaves it only if
\* it was not, at some moment since the thread that adds or removes it set to
\* work on what it acts upon: since the pass over the addresses began in which
\* the poll thread pinged it, or since the frame or the hot plug event arrived.
\* CECDisable, which forgets every device, is the exception.
TableFollowsBus ==
  [][\A d \in Devices : present'[d] # present[d] =>
       \/ pc["api"] = "clear" /\ pc'["api"] = "idle"
       \/ \E t \in Workers : target[t] = d /\ present'[d] \in lately[t][d]
    ]_presenceVars
==============================================================================
