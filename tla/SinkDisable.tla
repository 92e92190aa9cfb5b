----------------------------- MODULE SinkDisable -----------------------------
(***************************************************************************)
(* SinkArc with a history of the wait in CECDisable: whether the audio     *)
(* system owes an answer to <Request ARC Termination>, and whether the     *)
(* reader thread has set ARC_STATE_ARC_INITIATED over what CECDisable      *)
(* waits for (HdmiCecSinkImplementation.cpp, Process_InitiateArc).         *)
(***************************************************************************)
EXTENDS SinkArc

VARIABLES
  asked,      \* history: the request is sent and not answered; the answer finds
              \* a listener if there was one when the request was sent
  overtaken   \* history: during CECDisable, INITIATED was written over the end
              \* of ARC, asked for or reached, with no answer to come

\* CECDisable holds m_enableMutex, or is in its stopArc.
Disabling(t) ==
  \/ pc[t] \in {"arcActive", "spin", "disabled", "joinPoll", "finish"}
  \/ enableMutex = t /\ pc[t] \in ArcLabels

SomeoneDisables == \E t \in ApiThreads : Disabling(t)

\* threadArcRouting copies a state and sends the message for it.
SendsRequest ==
  pc["arc"] = "copy" /\ pc'["arc"] # "copy" /\ arcState = "REQUEST_TERMINATION"

IsAnswered ==
  pc["cec"] = "idle" /\ pc'["cec"] = "terminateTimer"

Overwrites ==
  /\ pc["cec"] = "initiated" /\ pc'["cec"] # "initiated"
  /\ arcState \in {"REQUEST_TERMINATION", "TERMINATED"}

\* An answer to a connection that is closed meanwhile is lost.
Watch ==
  /\ asked' = (listening' /\ ~IsAnswered /\ (asked \/ SendsRequest))
  /\ overtaken' =
       (SomeoneDisables' /\ (overtaken \/ (SomeoneDisables /\ Overwrites /\ ~asked)))

DisableInit == Init /\ asked = FALSE /\ overtaken = FALSE
DisableNext == Next /\ Watch
disableVars == <<vars, asked, overtaken>>

\* The audio system answers <Request ARC Termination>.  Frames are read in
\* the order they arrive, so other messages do not keep the answer out.
AvrAnswers == SF_vars(asked /\ ReceiveTerminateArc)

DisableSpec ==
  DisableInit /\ [][DisableNext]_disableVars /\ ThreadFairness /\ AvrAnswers

-------------------------------------------------------------------------------
\* What CECDisable finds can be answered: the listener is attached, and a request
\* to end ARC that is already sent was sent with the listener attached.
CanBeAnswered ==
  listening /\ (arcState = "REQUEST_TERMINATION" => unseen \/ asked)

\* CECDisable waits for TERMINATED with m_enableMutex held and no time limit of
\* its own.  It ends if the listener is attached and the audio system answers
\* the request it is sent, whatever else arrives meanwhile, with one exception,
\* after which CECDisable may wait for ever: an <Initiate ARC> that
\* Process_InitiateArc took up while cecSettingEnabled was true stops the timer
\* and sets INITIATED over the request before threadArcRouting has copied it (or
\* over TERMINATED before the wait looks), and nobody is asked any more.
DisableCompletes ==
  \A t \in ApiThreads :
    pc[t] = "arcActive" /\ CanBeAnswered ~> ~Disabling(t) \/ overtaken
==============================================================================
