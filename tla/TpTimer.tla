------------------------------- MODULE TpTimer -------------------------------
(***************************************************************************)
(* The helper TpTimer (helpers/tptimer.h): a single-shot timer that runs a *)
(* callback on a thread of its own and holds no lock.  The base timer      *)
(* (Thunder's Core::TimerType, outside this repository) is modelled by     *)
(* whether a job is pending; revoking a job whose callback already runs    *)
(* does not wait for it.                                                   *)
(*                                                                         *)
(* A client declares the two variables, instantiates this module and puts  *)
(* the steps of its callback between Expire and StopIfActive.  stop() and  *)
(* start() are one step each.                                              *)
(***************************************************************************)

VARIABLES
  scheduled,   \* a job is pending in the base timer
  isActive     \* m_isActive

timerVars == <<scheduled, isActive>>

TimerInit == scheduled = FALSE /\ isActive = FALSE

TimerTypeOK == scheduled \in BOOLEAN /\ isActive \in BOOLEAN

\* "if (isActive()) stop()", by a client or by Timed() after the callback.
StopIfActive ==
  IF isActive THEN scheduled' = FALSE /\ isActive' = FALSE
              ELSE UNCHANGED timerVars

\* start(): Revoke and Schedule leave one pending job.
Start == scheduled' = TRUE /\ isActive' = TRUE

\* The base timer's thread takes the job and enters Timed(), which calls the
\* client's callback with m_isActive still set.
Expire == scheduled /\ scheduled' = FALSE /\ UNCHANGED isActive
==============================================================================
