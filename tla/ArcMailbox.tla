----------------------------- MODULE ArcMailbox ------------------------------
(***************************************************************************)
(* What the ARC state machine promises to threadArcRouting: a mailbox that *)
(* holds one state.  Any thread may post a new state, which replaces the   *)
(* one before it; the routing thread takes the state of the moment.  A     *)
(* posted state may be replaced before it is taken, and a state may be     *)
(* taken twice, but the mailbox never forgets that something was posted:   *)
(* until the routing thread has been told to stop, it takes again.         *)
(***************************************************************************)
CONSTANTS
  Values,   \* the states
  Quiet,    \* the state that may be written without telling anybody
  Stop      \* the state that ends the routing thread

VARIABLES current, pending, taken

mailVars == <<current, pending, taken>>

MailInit == current = Quiet /\ pending = FALSE /\ taken = Quiet

Post(value) == current' = value /\ pending' = TRUE /\ UNCHANGED taken

Reset == current' = Quiet /\ UNCHANGED <<pending, taken>>

Take ==
  /\ taken # Stop
  /\ taken' = current /\ pending' = FALSE
  /\ UNCHANGED current

MailNext == (\E value \in Values : Post(value)) \/ Reset \/ Take

MailSpec == MailInit /\ [][MailNext]_mailVars /\ WF_mailVars(pending /\ Take)
==============================================================================
