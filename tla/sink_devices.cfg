CONSTANTS
  Devices = {4}
  Fields = {"PA", "POWER"}
  MaxRetry = 1
  MaxEvents = 1
  MaxEnables = 2

SPECIFICATION PresenceSpec

INVARIANTS
  TypeOK
  CountExact

PROPERTY
  TableFollowsBus

\* With CEC off and the events spent there may be nothing left to do.
CHECK_DEADLOCK FALSE
