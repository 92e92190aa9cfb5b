CONSTANTS
  Devices = {4}
  Fields = {"PA", "POWER"}
  MaxRetry = 1
  MaxEvents = 1
  MaxEnables = 1

SPECIFICATION Spec

INVARIANT
  CountIsOfConnected

\* With CEC off and the events spent there may be nothing left to do.
CHECK_DEADLOCK FALSE
