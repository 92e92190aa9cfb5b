CONSTANTS
  Keys = {"VOLUME", "MUTE", "OTHER"}
  Resetters = {}
  MaxKeys = 2

SPECIFICATION Spec

INVARIANT
  NoKeyStranded

\* Once the sender has ended, and without calls, the system may rest.
CHECK_DEADLOCK FALSE
