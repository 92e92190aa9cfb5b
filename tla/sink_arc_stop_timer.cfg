CONSTANTS
  a1 = a1
  ApiThreads = {a1}
  ApiOps = {}
  CecMessages = {"InitiateArc"}
  PowerModes = {"ON", "OFF"}
  PortStates = {TRUE}

SPECIFICATION Spec

INVARIANT
  TerminationTimed

\* After the destructor the object is gone, and without calls it may rest.
CHECK_DEADLOCK FALSE
