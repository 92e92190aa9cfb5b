CONSTANTS
  a1 = a1
  a2 = a2
  ApiThreads = {a1, a2}
  ApiOps = {"enable", "disable", "shutdown"}
  CecMessages = {"InitiateArc", "TerminateArc", "SystemAudioOff"}
  PowerModes = {"ON"}
  PortStates = {TRUE, FALSE}

SPECIFICATION Spec

SYMMETRY ApiSymmetry

INVARIANTS
  TypeOK
  NoLostSignal
  LinkConsistent
  PollThreadOwned
  ShutdownClean

\* After the destructor the object is gone, and without calls it may rest.
CHECK_DEADLOCK FALSE
