CONSTANTS
  a1 = a1
  ApiThreads = {a1}
  ApiOps = {"startArc", "enable", "disable"}
  CecMessages = {"InitiateArc", "TerminateArc", "SystemAudioOff"}
  PowerModes = {"ON"}
  PortStates = {TRUE}

SPECIFICATION DisableSpec

PROPERTY
  DisableCompletes

\* After the destructor the object is gone, and without calls it may rest.
CHECK_DEADLOCK FALSE
