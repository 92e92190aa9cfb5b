CONSTANTS
  a1 = a1
  ApiThreads = {a1}
  ApiOps = {"startArc", "shutdown"}
  CecMessages = {"TerminateArc"}
  PowerModes = {"ON", "OFF"}
  PortStates = {TRUE}

SPECIFICATION FairSpec

PROPERTY
  MailboxImplemented

\* After the destructor the object is gone, and without calls it may rest.
CHECK_DEADLOCK FALSE
