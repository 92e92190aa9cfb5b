CONSTANTS
  r1 = r1
  Keys = {"VOLUME", "MUTE", "OTHER"}
  Resetters = {r1}
  MaxKeys = 2

SPECIFICATION FairSpec

INVARIANTS
  TypeOK
  NoSleepAfterExit

PROPERTIES
  SenderEnds
  AwakeSenderDelivers
  StatusLearned

\* Once the sender has ended, and without calls, the system may rest.
CHECK_DEADLOCK FALSE
