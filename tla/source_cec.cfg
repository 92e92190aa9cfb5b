CONSTANTS
  Api = {"api"}
  Devices <- MCDevices
  Tries = 1
  MaxCalls = 3
  MaxEvents = 2
  MaxKeys = 1
  MaxFaults = 1

SPECIFICATION LiveSpec

INVARIANTS
  TypeOK
  LinkInForce
  WorkersOwned
  PollTruth
  CountExact
PROPERTY ApiCompletes
CHECK_DEADLOCK FALSE
