SPECIFICATION FairSpec
CONSTANTS
  Requests = {"get", "post", "denied"}
  Posts = {"post"}
  Denied = {"denied"}
  Life = 3
  Skew = 2
  MaxTime = 3
  MaxSignOuts = 2
  MaxFaults = 1
INVARIANTS TypeOK AppliedAtMostOnce NoneEndsInFlight OneSignOutIsRepaired LoginIsLastResort
PROPERTIES EveryRequestEnds
CHECK_DEADLOCK FALSE
