\* Two faults of the kinds the engine is built to survive.
CONSTANTS
  Keys = {1, 2}
  Delivered = {1, 2}
  Vals <- MCVals
  v1 = v1
  v2 = v2
  Torn = Torn
  NoOffer = NoOffer
  Faults = {"cut", "crash", "reject", "agent"}
  MaxFaults = 2
  Races = {}
SPECIFICATION Spec
INVARIANTS TypeOK NoPartialPush DeadMan JournalRepairs SettledAgrees
PROPERTIES OnlyProbedIsConfirmed ReleasedAfterRollback VerdictHolds
