\* Only the router is fair, and config.json carries one of the two objects.
CONSTANTS
  Keys = {1, 2}
  Delivered = {1}
  Vals <- MCVals
  v1 = v1
  v2 = v2
  Torn = Torn
  NoOffer = NoOffer
  Faults = {"cut", "crash", "reject"}
  MaxFaults = 2
  Races = {}
SPECIFICATION RouterFairSpec
PROPERTY ImplementsCommitConfirm
