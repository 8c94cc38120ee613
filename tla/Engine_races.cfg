\* No fault, but every ordering of scripts, timer and agent.
CONSTANTS
  Keys = {1}
  Delivered = {1}
  Vals <- MCVals
  v1 = v1
  v2 = v2
  Torn = Torn
  NoOffer = NoOffer
  Faults = {}
  MaxFaults = 0
  Races = {"overlap", "slowStop", "slowPush"}
SPECIFICATION FairSpec
PROPERTY ApplyReturns
