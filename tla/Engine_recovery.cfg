\* Two faults of any kind, edits on the router among them.
CONSTANTS
  Keys = {1}
  Delivered = {1}
  Vals <- MCVals
  v1 = v1
  v2 = v2
  Torn = Torn
  NoOffer = NoOffer
  Faults = {"cut", "crash", "reject", "agent", "lateReply", "reboot", "edit"}
  MaxFaults = 2
  Races = {"torn"}
SPECIFICATION FairSpec
PROPERTIES EditsAreRefused ApplyReturns RecoveryConverges
