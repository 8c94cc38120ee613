\* A cloud write that took effect and whose reply was lost.
CONSTANTS
  Keys = {1, 2}
  Delivered = {1, 2}
  Vals <- MCVals
  v1 = v1
  v2 = v2
  Torn = Torn
  NoOffer = NoOffer
  Faults = {"lateReply"}
  MaxFaults = 1
  Races = {}
SPECIFICATION Spec
INVARIANT NoPartialPush
