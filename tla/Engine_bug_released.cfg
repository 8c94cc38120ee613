\* A session lost while the agent stops, and a start that has no effect on it.
CONSTANTS
  Keys = {1, 2}
  Delivered = {1, 2}
  Vals <- MCVals
  v1 = v1
  v2 = v2
  Torn = Torn
  NoOffer = NoOffer
  Faults = {"cut", "agent"}
  MaxFaults = 2
  Races = {}
SPECIFICATION Spec
INVARIANT ReleasedAgentRuns
