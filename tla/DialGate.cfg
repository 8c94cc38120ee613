\* Three resources refreshing at once, the provider's single slot, its three attempts.
CONSTANTS
  Callers <- MCCallers
  c1 = c1
  c2 = c2
  c3 = c3
  Slots = 1
  Attempts = 3
SPECIFICATION FairSpec
INVARIANTS TypeOK Serialised NothingRepeated NoLostSlot
PROPERTY EveryoneServed
