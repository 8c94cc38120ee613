SPECIFICATION Spec
CONSTANTS
  EventHooks = {"wg", "lan"}
  BootHooks = {"dns"}
  Wanted <- MCWanted
  Contents = {"sourcing"}
  Foreign = {"theirs"}
  Configurations <- MCConfigurations
  Sourcing = {"sourcing"}
  OnDestroy = {"keep", "delete"}
  MaxCuts = 1
  MaxEdits = 1
INVARIANTS DeletedIsGone KnownIsStored OriginalKept
