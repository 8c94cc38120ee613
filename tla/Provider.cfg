SPECIFICATION FairSpec
CONSTANTS
  Elements <- MCElements
  Configs <- MCConfigs
  SiteKeys = {"firewall"}
  StateKeys = {"portsCfg"}
  ItemsOf <- MCItemsOf
  Owned <- MCOwned
  Vals = {"set"}
  Asked <- MCAsked
  Settings <- MCSettings
  Overlap = FALSE
  MaxEdits = 1
  MaxFaults = 1
INVARIANTS TypeOK SerialCloud OneTransaction NothingLeftOpen
PROPERTIES NothingUnseenIsOverwritten EveryApplyReturns
