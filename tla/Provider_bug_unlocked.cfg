SPECIFICATION Spec
CONSTANTS
  Elements <- MCElements
  Configs <- MCConfigs
  SiteKeys = {"firewall"}
  StateKeys = {"portsCfg"}
  ItemsOf <- MCItemsOf
  Owned <- MCOwned
  Vals = {"set"}
  Asked <- MCAsked
  Settings <- MCSettings
  Overlap = TRUE
  MaxEdits = 0
  MaxFaults = 0
INVARIANT SerialCloud
