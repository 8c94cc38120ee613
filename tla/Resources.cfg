SPECIFICATION Spec
CONSTANTS
  Decimal <- MCDecimal
  Rejoined <- MCRejoined
  Lexical <- MCLexical
  ClientOf <- MCClientOf
  MACOf <- MCMACOf
  Cidr <- MCCidr
  Slots <- MCSlots
  Clouds <- MCClouds
  Wanted <- MCWanted
  ConfWanted <- MCConfWanted
  NewIDs <- MCNewIDs
  Retouch <- MCRetouch
  Appear <- MCAppear
  Mixed = FALSE
  MaxEdits = 1
INVARIANTS NoPhantomDrift SecondApplyIsQuiet UntouchedIsAccepted
PROPERTIES OthersKept RolledBackReadsTheSame ConfigAuthoritative StaleIsRefused
CHECK_DEADLOCK FALSE
