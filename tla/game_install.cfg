SPECIFICATION FairSpec
CONSTANTS
  Selections <- Combinations
  TryTimes = 5
CHECK_DEADLOCK FALSE
INVARIANT TypeOK
INVARIANT JsonComplete
INVARIANT OneVerdict
INVARIANT LeftInstallsNothing
INVARIANT OneAtATime
INVARIANT LeftBuildsNothing
PROPERTY Settles
