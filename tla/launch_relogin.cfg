SPECIFICATION FairSpec
CONSTANTS
  NAccounts = 2
  FileChecks = {"java", "lib"}
  NSessions = 1
  LoginType <- MixedTypes
  MaxLogins = 2
  MaxClicks = 2
  MaxToken = 3
INVARIANT TypeOK
INVARIANT LaunchOnce
INVARIANT NoLaunchAfterExit
PROPERTY SessionSettles
CHECK_DEADLOCK FALSE
