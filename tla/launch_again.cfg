SPECIFICATION Spec
CONSTANTS
  NAccounts = 2
  FileChecks = {}
  NSessions = 2
  LoginType <- OnlineTypes
  MaxLogins = 2
  MaxClicks = 2
  MaxToken = 3
INVARIANT AccountsSafe
INVARIANT SelectedLaunched
INVARIANT LaunchTokenValid
CHECK_DEADLOCK FALSE
