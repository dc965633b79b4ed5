SPECIFICATION FairSpec
CONSTANTS
  Tasks <- InstallTasks
  Root = "whenComplete"
  Kind <- InstallKind
  Before <- InstallBefore
  After <- InstallAfter
  Relying <- InstallRelying
  Faulty = {"a", "b", "c", "d", "f", "whenComplete"}
  Erring = {"a", "b", "c", "d", "f", "whenComplete"}
INVARIANT TypeOK
INVARIANT TreeOrder
INVARIANT StopTrue
INVARIANT StopLast
PROPERTY CancelWins
PROPERTY StopHeard
CHECK_DEADLOCK FALSE
