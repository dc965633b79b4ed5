SPECIFICATION Spec
CONSTANTS
  Tasks <- WithTasks
  Root = "whenComplete"
  Kind <- WithKind
  Before <- WithBefore
  After <- WithAfter
  Relying <- WithRelying
  Faulty = {"a"}
  Erring = {}
INVARIANT AssertionHolds
CHECK_DEADLOCK FALSE
