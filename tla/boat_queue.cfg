SPECIFICATION FairSpec
CONSTANTS
  Producers = {ui, pad}
  Consumer = game
  Events = {a, b}
  Nodes = {n1, n2, n3}
  PipeSize = 2
  MaxPushes = 4
  WaitsFirst = TRUE
  MallocFails = TRUE
INVARIANT TypeOK
INVARIANT QueueMatchesPipe
INVARIANT ReadNeverBlocks
PROPERTY ChannelSpec
PROPERTY EventDelivered
CHECK_DEADLOCK FALSE
