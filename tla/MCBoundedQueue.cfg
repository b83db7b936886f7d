\* Three inference workers on one frame queue of two: num_workers and
\* queue_size as README.md recommends them for throughput.
CONSTANTS
  Consumers = {c1, c2, c3}
  MaxSize = 2
  MaxPushes = 4
SPECIFICATION FairSpec
INVARIANTS
  HoldsTheNewest
  EveryItemAccounted
  NoLostWakeup
PROPERTIES
  StopEndsConsumers
  ImplementsWindow
CHECK_DEADLOCK FALSE
