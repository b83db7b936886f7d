\* Three workers by the clamp (num_workers: 4), four frames between them.
CONSTANTS
  NumWorkers = 4
  UseAllCores = FALSE
  MaxFrames = 4
SPECIFICATION Spec
INVARIANTS
  OwnResult
  OutputsReleased
  NoUseAfterDestroy
  ContextsFreed
CHECK_DEADLOCK FALSE
