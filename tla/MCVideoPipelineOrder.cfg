\* Two workers finish in any order: is rendering still ordered?
CONSTANTS
  Workers = {w1, w2}
  QueueSize = 2
  UseRknn = TRUE
  LoopVideo = TRUE
  Reconnect = FALSE
  Benchmark = FALSE
  BenchmarkFrames = 0
  MaxFrames = 5
SPECIFICATION Spec
SYMMETRY WorkerSymmetry
INVARIANTS
  RenderedInOrder
CHECK_DEADLOCK FALSE
