\* Two workers on queues of two: the mock detector's synthetic frames, a source
\* that ends the pipeline when a read fails, and a signal at any time.
CONSTANTS
  Workers = {w1, w2}
  QueueSize = 2
  UseRknn = FALSE
  LoopVideo = FALSE
  Reconnect = FALSE
  Benchmark = FALSE
  BenchmarkFrames = 0
  MaxFrames = 4
SPECIFICATION FairSpec
INVARIANTS
  TypeOK
  ReorderBufferBounded
  FrameInOnePlace
  EveryFrameAccounted
PROPERTIES
  ShutdownCompletes
  FramesMove
CHECK_DEADLOCK FALSE
