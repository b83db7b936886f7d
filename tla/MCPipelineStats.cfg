\* A benchmark of two frames on a source that reconnects: one worker, queues of
\* one, three threads that update the stats.
CONSTANTS
  Workers = {w1}
  CaptureThread = capture
  RenderThread = render
  QueueSize = 1
  UseRknn = TRUE
  LoopVideo = FALSE
  Reconnect = TRUE
  Benchmark = TRUE
  BenchmarkFrames = 2
  MaxFrames = 3
SPECIFICATION StatsSpec
INVARIANTS
  ShownDropsHappened
  InferredBeforeRendered
  WorkerFramesAccounted
  BenchmarkExact
CHECK_DEADLOCK FALSE
