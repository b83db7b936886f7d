\* 2160 orders of six heads, the nine heads and five decoded layouts on 99
\* scenes, 672 combinations of sizes.
CONSTANTS
  Inputs <- SupportedInputs
  ConfThreshold <- Conf
  NmsThreshold <- Nms45
SPECIFICATION Spec
INVARIANTS
  HeadsPaired
  GreedySelection
  ReportsScene
  PictureFits
CHECK_DEADLOCK FALSE
