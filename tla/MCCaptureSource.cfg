\* Files and streams under every option but loop_video on a stream; a link
\* goes down twice.
CONSTANTS
  Setups <- RecoveringSetups
  FileLength = 3
  MaxFrames = 4
  MaxOutages = 2
SPECIFICATION FairSpec
PROPERTIES
  Recovers
  MockNeverStarves
CHECK_DEADLOCK FALSE
