\* Files and command lines that interfere, two clients, a signal at any time.
CONSTANTS
  Clients = {c1, c2}
  StopFrom <- Started
  MaxFrames = 2
  IntValue <- Numbers
  TrueWords = {"true"}
  Readable <- Paths
  Inputs <- UserInputs
SPECIFICATION NvrFairSpec
INVARIANTS
  ConfigAsWritten
  ObjectsOutliveThreads
PROPERTIES
  ExitsWhenTold
  FeedIsLive
CHECK_DEADLOCK FALSE
