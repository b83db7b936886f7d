\* A signal at any time, also before the server's thread has run.
CONSTANTS
  Clients = {c1}
  StopFrom <- ServerLabels
  MaxFrames = 0
  IntValue <- Numbers
  TrueWords = {"true"}
  Readable <- Paths
  Inputs <- NoInput
SPECIFICATION NvrFairSpec
PROPERTIES
  ExitsWhenTold
CHECK_DEADLOCK FALSE
