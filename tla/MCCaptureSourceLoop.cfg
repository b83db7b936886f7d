\* A stream under the options of config.yaml.
CONSTANTS
  Setups <- ShippedOnly
  FileLength = 3
  MaxFrames = 4
  MaxOutages = 2
SPECIFICATION FairSpec
PROPERTIES
  Recovers
CHECK_DEADLOCK FALSE
