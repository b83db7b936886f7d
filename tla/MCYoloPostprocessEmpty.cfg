\* Nothing in front of the camera, and the shipped model.
CONSTANTS
  Inputs <- Empty
  ConfThreshold <- Conf
  NmsThreshold <- Nms45
SPECIFICATION Spec
INVARIANTS
  NothingInvented
CHECK_DEADLOCK FALSE
