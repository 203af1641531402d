SPECIFICATION Spec
CONSTANTS
  Unused = Unused
PROPERTIES EverythingSettles
CHECK_DEADLOCK FALSE
