SPECIFICATION Spec
CONSTANTS
  NumRetries = 3
  DefaultMax = 4
  StatedLimits = {0, 2}
  PayloadSizes = {2, 3, 5}
CHECK_DEADLOCK FALSE
INVARIANTS PersistsOnTransient ReferenceUploaded
PROPERTIES ImplementsDelivery
