SPECIFICATION Spec
CONSTANTS
  MaxRows = 3
  Inputs <- Flushes
  Given = Given
  None = None
  LoginOrgName = "A"
  Checked = TRUE
  ChunkSize = 2
  BatchMaxItems = 2
CHECK_DEADLOCK FALSE
INVARIANTS SameAsOneByOne LastRowHeld ErrorsReported OneCredential
PROPERTIES NeverStale
