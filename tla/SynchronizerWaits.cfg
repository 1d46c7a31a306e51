SPECIFICATION Spec
CONSTANTS
  WaitForAudio = TRUE
  Pressure = 5
  MaxHeap = 2
  InCap = 2
  OutCap = 1
  Stamps = {1, 2}
  MaxItems = 2
  None = None
PROPERTY MocapWaits
