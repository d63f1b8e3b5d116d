SPECIFICATION Spec
CONSTANTS
  TrampolineSize = 10
  HeaderSize = 36
  StubSize = 10
  FlashSize = 15
  DispatcherSize = 20
  PayloadSizes = {2, 9, 17}
  Margins = {0, 5, 14}
  Seconds = {1, 2}
  Inputs <- MCInputs
  Options <- MCOptions
INVARIANTS
  MarginOnDisk
