SPECIFICATION Spec

CONSTANTS
  NumRegs = 5
  NumFloats = 3
  NumStatics = 3
  MaxSlots = 14
  CallRegs <- TheCallRegs
  Names <- TheNames
  Program <- Filled
  Options <- TheOptions

INVARIANTS
  InPlace
  InputsArrive
  FrameFits
  LabelsExist
