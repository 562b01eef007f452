SPECIFICATION Spec

CONSTANTS
  NumRegs = 5
  NumFloats = 3
  NumStatics = 3
  MaxSlots = 14
  CallRegs <- TheCallRegs
  Names <- SysNames
  Program <- Filled
  Options <- TheOptions

INVARIANTS
  InputsArrive
