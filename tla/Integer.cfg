CONSTANTS
  ByteBits = 1
  F32Exponent = 1
  F64Exponent = 2
  MemBytes = 10
  IntRegs = 4
  FloatRegs = 0
  SyscallNumber = 3
  SyscallArgs <- MCSyscallArgs
  Syscall <- MCSyscall
  Fp <- MCFp
  HaveFma = FALSE
  LinkRegs = {1}
  Programs <- MCPrograms
  Options <- MCOptions
  Inputs <- MCInputs
  Memories <- MCMemories
  Splits <- MCSplits
  Junk = {0, 171}
SPECIFICATION Spec
INVARIANTS TypeOK SameResult DefinedBeforeUse MemoryOrdered FoldedOperands NoTwins
