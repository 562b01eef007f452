CONSTANTS
  ByteBits = 3
  F32Exponent = 4
  F64Exponent = 6
  MemBytes = 12
  IntRegs = 3
  FloatRegs = 3
  SyscallNumber = 1
  SyscallArgs <- MCSyscallArgs
  Syscall <- MCSyscall
  Fp <- MCFp
  HaveFma = FALSE
  LinkRegs = {}
  Programs <- MCPrograms
  Options <- MCOptions
  Inputs <- MCInputs
  Memories <- MCMemories
  Splits <- MCSplits
  Junk = {2748}
SPECIFICATION Spec
INVARIANT SameResult
