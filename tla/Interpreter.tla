---------------------------- MODULE Interpreter -----------------------------
(***************************************************************************)
(* The interpreter of the run time (helper/interpreter.cpp), which goes on *)
(* where no compiled block starts: one action per group of instructions.   *)
(***************************************************************************)
EXTENDS Ir

CONSTANT HaveFma   (* have_fma: the processor has fused multiplications. *)

VARIABLES regs,         (* register_file; the memory token's is not used.   *)
          memory,
          pc,
          mxcsr,        (* The rounding mode the processor has,             *)
          curRounding,  (* and the field it was last set for.               *)
          fault         (* The processor or panic stopped the program.      *)

interpreterVars == <<regs, memory, pc, mxcsr, curRounding, fault>>

-----------------------------------------------------------------------------
(* Instructions and their operands.                                        *)

Here   == {j \in DOMAIN program : program[j].addr = pc}
Instr  == program[CHOOSE j \in Here : TRUE]
On(mnemonics) == ~fault /\ Here # {} /\ Instr.mnem \in mnemonics

A(i)      == regs[i.rs1]
B(i)      == regs[i.rs2]
Offset(i) == Word("i64", i.imm)    (* sign_extend_int64_t(instr.imm) *)
FA(i, t)  == Word(t, regs[Float(i.rs1)])
FB(i, t)  == Word(t, regs[Float(i.rs2)])
FC(i, t)  == Word(t, regs[Float(i.rs3)])
Flag(c)   == IF c THEN 1 ELSE 0
I64(x)    == Word("i64", x)
(* Mutant: a negative result is not turned into a register. *)
Sext32Signed(x) == Signed("i32", x)

Sext32(x) == Extend("i32", "i64", x)

SetReg(i, x) == IF i.rd = 0 THEN regs ELSE [regs EXCEPT ![i.rd] = x]

Goes(i)      == pc' = i.next
SameModes    == UNCHANGED <<mxcsr, curRounding>>
SameMemory   == UNCHANGED memory
Runs         == UNCHANGED fault
Faults       == fault' = TRUE /\ UNCHANGED <<regs, memory, pc, mxcsr, curRounding>>

(* An instruction that computes x for its destination. *)
Computes(i, x) == regs' = SetReg(i, x) /\ Goes(i) /\ SameMemory /\ SameModes /\ Runs

-----------------------------------------------------------------------------
(* Arithmetic, comparisons, logic and shifts.                              *)

InterpretArithmetic ==
  /\ On({"ADDI", "ADDIW", "ADD", "ADDW", "SUB", "SUBW"})
  /\ LET i == Instr IN
     Computes(i, CASE i.mnem = "ADDI"  -> I64(A(i) + Offset(i))
                   [] i.mnem = "ADDIW" -> Sext32(A(i) + i.imm)
                   [] i.mnem = "ADD"   -> I64(A(i) + B(i))
                   [] i.mnem = "ADDW"  -> Sext32(A(i) + B(i))
                   [] i.mnem = "SUB"   -> I64(A(i) - B(i))
                   [] i.mnem = "SUBW"  -> Sext32(A(i) - B(i)))

InterpretSetLess ==
  /\ On({"SLTI", "SLTIU", "SLT", "SLTU"})
  /\ LET i == Instr
         b == IF i.mnem \in {"SLTI", "SLTIU"} THEN Offset(i) ELSE B(i)
     IN  Computes(i, Flag(IF i.mnem \in {"SLTI", "SLT"} THEN Signed("i64", A(i)) < Signed("i64", b)
                                                        ELSE A(i) < b))

InterpretLogic ==
  /\ On({"ANDI", "ORI", "XORI", "AND", "OR", "XOR"})
  /\ LET i == Instr
         b == IF i.mnem \in {"ANDI", "ORI", "XORI"} THEN Offset(i) ELSE B(i)
     IN  Computes(i, CASE i.mnem \in {"ANDI", "AND"} -> And("i64", A(i), b)
                       [] i.mnem \in {"ORI", "OR"}   -> Or("i64", A(i), b)
                       [] i.mnem \in {"XORI", "XOR"} -> Xor("i64", A(i), b))

InterpretShift ==
  /\ On({"SLLI", "SRLI", "SRAI", "SLLIW", "SRLIW", "SRAIW", "SLL", "SRL", "SRA", "SLLW", "SRLW", "SRAW"})
  /\ LET i == Instr
         n == IF i.mnem \in {"SLLI", "SRLI", "SRAI", "SLLIW", "SRLIW", "SRAIW"} THEN i.imm ELSE B(i)
     IN  Computes(i, CASE i.mnem \in {"SLLI", "SLL"}   -> Shl("i64", A(i), n)
                       [] i.mnem \in {"SRLI", "SRL"}   -> Shr("i64", A(i), n)
                       [] i.mnem \in {"SRAI", "SRA"}   -> Sar("i64", A(i), n)
                       [] i.mnem \in {"SLLIW", "SLLW"} -> Sext32(Shl("i32", A(i), n))
                       [] i.mnem \in {"SRLIW", "SRLW"} -> Sext32(Shr("i32", A(i), n))
                       [] i.mnem \in {"SRAIW", "SRAW"} -> Sext32(Sar("i32", A(i), n)))

InterpretUpper ==
  /\ On({"LUI", "AUIPC"})
  /\ LET i == Instr IN
     Computes(i, IF i.mnem = "LUI" THEN Offset(i) ELSE I64(pc + Offset(i)))

-----------------------------------------------------------------------------
(* Control transfer.                                                       *)

JumpTo(i, x, target) ==
  /\ regs' = SetReg(i, x)
  /\ pc' = target
  /\ SameMemory /\ SameModes /\ Runs

InterpretJump ==
  /\ On({"JAL", "JALR"})
  /\ LET i == Instr IN
     JumpTo(i, i.next, IF i.mnem = "JAL" THEN pc + i.imm
                       ELSE And("i64", A(i) + Offset(i), Pow("i64") - 2))

InterpretBranch ==
  /\ On({"BEQ", "BNE", "BLT", "BLTU", "BGE", "BGEU"})
  /\ LET i     == Instr
         less  == Signed("i64", A(i)) < Signed("i64", B(i))
         taken == CASE i.mnem = "BEQ"  -> A(i) = B(i)
                    [] i.mnem = "BNE"  -> A(i) # B(i)
                    [] i.mnem = "BLT"  -> less
                    [] i.mnem = "BGE"  -> ~less
                    [] i.mnem = "BLTU" -> A(i) < B(i)
                    [] i.mnem = "BGEU" -> A(i) >= B(i)
     IN  pc' = IF taken THEN pc + i.imm ELSE i.next
  /\ UNCHANGED regs /\ SameMemory /\ SameModes /\ Runs

(* The first argument's register gets the result. *)
InterpretEcall ==
  /\ On({"ECALL"})
  /\ LET args == <<regs[SyscallNumber]>> \o [j \in DOMAIN SyscallArgs |-> regs[SyscallArgs[j]]] IN
     regs' = [regs EXCEPT ![SyscallArgs[1]] = Syscall(args)]
  /\ Goes(Instr)
  /\ SameMemory /\ SameModes /\ Runs

InterpretFence ==
  /\ On({"FENCE", "FENCEI"})
  /\ Goes(Instr)
  /\ UNCHANGED regs /\ SameMemory /\ SameModes /\ Runs

-----------------------------------------------------------------------------
(* Memory.                                                                 *)

Address(i) == I64(A(i) + Offset(i))

StoresWord(addr, t, x) ==
  IF Within(addr, Bytes(t))
  THEN memory' = Stored(memory, addr, Bytes(t), x) /\ Goes(Instr) /\ UNCHANGED regs /\ SameModes /\ Runs
  ELSE Faults

InterpretStore ==
  /\ On({"SD", "SW", "SH", "SB", "FSW", "FSD"})
  /\ LET i == Instr IN
     CASE i.mnem = "SD"  -> StoresWord(Address(i), "i64", B(i))
       [] i.mnem = "SW"  -> StoresWord(Address(i), "i32", B(i))
       [] i.mnem = "SH"  -> StoresWord(Address(i), "i16", B(i))
       [] i.mnem = "SB"  -> StoresWord(Address(i), "i8", B(i))
       [] i.mnem = "FSW" -> StoresWord(Address(i), "f32", FB(i, "f32"))
       [] i.mnem = "FSD" -> StoresWord(Address(i), "f64", FB(i, "f64"))

(* What is at addr as a t, read by read; x0 is not loaded at all. *)
Loads64(i, addr, t, read(_)) ==
  CASE i.rd = 0                       -> Computes(i, 0)
    [] i.rd # 0 /\ Within(addr, Bytes(t))  -> Computes(i, read(Loaded(memory, addr, Bytes(t))))
    [] i.rd # 0 /\ ~Within(addr, Bytes(t)) -> Faults

LoadType == [LD |-> "i64", LW |-> "i32", LWU |-> "i32", LH |-> "i16", LHU |-> "i16", LB |-> "i8", LBU |-> "i8"]

InterpretLoad ==
  /\ On(DOMAIN LoadType)
  /\ LET i       == Instr
         t       == LoadType[i.mnem]
         read(x) == IF i.mnem \in {"LWU", "LHU", "LBU"} THEN x ELSE Extend(t, "i64", x)
     IN  Loads64(i, Address(i), t, read)

InterpretFloatLoad ==
  /\ On({"FLW", "FLD"})
  /\ LET i == Instr
         t == IF i.mnem = "FLW" THEN "f32" ELSE "f64"
     IN  IF Within(Address(i), Bytes(t))
         THEN /\ regs' = [regs EXCEPT ![Float(i.rd)] = Loaded(memory, Address(i), Bytes(t))]
              /\ Goes(i) /\ SameMemory /\ SameModes /\ Runs
         ELSE Faults

-----------------------------------------------------------------------------
(* Products and quotients.  The processor stops on a division by zero and  *)
(* on one that overflows.                                                  *)

InterpretProduct ==
  /\ On({"MUL", "MULW", "MULH", "MULHU", "MULHSU"})
  /\ LET i == Instr IN
     Computes(i, CASE i.mnem = "MUL"    -> I64(A(i) * B(i))
                   [] i.mnem = "MULW"   -> Sext32(Signed("i32", A(i)) * Signed("i32", B(i)))
                   [] i.mnem = "MULH"   -> High("i64", Signed("i64", A(i)) * Signed("i64", B(i)))
                   [] i.mnem = "MULHU"  -> High("i64", A(i) * B(i))
                   [] i.mnem = "MULHSU" -> High("i64", Signed("i64", A(i)) * B(i)))

InterpretDivision ==
  /\ On({"DIV", "DIVU", "DIVW", "DIVUW", "REM", "REMU", "REMW", "REMUW"})
  /\ LET i      == Instr
         t      == IF i.mnem \in {"DIVW", "DIVUW", "REMW", "REMUW"} THEN "i32" ELSE "i64"
         signed == i.mnem \in {"DIV", "DIVW", "REM", "REMW"}
         a      == IF signed THEN Signed(t, A(i)) ELSE Word(t, A(i))
         b      == IF signed THEN Signed(t, B(i)) ELSE Word(t, B(i))
     IN  IF i.rd # 0 /\ (b = 0 \/ (signed /\ a = -(Pow(t) \div 2) /\ b = -1)) THEN Faults
         ELSE Computes(i, IF i.rd = 0 THEN 0
                          ELSE Extend(t, "i64", IF i.mnem \in {"DIV", "DIVU", "DIVW", "DIVUW"}
                                                THEN Quotient(a, b) ELSE Remainder(a, b)))

-----------------------------------------------------------------------------
(* Atomic operations, which are not atomic.                                *)

InterpretReserve ==
  /\ On({"LRW", "LRD"})
  /\ LET i       == Instr
         t       == IF i.mnem = "LRW" THEN "i32" ELSE "i64"
         read(x) == Extend(t, "i64", x)
     IN  Loads64(i, A(i), t, read)

InterpretConditional ==
  /\ On({"SCW", "SCD"})
  /\ LET i == Instr
         t == IF i.mnem = "SCW" THEN "i32" ELSE "i64"
     IN  IF Within(A(i), Bytes(t))
         THEN /\ memory' = Stored(memory, A(i), Bytes(t), B(i))
              /\ regs' = SetReg(i, 0)
              /\ Goes(i) /\ SameModes /\ Runs
         ELSE Faults

(* The operation, the type of the memory and whether its order is signed. *)
Amos ==
  [AMOSWAPW |-> <<"swap", "i32">>, AMOSWAPD |-> <<"swap", "i64">>, AMOADDW |-> <<"add", "i32">>,
   AMOADDD  |-> <<"add", "i64">>,  AMOANDW  |-> <<"and", "i32">>,  AMOANDD |-> <<"and", "i64">>,
   AMOORW   |-> <<"or", "i32">>,   AMOORD   |-> <<"or", "i64">>,   AMOXORW |-> <<"xor", "i32">>,
   AMOXORD  |-> <<"xor", "i64">>,  AMOMAXW  |-> <<"max", "i32">>,  AMOMAXD |-> <<"max", "i64">>,
   AMOMAXUW |-> <<"umax", "i32">>, AMOMAXUD |-> <<"umax", "i64">>, AMOMINW |-> <<"min", "i32">>,
   AMOMIND  |-> <<"min", "i64">>,  AMOMINUW |-> <<"umin", "i32">>, AMOMINUD |-> <<"umin", "i64">>]

AmoResult(op, t, x, y) ==
  LET signed(z) == Signed(t, z)
      plain(z)  == z
  IN
  CASE op = "swap" -> y
    [] op = "add"  -> Word(t, x + y)
    [] op = "and"  -> And(t, x, y)
    [] op = "or"   -> Or(t, x, y)
    [] op = "xor"  -> Xor(t, x, y)
    [] op = "max"  -> IF signed(x) > signed(y) THEN x ELSE y
    [] op = "min"  -> IF signed(x) < signed(y) THEN x ELSE y
    [] op = "umax" -> IF plain(x) > plain(y) THEN x ELSE y
    [] op = "umin" -> IF plain(x) < plain(y) THEN x ELSE y

(* AMO_OP: what was loaded counts as 32 bits, and the operand of the       *)
(* operation is the destination register, even x0.                         *)
InterpretAmo ==
  /\ On(DOMAIN Amos)
  /\ LET i      == Instr
         op     == Amos[i.mnem][1]
         t      == Amos[i.mnem][2]
         y      == Word(t, B(i))
         loaded == Sext32(Loaded(memory, A(i), Bytes(t)))
         x      == Word(t, IF i.rd = 0 THEN 0 ELSE loaded)
     IN  IF Within(A(i), Bytes(t))
         THEN /\ regs' = SetReg(i, loaded)
              /\ memory' = Stored(memory, A(i), Bytes(t), AmoResult(op, t, x, y))
              /\ Goes(i) /\ SameModes /\ Runs
         ELSE Faults

-----------------------------------------------------------------------------
(* fcsr.                                                                   *)

(* CSR_OP: all three indices name the whole register; the exception flags  *)
(* are cleared.                                                            *)
InterpretCsr ==
  /\ On({"CSRRW", "CSRRS", "CSRRC", "CSRRWI", "CSRRSI", "CSRRCI"})
  /\ LET i   == Instr
         old == regs[Fcsr]
         src == Word("i32", IF i.mnem \in {"CSRRW", "CSRRS", "CSRRC"} THEN A(i) ELSE i.rs1)
         new == CASE i.mnem \in {"CSRRW", "CSRRWI"} -> src
                  [] i.mnem \in {"CSRRS", "CSRRSI"} -> Or("i32", old, src)
                  [] i.mnem \in {"CSRRC", "CSRRCI"} -> And("i32", old, Not("i32", src))
     IN  regs' = [SetReg(i, old) EXCEPT ![Fcsr] = And("i32", new, 224)]
  /\ Goes(Instr)
  /\ SameMemory /\ SameModes /\ Runs

(* evaluate_rounding_mode; the dynamic one is fcsr's. *)
Evaluated(rm) ==
  LET dynamic == (regs[Fcsr] \div 32) % 8
      field   == IF rm = 7 THEN dynamic ELSE rm
  IN  CASE field \in {0, 4} -> "nearest" [] field = 1 -> "zero" [] field = 2 -> "down"
        [] field = 3 -> "up" [] OTHER -> "panic"

(* Mutant: the mode is not changed. *)
RoundingKept(rm) == mxcsr

(* set_rounding_mode: the processor's mode is left as it is when the field *)
(* is that of the last instruction.                                        *)
Rounding(rm) == IF rm = curRounding THEN mxcsr ELSE Evaluated(rm)

(* An instruction that sets the rounding mode of its field, and then       *)
(* writes what value says of that mode to register r, 0 for none.          *)
Rounds(i, r, value(_)) ==
  LET mode == Rounding(i.rm) IN
  IF mode = "panic" THEN Faults
  ELSE /\ regs' = IF r = 0 THEN regs ELSE [regs EXCEPT ![r] = value(mode)]
       /\ mxcsr' = mode
       /\ curRounding' = i.rm
       /\ Goes(i) /\ SameMemory /\ Runs

-----------------------------------------------------------------------------
(* Floating point.  A result of 32 bits is kept with zeros above it.       *)

(* Name and type. *)
TwoOps ==
  [FADDS |-> <<"add", "f32">>, FADDD |-> <<"add", "f64">>, FSUBS |-> <<"sub", "f32">>,
   FSUBD |-> <<"sub", "f64">>, FMULS |-> <<"fmul", "f32">>, FMULD |-> <<"fmul", "f64">>,
   FDIVS |-> <<"fdiv", "f32">>, FDIVD |-> <<"fdiv", "f64">>, FMINS |-> <<"min", "f32">>,
   FMIND |-> <<"min", "f64">>, FMAXS |-> <<"max", "f32">>, FMAXD |-> <<"max", "f64">>]

InterpretTwoOps ==
  /\ On(DOMAIN TwoOps)
  /\ LET i  == Instr
         op == TwoOps[i.mnem][1]
         t  == TwoOps[i.mnem][2]
         value(mode) ==
           CASE op = "min" -> IF Order(t, FA(i, t), FB(i, t)) = "less" THEN FA(i, t) ELSE FB(i, t)
             [] op = "max" -> IF Order(t, FA(i, t), FB(i, t)) = "greater" THEN FA(i, t) ELSE FB(i, t)
             [] OTHER      -> Fp(op, t, mode, <<FA(i, t), FB(i, t)>>)
     IN  Rounds(i, Float(i.rd), value)

InterpretRoot ==
  /\ On({"FSQRTS", "FSQRTD"})
  /\ LET i == Instr
         t == IF i.mnem = "FSQRTS" THEN "f32" ELSE "f64"
         value(mode) == Fp("fsqrt", t, mode, <<FA(i, t)>>)
     IN  Rounds(i, Float(i.rd), value)

(* Without fused multiplications FMSUBD adds. *)
FusedOp(m, t, mode, a, b, c) ==
  LET fp(op, x, y) == Fp(op, t, mode, <<x, y>>) IN
  CASE HaveFma -> Fp(m, t, mode, <<a, b, c>>)
    [] ~HaveFma /\ m \in {"FMADDS", "FMADDD", "FMSUBD"} -> fp("add", fp("fmul", a, b), c)
    [] ~HaveFma /\ m = "FMSUBS"               -> fp("sub", fp("fmul", a, b), c)
    [] ~HaveFma /\ m \in {"FNMADDS", "FNMADDD"} -> Sign(t, fp("add", fp("fmul", a, b), c))
    [] ~HaveFma /\ m \in {"FNMSUBS", "FNMSUBD"} -> fp("add", fp("fmul", Sign(t, a), b), c)

InterpretFusedS ==
  /\ On({"FMADDS", "FMSUBS", "FNMADDS", "FNMSUBS"})
  /\ LET i == Instr
         value(mode) == FusedOp(i.mnem, "f32", mode, FA(i, "f32"), FB(i, "f32"), FC(i, "f32"))
     IN  Rounds(i, Float(i.rd), value)

InterpretFusedD ==
  /\ On({"FMADDD", "FMSUBD", "FNMADDD", "FNMSUBD"})
  /\ LET i == Instr
         value(mode) == FusedOp(i.mnem, "f64", mode, FA(i, "f64"), FB(i, "f64"), FC(i, "f64"))
     IN  Rounds(i, Float(i.rd), value)

(* Conversion of a t to an integer of type u, nothing at all for x0.  A    *)
(* negative number becomes an unsigned zero; FCVTLUS looks for its sign in *)
(* a half of the union that was not written.                               *)
ToInteger(i, t, u, unsigned) ==
  \E forced \in IF ~unsigned THEN {FALSE} ELSE
                IF t = "f32" /\ u = "i64" THEN BOOLEAN ELSE {Negative(t, FA(i, t))} :
    LET value(mode) ==
          CASE forced    -> 0
            [] ~forced /\ unsigned  -> Word(u, Fp("toint", u, mode, <<t, FA(i, t)>>))
            [] ~forced /\ ~unsigned -> Extend(u, "i64", Fp("toint", u, mode, <<t, FA(i, t)>>))
    IN  IF i.rd = 0 THEN Computes(i, 0) ELSE Rounds(i, i.rd, value)

InterpretToIntegerS ==
  \/ On({"FCVTWS"})  /\ ToInteger(Instr, "f32", "i32", FALSE)
  \/ On({"FCVTWUS"}) /\ ToInteger(Instr, "f32", "i32", TRUE)
  \/ On({"FCVTLS"})  /\ ToInteger(Instr, "f32", "i64", FALSE)
  \/ On({"FCVTLUS"}) /\ ToInteger(Instr, "f32", "i64", TRUE)

InterpretToIntegerD ==
  \/ On({"FCVTWD"})  /\ ToInteger(Instr, "f64", "i32", FALSE)
  \/ On({"FCVTWUD"}) /\ ToInteger(Instr, "f64", "i32", TRUE)
  \/ On({"FCVTLD"})  /\ ToInteger(Instr, "f64", "i64", FALSE)
  \/ On({"FCVTLUD"}) /\ ToInteger(Instr, "f64", "i64", TRUE)

(* Of an integer of type u; the compiler halves an unsigned one that looks *)
(* negative.                                                               *)
FromInteger(i, t, u, unsigned) ==
  LET x    == Word(u, A(i))
      half == Or("i64", x \div 2, x % 2)
      value(mode) ==
        CASE ~unsigned -> Fp("fromint", t, mode, <<u, x>>)
          [] unsigned /\ (u = "i32" \/ Signed("i64", x) >= 0) -> Fp("fromint", t, mode, <<"i64", x>>)
          [] unsigned /\ u = "i64" /\ Signed("i64", x) < 0 ->
               LET h == Fp("fromint", t, mode, <<"i64", half>>) IN Fp("add", t, mode, <<h, h>>)
  IN  Rounds(i, Float(i.rd), value)

InterpretFromIntegerS ==
  \/ On({"FCVTSW"})  /\ FromInteger(Instr, "f32", "i32", FALSE)
  \/ On({"FCVTSWU"}) /\ FromInteger(Instr, "f32", "i32", TRUE)
  \/ On({"FCVTSL"})  /\ FromInteger(Instr, "f32", "i64", FALSE)
  \/ On({"FCVTSLU"}) /\ FromInteger(Instr, "f32", "i64", TRUE)

InterpretFromIntegerD ==
  \/ On({"FCVTDW"})  /\ FromInteger(Instr, "f64", "i32", FALSE)
  \/ On({"FCVTDWU"}) /\ FromInteger(Instr, "f64", "i32", TRUE)
  \/ On({"FCVTDL"})  /\ FromInteger(Instr, "f64", "i64", FALSE)
  \/ On({"FCVTDLU"}) /\ FromInteger(Instr, "f64", "i64", TRUE)

InterpretResize ==
  /\ On({"FCVTDS", "FCVTSD"})
  /\ LET i == Instr
         t == IF i.mnem = "FCVTDS" THEN "f32" ELSE "f64"
         value(mode) == Fp("resize", IF t = "f32" THEN "f64" ELSE "f32", mode, <<FA(i, t)>>)
     IN  Rounds(i, Float(i.rd), value)

-----------------------------------------------------------------------------
(* Instructions that look at the bits only.                                *)

ComputesFloat(i, x) ==
  /\ regs' = [regs EXCEPT ![Float(i.rd)] = x]
  /\ Goes(i) /\ SameMemory /\ SameModes /\ Runs

InterpretMove ==
  LET i == Instr IN
  \/ On({"FMVXW"}) /\ Computes(i, Sext32(FA(i, "f32")))
  \/ On({"FMVWX"}) /\ ComputesFloat(i, Word("i32", A(i)))
  \/ On({"FMVXD"}) /\ Computes(i, FA(i, "f64"))
  \/ On({"FMVDX"}) /\ ComputesFloat(i, A(i))

InjectionType ==
  [FSGNJS |-> "f32", FSGNJNS |-> "f32", FSGNJXS |-> "f32",
   FSGNJD |-> "f64", FSGNJND |-> "f64", FSGNJXD |-> "f64"]

(* A number of 32 bits that is only copied brings along what is above it. *)
InterpretInjection ==
  /\ On(DOMAIN InjectionType)
  /\ LET i    == Instr
         t    == InjectionType[i.mnem]
         a    == Negative(t, FA(i, t))
         b    == Negative(t, FB(i, t))
         sign == CASE i.mnem \in {"FSGNJS", "FSGNJD"}   -> b
                   [] i.mnem \in {"FSGNJNS", "FSGNJND"} -> ~b
                   [] i.mnem \in {"FSGNJXS", "FSGNJXD"} -> a # b
     IN  ComputesFloat(i, IF i.rs1 = i.rs2 /\ i.mnem = "FSGNJS" THEN regs[Float(i.rs1)]
                          ELSE Modulus(t, FA(i, t)) + (IF sign THEN SignBit(t) ELSE 0))

(* What is unordered is neither less nor equal. *)
InterpretOrder ==
  /\ On({"FLTS", "FLTD", "FLES", "FLED", "FEQS", "FEQD"})
  /\ LET i     == Instr
         t     == IF i.mnem \in {"FLTS", "FLES", "FEQS"} THEN "f32" ELSE "f64"
         order == Order(t, FA(i, t), FB(i, t))
     IN  Computes(i, Flag(CASE i.mnem \in {"FLTS", "FLTD"} -> order = "less"
                            [] i.mnem \in {"FLES", "FLED"} -> order \in {"less", "equal"}
                            [] i.mnem \in {"FEQS", "FEQD"} -> order = "equal"))

(* The bit of the class of a number. *)
ClassBit(t, x) ==
  LET exponent == Modulus(t, x) \div 2 ^ Mantissa(t)
      mantissa == x % 2 ^ Mantissa(t)
      negative == Negative(t, x)
      normal   == exponent # 0 /\ exponent # 2 ^ Exponent(t) - 1
      tiny     == exponent = 0 /\ mantissa # 0
  IN
  CASE x = SignBit(t) + Infinity(t) -> 0
    [] normal /\ negative           -> 1
    [] tiny /\ negative             -> 2
    [] x = SignBit(t)               -> 3
    [] x = 0                        -> 4
    [] tiny /\ ~negative            -> 5
    [] normal /\ ~negative          -> 6
    [] x = Infinity(t)              -> 7
    [] IsNan(t, x) /\ ~Quiet(t, x)  -> 8
    [] IsNan(t, x) /\ Quiet(t, x)   -> 9

InterpretClassS ==
  On({"FCLASSS"}) /\ Computes(Instr, 2 ^ ClassBit("f32", FA(Instr, "f32")))
InterpretClassD ==
  On({"FCLASSD"}) /\ Computes(Instr, 2 ^ ClassBit("f64", FA(Instr, "f64")))

-----------------------------------------------------------------------------
(* The handler is entered with the mode it last set forgotten.             *)

InterpreterStart(statics, mem, at) ==
  /\ regs' = [r \in 0..LastStatic |-> IF r = 0 THEN 0 ELSE statics[r]]
  /\ memory' = mem
  /\ pc' = at
  /\ mxcsr' = "nearest"
  /\ curRounding' = 0
  /\ fault' = FALSE

InterpretInteger ==
  \/ InterpretArithmetic \/ InterpretSetLess \/ InterpretLogic \/ InterpretShift \/ InterpretUpper
  \/ InterpretStore \/ InterpretLoad \/ InterpretFence \/ InterpretProduct \/ InterpretDivision
  \/ InterpretReserve \/ InterpretConditional \/ InterpretAmo

InterpretFloat ==
  \/ InterpretCsr \/ InterpretFloatLoad \/ InterpretTwoOps \/ InterpretRoot \/ InterpretFusedS
  \/ InterpretFusedD \/ InterpretToIntegerS \/ InterpretToIntegerD \/ InterpretFromIntegerS
  \/ InterpretFromIntegerD \/ InterpretResize \/ InterpretMove \/ InterpretInjection
  \/ InterpretOrder \/ InterpretClassS \/ InterpretClassD

InterpretControl == InterpretJump \/ InterpretBranch \/ InterpretEcall

InterpreterNext == InterpretInteger \/ InterpretFloat \/ InterpretControl

(* The program ran to its end, or was stopped. *)
Interpreted == fault \/ Here = {}
=============================================================================
