------------------------------ MODULE MCFloat -------------------------------
(***************************************************************************)
(* Translation with floating point: bytes of three bits, so that the bits  *)
(* of FCLASS and of fcsr fit into 32 bits, numbers of 12 and 24 bits with  *)
(* exponents of 4 and 6, two integer and three floating point registers.   *)
(* What an instruction of the processor computes is left open, but for its *)
(* dependence on the rounding mode and its symmetry in the signs.          *)
(***************************************************************************)
EXTENDS Translation

I(m, rd, rs1, rs2, imm, rm) ==
  [mnem |-> m, rd |-> rd, rs1 |-> rs1, rs2 |-> rs2, rs3 |-> 2, imm |-> imm, rm |-> rm]

Placed(is) == [j \in DOMAIN is |-> [addr |-> 28 + 4 * j, next |-> 32 + 4 * j] @@ is[j]]

-----------------------------------------------------------------------------
(* The processor's arithmetic.                                             *)

Of(mode) == CASE mode = "nearest" -> 1 [] mode = "zero" -> 2 [] mode = "down" -> 3 [] mode = "up" -> 4

(* A number with the sign of neg that depends on the name, mode and moduli. *)
Mixed(t, name, mode, neg, a, b) ==
  ((name * 331 + 5 * a + 3 * b + Of(mode)) % Infinity(t)) + (IF neg THEN SignBit(t) ELSE 0)

Sum(t, mode, a, b) ==
  Mixed(t, IF Negative(t, a) = Negative(t, b) THEN 1 ELSE 2, mode, Negative(t, a), Modulus(t, a), Modulus(t, b))

Product(t, name, mode, a, b) ==
  Mixed(t, name, mode, Negative(t, a) # Negative(t, b), Modulus(t, a), Modulus(t, b))

(* A conversion stays below half of the range. *)
ToInt24(t, u, mode, x) ==
  LET n == (5 * Modulus(t, x) + Of(mode)) % (2 ^ 11) IN Word(u, IF Negative(t, x) THEN -n ELSE n)

MCFp(name, type, mode, x) ==
  CASE name = "add"     -> Sum(type, mode, x[1], x[2])
    [] name = "sub"     -> Sum(type, mode, x[1], Sign(type, x[2]))
    [] name = "fmul"    -> Product(type, 3, mode, x[1], x[2])
    [] name = "fdiv"    -> Product(type, 4, mode, x[1], x[2])
    [] name = "fsqrt"   -> Mixed(type, 5, mode, Negative(type, x[1]), Modulus(type, x[1]), 0)
    [] name = "resize"  -> Mixed(type, 6, mode, x[1] % 2 = 1, x[1] % 4001, 0)
    [] name = "fromint" -> LET s == Signed(x[1], x[2]) IN Mixed(type, 7, mode, s < 0, Magnitude(s), 0)
    [] name = "toint"   -> ToInt24(x[1], type, mode, x[2])

-----------------------------------------------------------------------------
(* Programs.                                                               *)

Patterns == {<<2, 0, 1>>, <<0, 0, 1>>, <<1, 0, 1>>, <<2, 1, 1>>}

(* FMSUBD adds in the interpreter, and the conversions of unsigned 64 bit  *)
(* integers differ.                                                        *)
Wide     == {"FCVTLUS", "FCVTLUD", "FCVTSLU", "FCVTDLU"}
Same3    == DOMAIN Fused \ {"FMSUBD"}
ToInts   == {m \in DOMAIN Conversions \ Wide : Conversions[m][3] \in Ints}
FromInts == {m \in DOMAIN Conversions \ Wide : Conversions[m][2] \in Ints}
Resizes  == {"FCVTSD", "FCVTDS"}

Computing ==
  {<<I(m, p[1], p[2], p[3], 0, 0)>> : m \in DOMAIN Floatings \cup Same3, p \in Patterns}
  \cup {<<I(m, 2, 0, 0, 0, 0)>> : m \in DOMAIN Roots \cup Resizes}
  \cup {<<I(m, rd, 0, 0, 0, rm)>> : m \in ToInts, rd \in {0, 2}, rm \in 0..4}
  \cup {<<I(m, 2, rs1, 0, 0, 0)>> : m \in FromInts, rs1 \in {0, 1}}

Patterned ==
  {<<I(m, p[1], p[2], p[3], 0, 0)>> : m \in DOMAIN Injections, p \in {<<2, 0, 1>>, <<0, 0, 1>>, <<1, 0, 1>>}}
  \cup {<<I(m, 2, 0, 0, 0, 0)>> : m \in {"FMVXW", "FMVXD"}}
  \cup {<<I(m, 2, rs1, 0, 0, 0)>> : m \in {"FMVWX", "FMVDX"}, rs1 \in {0, 1}}
  \cup {<<I(m, rd, 0, 1, 0, 0)>> : m \in DOMAIN Orders, rd \in {0, 2}}

Classing == {<<I(m, 2, 0, 0, 0, 0)>> : m \in DOMAIN Classes}

Memory ==
  {<<I(m, 2, 1, 0, c, 0)>> : m \in {"FLW", "FLD"}, c \in {0, 1}}
  \cup {<<I(m, 0, 1, 0, c, 0)>> : m \in {"FSW", "FSD"}, c \in {0, 1}}

(* All of fcsr is named by 3; its parts only where it is zero. *)
Csrs ==
  {<<I(m, rd, rs1, 0, 3, 0)>> : m \in {"CSRRW", "CSRRS", "CSRRC", "CSRRWI", "CSRRSI", "CSRRCI"},
                                rd \in {0, 2}, rs1 \in {0, 1}}

(* The second instruction reads what the first one computed, but no number *)
(* of 64 bits where the block has one of 32.                               *)
SingleFirsts ==
  {I("FADDS", 2, 0, 1, 0, 0), I("FLW", 2, 1, 0, 0, 0), I("FCVTSW", 2, 1, 0, 0, 0), I("FSGNJNS", 2, 0, 1, 0, 0),
   I("FMVWX", 2, 1, 0, 0, 0)}
WideFirsts ==
  {I("FMULD", 2, 0, 1, 0, 0), I("FLD", 2, 1, 0, 0, 0), I("FCVTDL", 2, 1, 0, 0, 0), I("FMVDX", 2, 1, 0, 0, 0)}
IntFirsts ==
  {I("FCVTWS", 2, 0, 0, 0, 0), I("FCVTLD", 2, 0, 0, 0, 0), I("FEQD", 2, 0, 1, 0, 0), I("CSRRW", 2, 1, 0, 3, 0)}
SingleSeconds ==
  {I("FSUBS", 0, 2, 1, 0, 0), I("FSW", 0, 1, 2, 0, 0), I("FCVTWS", 1, 2, 0, 0, 2), I("FLTS", 1, 2, 1, 0, 0),
   I("FSGNJXS", 2, 1, 2, 0, 0), I("FMADDS", 1, 2, 0, 0, 0), I("FMVXW", 1, 2, 0, 0, 0), I("FCVTDS", 2, 2, 0, 0, 0)}
WideSeconds ==
  {I("FADDD", 0, 2, 1, 0, 0), I("FSD", 0, 1, 2, 0, 0), I("FMVXD", 1, 2, 0, 0, 0), I("FCVTLD", 1, 2, 0, 0, 1),
   I("FSGNJXD", 2, 1, 2, 0, 0), I("FCVTSD", 1, 2, 0, 0, 0)}
IntSeconds ==
  {I("CSRRS", 1, 2, 0, 3, 0), I("FCVTDW", 0, 2, 0, 0, 0), I("FMVWX", 1, 2, 0, 0, 0), I("JALR", 0, 2, 0, 2, 0)}

Chains ==
  {<<i, j>> : i \in SingleFirsts \cup WideFirsts, j \in SingleSeconds}
  \cup {<<i, j>> : i \in WideFirsts, j \in WideSeconds}
  \cup {<<i, j>> : i \in IntFirsts, j \in IntSeconds}

Folds ==
  {<<I("ADDI", 2, 0, 0, c, 0), I(m, p[1], p[2], 0, 3, 0)>> :
     c \in {-1, 96}, m \in {"CSRRW", "CSRRS", "CSRRC"}, p \in {<<1, 2>>}}
  \cup {<<I("ADDI", 2, 0, 0, c, 0), I(m, 2, 2, 0, 0, 0)>> : c \in {-1, 96}, m \in FromInts \cup {"FMVWX", "FMVDX"}}

Single  == {Placed(is) : is \in Computing \cup Patterned \cup Memory \cup Csrs}
Classed == {Placed(is) : is \in Classing}
Chained == {Placed(is) : is \in Chains}
Folded  == {Placed(is) : is \in Folds}

MCPrograms == Single \cup Classed \cup Chained \cup Folded

MCOptions(is) == IF is \in Folded THEN {{"fold"}, {"fold", "dedup"}} ELSE {{}, {"fold", "dedup"}, {"unusedStatic"}}
MCSyscallArgs == <<1, 2>>
MCSyscall(args) == 0

-----------------------------------------------------------------------------
(* Numbers: zeros, a normal one, a subnormal one and an infinity of either *)
(* width, and one whose upper half would have to be ignored.               *)
Numbers == {0, 2048, 300, 2400, 5, 1920} \cup {2 ^ 23, 3 * 2 ^ 17 + 77, 2 ^ 23 + 2 ^ 17 + 3, 9, Infinity("f64"), 2 ^ 20 + 300}
Some    == {300, 2400, 2 ^ 23 + 5}

(* Every sign and exponent with mantissas at the borders of the classes. *)
AllClasses(t) ==
  {s * SignBit(t) + e * 2 ^ Mantissa(t) + m :
     s \in {0, 1}, e \in 0..(2 ^ Exponent(t) - 1), m \in {0, 1, 2 ^ (Mantissa(t) - 1), 2 ^ Mantissa(t) - 1}}

Csr == DOMAIN CsrWrites \cup DOMAIN CsrSets \cup DOMAIN CsrClears
OnIntegers == FromInts \cup {"FMVWX", "FMVDX", "FLW", "FLD", "FSW", "FSD", "ADDI", "JALR"} \cup Csr
Mnemonics(is) == {is[j].mnem : j \in DOMAIN is}

MCInputs(is) ==
  LET ints   == IF Mnemonics(is) \cap OnIntegers = {} THEN {3}
                ELSE IF Len(is) = 1 THEN {0, 1, 2, 32, 96, 224, 2048, 2 ^ 24 - 1} ELSE {0, 130}
      floats == IF Mnemonics(is) \ OnIntegers = {} THEN {300} ELSE IF Len(is) = 1 THEN Numbers ELSE Some
      fcsrs  == IF Mnemonics(is) \cap Csr = {} THEN {32} ELSE {0, 64, 224}
      first  == CASE Mnemonics(is) = {"FCLASSS"} -> AllClasses("f32")
                  [] Mnemonics(is) = {"FCLASSD"} -> AllClasses("f64")
                  [] OTHER -> floats
      second == IF \E j \in DOMAIN is : is[j].rs2 = 1 THEN floats ELSE {2400}
  IN  {[s \in Statics |-> CASE s = 1 -> v [] s = 2 -> 3 [] s = 3 -> 0 [] s = 4 -> f [] s = 5 -> g [] s = 6 -> 2 ^ 20 + 7
                            [] s = 7 -> c] : v \in ints, f \in first, g \in second, c \in fcsrs}
MCMemories(is) == {[a \in 0..(MemBytes - 1) |-> (3 * a + a \div 3) % 8]}
MCSplits(is) == is \in Chained
=============================================================================
