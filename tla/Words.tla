------------------------------- MODULE Words --------------------------------
(***************************************************************************)
(* The arithmetic of the types of the intermediate representation          *)
(* (ir/type.h): fixed width words, kept as their unsigned value, and       *)
(* floating point patterns.  A byte has ByteBits bits, 8 in the code, and  *)
(* every other width is the code's multiple of it, so that carries, sign   *)
(* bits, shift masks and truncations meet at the same places.              *)
(***************************************************************************)
EXTENDS Integers, Sequences, FiniteSets

CONSTANTS ByteBits,
          F32Exponent,  (* Bits of the exponent of an f32, 8 in the code,   *)
          F64Exponent,  (* and of an f64, 11 in the code.                   *)
          MemBytes,     (* The memory that may be accessed.                 *)
          Fp(_, _, _, _)   (* The result of a floating point instruction of *)
                        (* the processor: its name, the type of the result, *)
                        (* the rounding mode and the operands.              *)

Ints   == {"i64", "i32", "i16", "i8"}
Floats == {"f64", "f32"}
Types  == Ints \cup Floats \cup {"imm", "mt"}

Bytes(t) == CASE t \in {"i64", "f64", "imm"} -> 8
              [] t \in {"i32", "f32"}        -> 4
              [] t = "i16"                   -> 2
              [] t = "i8"                    -> 1

Width(t) == ByteBits * Bytes(t)

ASSUME WordsAssumption ==
  /\ ByteBits \in Nat \ {0} /\ F32Exponent \in Nat \ {0} /\ F64Exponent \in Nat \ {0}
  /\ MemBytes \in Nat
  /\ F32Exponent + 2 < Width("f32") /\ F64Exponent + 2 < Width("f64")

Pow(t) == 2 ^ Width(t)

(* A value as a word of type t, and the number that word is read as.       *)
Word(t, x)   == x % Pow(t)
Signed(t, x) == LET w == Word(t, x) IN IF 2 * w < Pow(t) THEN w ELSE w - Pow(t)

(* A word of type t that becomes one of the wider type u by its sign.      *)
Extend(t, u, x) == Word(u, Signed(t, x))

-----------------------------------------------------------------------------
(* Bits.                                                                   *)

Bit(x, i) == (x \div 2 ^ i) % 2

(* The word of w bits whose i-th bit is b[i].                              *)
FromBits(w, b) ==
  LET up[i \in 0..w] == IF i = 0 THEN 0 ELSE up[i - 1] + b[i - 1] * 2 ^ (i - 1) IN up[w]

And(t, x, y) == FromBits(Width(t), [i \in 0..(Width(t) - 1) |-> Bit(x, i) * Bit(y, i)])
Or(t, x, y)  == Word(t, x) + Word(t, y) - And(t, x, y)
Xor(t, x, y) == Word(t, x) + Word(t, y) - 2 * And(t, x, y)
Not(t, x)    == Pow(t) - 1 - Word(t, x)

(* Shifts use the low bits of the amount that can count to the width - 1.  *)
Amount(t, n)   == n % Width(t)
Shl(t, x, n)   == Word(t, Word(t, x) * 2 ^ Amount(t, n))
Shr(t, x, n)   == Word(t, x) \div 2 ^ Amount(t, n)
Sar(t, x, n)   == Word(t, Signed(t, x) \div 2 ^ Amount(t, n))

-----------------------------------------------------------------------------
(* The halves of a product, and division that truncates.                   *)

High(t, p) == Word(t, p \div Pow(t))

Magnitude(i) == IF i < 0 THEN -i ELSE i
Quotient(a, b) ==
  LET q == Magnitude(a) \div Magnitude(b) IN IF (a < 0) = (b < 0) THEN q ELSE -q
Remainder(a, b) == a - b * Quotient(a, b)

(* The least and the greatest of two words read by the function read.      *)
Least(a, b, read(_))    == IF read(b) < read(a) THEN b ELSE a
Greatest(a, b, read(_)) == IF read(b) > read(a) THEN b ELSE a

-----------------------------------------------------------------------------
(* Floating point patterns: sign, exponent and mantissa.                   *)

Exponent(t) == IF t = "f32" THEN F32Exponent ELSE F64Exponent
Mantissa(t) == Width(t) - 1 - Exponent(t)
IntOf(t)    == IF t = "f32" THEN "i32" ELSE "i64"

SignBit(t)      == 2 ^ (Width(t) - 1)
Infinity(t)     == (2 ^ Exponent(t) - 1) * 2 ^ Mantissa(t)
ExponentMask(t) == Infinity(t)
MantissaMask(t) == 2 ^ Mantissa(t) - 1

Negative(t, x) == x >= SignBit(t)
Modulus(t, x)  == x % SignBit(t)
IsNan(t, x)    == Modulus(t, x) > Infinity(t)
Quiet(t, x)    == Bit(x, Mantissa(t) - 1) = 1

(* The order of two patterns that are numbers; both zeros are equal.       *)
Rank(t, x) == IF Negative(t, x) THEN -Modulus(t, x) ELSE Modulus(t, x)
Order(t, a, b) ==
  IF IsNan(t, a) \/ IsNan(t, b) THEN "unordered"
  ELSE IF Rank(t, a) < Rank(t, b) THEN "less"
  ELSE IF Rank(t, a) = Rank(t, b) THEN "equal" ELSE "greater"

Sign(t, x) == IF Negative(t, x) THEN x - SignBit(t) ELSE x + SignBit(t)

-----------------------------------------------------------------------------
(* Memory, read and written with the lowest byte first.                    *)

Byte(x, k)      == (x \div 2 ^ (ByteBits * k)) % 2 ^ ByteBits
Within(addr, n) == addr >= 0 /\ addr + n <= MemBytes

Loaded(mem, addr, n) ==
  LET up[k \in 0..n] == IF k = 0 THEN 0 ELSE up[k - 1] + mem[addr + k - 1] * 2 ^ (ByteBits * (k - 1))
  IN  up[n]

Stored(mem, addr, n, x) ==
  [a \in DOMAIN mem |-> IF a >= addr /\ a < addr + n THEN Byte(x, a - addr) ELSE mem[a]]
=============================================================================
