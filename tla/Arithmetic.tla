----------------------------- MODULE Arithmetic -----------------------------
(***************************************************************************)
(* The operators of Thread::run on words.  An integer has WordBits bits    *)
(* (64 in the code) in two's complement, and is represented by its signed  *)
(* value.  The macros apply the operator of C++ to two i64: where the      *)
(* standard leaves the result open, sums and products wrap around and the  *)
(* count of a shift is taken modulo the width, as the instructions of the  *)
(* processor do; a quotient that does not exist traps.                     *)
(*                                                                         *)
(* A double is represented by an integer, too: the programs here compute   *)
(* whole numbers only.  Doubles are also how words that are no integers    *)
(* are compared; these are not negative, and their order is that of words. *)
(* fdiv, which needs fractions, and the conversions i2f and f2i, which no  *)
(* program can contain, are left out.                                      *)
(***************************************************************************)
EXTENDS Integers

CONSTANT WordBits

ASSUME WordBitsAssumption == WordBits \in Nat /\ WordBits > 1

(* 2^n, by recursion: proofs can look into it. *)
TwoTo[n \in Nat] == IF n = 0 THEN 1 ELSE 2 * TwoTo[n - 1]

(* The words, and the word of a number that need not be one, read as an     *)
(* unsigned and as a signed integer.                                        *)
Least == - TwoTo[WordBits - 1]
Word == Least .. (- Least - 1)
UnsignedWord == 0 .. (TwoTo[WordBits] - 1)

Unsigned(v) == v % TwoTo[WordBits]

Signed(v) ==
  IF Unsigned(v) < TwoTo[WordBits - 1] THEN Unsigned(v) ELSE Unsigned(v) - TwoTo[WordBits]

(* Bits from the least significant one; a negative number has infinitely    *)
(* many ones in front.                                                      *)
Bit(v, i) == (v \div TwoTo[i]) % 2 = 1
Truth(b) == IF b THEN 1 ELSE 0

OfBits(bits) ==
  LET value[i \in Nat] == IF i = 0 THEN 0 ELSE value[i - 1] + Truth(bits[i - 1]) * TwoTo[i - 1]
  IN  Signed(value[WordBits])

Bitwise(combine(_, _), x, y) ==
  OfBits([i \in 0 .. (WordBits - 1) |-> combine(Bit(x, i), Bit(y, i))])

(* Division truncates towards zero, as in C++.                              *)
Quotient(x, y) ==
  LET magnitude(v) == IF v < 0 THEN - v ELSE v
  IN  IF (x < 0) = (y < 0) THEN magnitude(x) \div magnitude(y)
      ELSE - (magnitude(x) \div magnitude(y))

(* The processor raises an exception, which ends the process.               *)
Traps(opcode, x, y) == opcode \in {"idiv", "irem"} /\ (y = 0 \/ (x = Least /\ y = - 1))

Binary == {"iadd", "isub", "imul", "idiv", "irem", "ishl", "ishr", "ixor", "ior", "iand",
           "ieq", "ine", "ilt", "ile", "igt", "ige",
           "fadd", "fsub", "fmul", "feq", "fne", "flt", "fle", "fgt", "fge"}

(* The remainder has the sign of the dividend.                              *)
Remainder(x, y) == x - y * Quotient(x, y)

BinaryResult(opcode, x, y) ==
  CASE opcode \in {"iadd", "fadd"} -> Signed(x + y)
    [] opcode \in {"isub", "fsub"} -> Signed(x - y)
    [] opcode \in {"imul", "fmul"} -> Signed(x * y)
    [] opcode = "idiv" -> Quotient(x, y)
    [] opcode = "irem" -> Remainder(x, y)
    [] opcode = "ishl" -> Signed(x * TwoTo[y % WordBits])
    [] opcode = "ishr" -> x \div TwoTo[y % WordBits]
    [] opcode = "ixor" -> Bitwise(LAMBDA a, b : a # b, x, y)
    [] opcode = "ior" -> Bitwise(LAMBDA a, b : a \/ b, x, y)
    [] opcode = "iand" -> Bitwise(LAMBDA a, b : a /\ b, x, y)
    [] opcode \in {"ieq", "feq"} -> Truth(x = y)
    [] opcode \in {"ine", "fne"} -> Truth(x # y)
    [] opcode \in {"ilt", "flt"} -> Truth(x < y)
    [] opcode \in {"ile", "fle"} -> Truth(x <= y)
    [] opcode \in {"igt", "fgt"} -> Truth(x > y)
    [] opcode \in {"ige", "fge"} -> Truth(x >= y)

Unary == {"ineg", "inot", "iinc", "idec", "lnot", "fneg"}

UnaryResult(opcode, x) ==
  CASE opcode \in {"ineg", "fneg"} -> Signed(- x)
    [] opcode = "inot" -> - x - 1
    [] opcode = "iinc" -> Signed(x + 1)
    [] opcode = "idec" -> Signed(x - 1)
    [] opcode = "lnot" -> Truth(x = 0)
=============================================================================
