-------------------------- MODULE ArithmeticProofs --------------------------
(***************************************************************************)
(* The operators of Thread::run on words of any width: unless the          *)
(* processor traps, what they compute from words is a word, and those on   *)
(* bits compute the word with the bits C++ says.                           *)
(***************************************************************************)
EXTENDS Arithmetic, Recursion

(* The recursive definition of TwoTo has a solution.                        *)
LEMMA PowersOfTwo ==
  /\ TwoTo \in [Nat -> Nat \ {0}]
  /\ TwoTo[0] = 1
  /\ \A n \in Nat : TwoTo[n + 1] = 2 * TwoTo[n]
<1> DEFINE V == Nat \ {0}
           Body(g) == [n \in Nat |-> IF n = 0 THEN 1 ELSE 2 * g[n - 1]]
           body == [g \in [Nat -> V] |-> Body(g)]
           power == CHOOSE g : g = Body(g)
<1>1. TwoTo = power  BY DEF TwoTo
<1>2. ASSUME NEW g \in [Nat -> V]  PROVE body[g] = Body(g) /\ Body(g) \in [Nat -> V]
  <2>1. \A n \in Nat : n # 0 => g[n - 1] \in V  OBVIOUS
  <2>2. \A n \in Nat : (IF n = 0 THEN 1 ELSE 2 * g[n - 1]) \in V  BY <2>1
  <2> QED  BY <2>2
<1>3. LooksBelow(body, Nat, V)
  <2>1. ASSUME NEW f \in [Nat -> V], NEW g \in [Nat -> V], NEW n \in Nat,
               \A m \in Nat : m < n => f[m] = g[m]
        PROVE  body[f][n] = body[g][n]
    <3>1. n # 0 => f[n - 1] = g[n - 1]  BY <2>1
    <3> HIDE DEF V
    <3> QED  BY <3>1
  <2> HIDE DEF V
  <2>2. body \in [[Nat -> V] -> [Nat -> V]]  BY <1>2
  <2> HIDE DEF body
  <2> QED  BY <2>1, <2>2 DEF LooksBelow
<1>4. V # {} /\ Nat \in SUBSET Nat
  <2>1. 1 \in V  OBVIOUS
  <2> QED  BY <2>1
<1> HIDE DEF V, body, Body
<1>5. PICK f \in [Nat -> V] : f = body[f]  BY <1>3, <1>4, RecursiveFunction
<1>6. f = Body(f)  BY <1>2, <1>5
<1>7. power = Body(power)  BY <1>6
<1> HIDE DEF power
<1>8. DOMAIN power = Nat /\ power[0] = 1 /\ \A n \in Nat : power[n + 1] = 2 * power[n]
  <2>1. \A n \in Nat : power[n] = IF n = 0 THEN 1 ELSE 2 * power[n - 1]  BY <1>7 DEF Body
  <2>2. power = [n \in Nat |-> IF n = 0 THEN 1 ELSE 2 * power[n - 1]]  BY <1>7 DEF Body
  <2>3. DOMAIN power = Nat  BY <2>2
  <2>4. ASSUME NEW n \in Nat  PROVE power[n + 1] = 2 * power[n]
    <3>1. n + 1 \in Nat /\ n + 1 # 0 /\ n + 1 - 1 = n  OBVIOUS
    <3> QED  BY <2>1, <3>1
  <2> QED  BY <2>1, <2>3, <2>4
<1> DEFINE S == {n \in Nat : power[n] \in V}
<1>9. 0 \in S  BY <1>8 DEF V
<1>10. \A n \in Nat : n \in S => n + 1 \in S
  <2> SUFFICES ASSUME NEW n \in Nat, power[n] \in V  PROVE power[n + 1] \in V  OBVIOUS
  <2> QED  BY <1>8 DEF V
<1> HIDE DEF S
<1>11. Nat \subseteq S  BY <1>9, <1>10, Induction
<1>12. \A n \in Nat : power[n] \in V  BY <1>11 DEF S
<1>13. power = [n \in Nat |-> power[n]]  BY <1>7 DEF Body
<1> QED  BY <1>1, <1>8, <1>12, <1>13 DEF V

(* The half of the range of words, which is what the lemmas below are about.*)
Half == TwoTo[WordBits - 1]

LEMMA WordRange ==
  /\ Half \in Nat /\ Half > 0
  /\ TwoTo[WordBits] = 2 * Half
  /\ Word = (- Half) .. (Half - 1) /\ Least = - Half
<1>1. WordBits - 1 \in Nat /\ WordBits = (WordBits - 1) + 1  BY WordBitsAssumption
<1>2. Half \in Nat /\ Half > 0  BY <1>1, PowersOfTwo DEF Half
<1>3. TwoTo[WordBits] = 2 * Half  BY <1>1, PowersOfTwo DEF Half
<1>4. Least = - Half  BY DEF Least, Half
<1>5. Word = (- Half) .. (Half - 1)  BY <1>2, <1>4 DEF Word
<1> QED  BY <1>2, <1>3, <1>4, <1>5

(* Signed and Unsigned read the lowest bits of a number, and leave a number *)
(* that fits alone.                                                         *)
LEMMA SignedWord ==
  ASSUME NEW v \in Int
  PROVE  /\ Signed(v) \in Word /\ Unsigned(v) \in UnsignedWord
         /\ Unsigned(Signed(v)) = Unsigned(v)
         /\ v \in Word => Signed(v) = v
<1> DEFINE size == 2 * Half
           low == v % size
<1>1. Half \in Nat /\ Half > 0 /\ size \in Nat /\ size > 0  BY WordRange
<1>2. low \in 0 .. (size - 1)  BY <1>1
<1>3. Unsigned(v) = low /\ UnsignedWord = 0 .. (size - 1)
  BY <1>1, WordRange DEF Unsigned, UnsignedWord
<1>4. Signed(v) = IF low < Half THEN low ELSE low - size
  BY <1>3, WordRange DEF Signed, Half
<1> HIDE DEF low
<1>5. Signed(v) \in Word  BY <1>1, <1>2, <1>4, WordRange
<1>6. Unsigned(Signed(v)) = Unsigned(v)
  <2>1. Unsigned(Signed(v)) = Signed(v) % size  BY WordRange DEF Unsigned
  <2> HIDE DEF size
  <2>2. low % size = low /\ (low - size) % size = low  BY <1>1, <1>2
  <2> QED  BY <1>3, <1>4, <2>1, <2>2
<1>7. v \in Word => Signed(v) = v
  <2> SUFFICES ASSUME v \in Word  PROVE Signed(v) = v  OBVIOUS
  <2>1. v >= - Half /\ v < Half  BY <1>1, WordRange
  <2>2. CASE v >= 0
    <3>1. low = v  BY <1>1, <2>1, <2>2 DEF low
    <3> QED  BY <1>4, <2>1, <3>1
  <2>3. CASE v < 0
    <3>1. low = v + size  BY <1>1, <2>1, <2>3 DEF low
    <3> QED  BY <1>1, <1>4, <2>1, <3>1
  <2> QED  BY <2>2, <2>3
<1> QED  BY <1>2, <1>3, <1>5, <1>6, <1>7

(* Without the two operands that trap, a quotient is the truncated one, and *)
(* so is a word; the remainder has the sign of the dividend.                *)
LEMMA QuotientTruncates ==
  ASSUME NEW x \in Word, NEW y \in Word, y # 0
  PROVE  /\ Quotient(x, y) \in Int /\ Remainder(x, y) \in Int
         /\ x = y * Quotient(x, y) + Remainder(x, y)
         /\ x >= 0 => Remainder(x, y) >= 0
         /\ x <= 0 => Remainder(x, y) <= 0
         /\ - (IF y < 0 THEN - y ELSE y) < Remainder(x, y)
         /\ Remainder(x, y) < (IF y < 0 THEN - y ELSE y)
         /\ ~ (x = Least /\ y = - 1) => Quotient(x, y) \in Word
<1> DEFINE m(v) == IF v < 0 THEN - v ELSE v
           a == m(x)
           b == m(y)
           q == a \div b
           r == a % b
<1>1. Half \in Nat /\ Half > 0 /\ x \in Int /\ y \in Int
      /\ - Half <= x /\ x < Half /\ - Half <= y /\ y < Half
  BY WordRange
<1>2. a \in Nat /\ b \in Nat /\ b > 0 /\ a <= Half  BY <1>1
<1>3. Quotient(x, y) = IF (x < 0) = (y < 0) THEN q ELSE - q  BY DEF Quotient
<1>a. (x < 0 => a = - x) /\ (~ (x < 0) => a = x)  OBVIOUS
<1>b. (y < 0 => b = - y) /\ (~ (y < 0) => b = y)  OBVIOUS
<1> HIDE DEF m, a, b
<1>4. q \in Int /\ r \in 0 .. (b - 1) /\ a = b * q + r  BY <1>2
<1> HIDE DEF q, r
<1>5. q >= 0 /\ q <= a
  <2>1. q >= 0
    <3> SUFFICES ASSUME q <= - 1  PROVE FALSE  BY <1>4
    <3>1. b * q <= - b  BY <1>2, <1>4
    <3> QED  BY <1>2, <1>4, <3>1
  <2>2. (b - 1) * q >= 0  BY <1>2, <1>4, <2>1
  <2>3. b * q = (b - 1) * q + q  BY <1>2, <1>4
  <2> QED  BY <1>2, <1>4, <2>1, <2>2, <2>3
<1>6. b > 1 => 2 * q <= a
  <2> SUFFICES ASSUME b > 1  PROVE 2 * q <= a  OBVIOUS
  <2>1. (b - 2) * q >= 0  BY <1>2, <1>4, <1>5
  <2>2. b * q = (b - 2) * q + 2 * q  BY <1>2, <1>4
  <2> QED  BY <1>2, <1>4, <2>1, <2>2
<1>7. y * Quotient(x, y) = IF x < 0 THEN - (b * q) ELSE b * q
  <2>1. CASE x < 0 /\ y < 0  BY <2>1, <1>1, <1>2, <1>3, <1>4, <1>b
  <2>2. CASE x < 0 /\ ~ (y < 0)  BY <2>2, <1>1, <1>2, <1>3, <1>4, <1>b
  <2>3. CASE ~ (x < 0) /\ y < 0  BY <2>3, <1>1, <1>2, <1>3, <1>4, <1>b
  <2>4. CASE ~ (x < 0) /\ ~ (y < 0)  BY <2>4, <1>1, <1>2, <1>3, <1>4, <1>b
  <2> QED  BY <2>1, <2>2, <2>3, <2>4
<1>8. b * q \in Int  BY <1>2, <1>4
<1>9. Quotient(x, y) \in Int  BY <1>3, <1>4
<1>10. Remainder(x, y) = IF x < 0 THEN - r ELSE r
  <2>1. Remainder(x, y) = x - y * Quotient(x, y)  BY DEF Remainder
  <2> QED  BY <2>1, <1>1, <1>4, <1>7, <1>8, <1>a
<1>11. Remainder(x, y) \in Int  BY <1>2, <1>4, <1>10
<1>12. x = y * Quotient(x, y) + Remainder(x, y)
  BY <1>1, <1>4, <1>7, <1>8, <1>10, <1>a
<1>13. ASSUME ~ (x = Least /\ y = - 1)  PROVE Quotient(x, y) \in Word
  <2>1. - Half <= Quotient(x, y)  BY <1>1, <1>2, <1>3, <1>4, <1>5
  <2>2. Quotient(x, y) < Half
    <3> SUFFICES ASSUME Quotient(x, y) >= Half  PROVE FALSE  BY <1>1, <1>9
    <3>1. q = Half /\ a = Half /\ Quotient(x, y) = q /\ (x < 0 <=> y < 0)
      BY <1>1, <1>2, <1>3, <1>4, <1>5
    <3>2. b = 1  BY <1>1, <1>2, <1>6, <3>1
    <3>3. x = - Half /\ y = - 1  BY <1>1, <1>a, <1>b, <3>1, <3>2
    <3> QED  BY <1>13, <3>3, WordRange
  <2> QED  BY <1>1, <1>9, <2>1, <2>2, WordRange
<1>14. /\ x >= 0 => Remainder(x, y) >= 0
       /\ x <= 0 => Remainder(x, y) <= 0
  <2>1. x = 0 => r = 0
    <3> SUFFICES ASSUME x = 0  PROVE r = 0  OBVIOUS
    <3>1. a = 0 /\ q = 0  BY <1>1, <1>4, <1>5, <1>a
    <3> QED  BY <1>2, <1>4, <3>1
  <2> QED  BY <1>1, <1>2, <1>4, <1>10, <2>1
<1>15. /\ - (IF y < 0 THEN - y ELSE y) < Remainder(x, y)
       /\ Remainder(x, y) < (IF y < 0 THEN - y ELSE y)
  <2>1. (IF y < 0 THEN - y ELSE y) = b  BY <1>b
  <2>2. - b < Remainder(x, y) /\ Remainder(x, y) < b  BY <1>2, <1>4, <1>10
  <2> QED  BY <2>1, <2>2
<1> QED  BY <1>9, <1>11, <1>12, <1>13, <1>14, <1>15

(* A comparison, and the result of lnot.                                    *)
LEMMA TruthWord == ASSUME NEW b  PROVE Truth(b) \in Word
<1>1. WordBits - 2 \in Nat /\ WordBits - 1 = (WordBits - 2) + 1  BY WordBitsAssumption
<1>2. TwoTo[WordBits - 2] \in Nat /\ TwoTo[WordBits - 2] > 0
      /\ Half = 2 * TwoTo[WordBits - 2]
  BY <1>1, PowersOfTwo DEF Half
<1>3. 0 \in Word /\ 1 \in Word  BY <1>2, WordRange
<1> QED  BY <1>3 DEF Truth

(* The recursive definition in OfBits has a solution: the sum of the bits,  *)
(* each at its place.                                                       *)
LEMMA OfBitsValue ==
  ASSUME NEW bits
  PROVE  \E v \in [Nat -> Int] :
           /\ v[0] = 0
           /\ \A n \in Nat : v[n + 1] = v[n] + Truth(bits[n]) * TwoTo[n]
           /\ OfBits(bits) = Signed(v[WordBits])
<1> DEFINE term(n) == Truth(bits[n]) * TwoTo[n]
           Body(g) == [i \in Nat |-> IF i = 0 THEN 0 ELSE g[i - 1] + term(i - 1)]
           body == [g \in [Nat -> Int] |-> Body(g)]
           value == CHOOSE g : g = Body(g)
<1>1. OfBits(bits) = Signed(value[WordBits])  BY DEF OfBits
<1>2. \A n \in Nat : term(n) \in Int
  <2> SUFFICES ASSUME NEW n \in Nat  PROVE term(n) \in Int  OBVIOUS
  <2>1. TwoTo[n] \in Int  BY PowersOfTwo
  <2>2. Truth(bits[n]) \in Int  BY TruthWord, WordRange
  <2> QED  BY <2>1, <2>2
<1> HIDE DEF term
<1>3. ASSUME NEW g \in [Nat -> Int]  PROVE body[g] = Body(g) /\ Body(g) \in [Nat -> Int]
  <2>1. \A n \in Nat : n # 0 => n - 1 \in Nat /\ g[n - 1] \in Int /\ term(n - 1) \in Int
    BY <1>2
  <2> QED  BY <2>1
<1>4. LooksBelow(body, Nat, Int)
  <2>1. ASSUME NEW f \in [Nat -> Int], NEW g \in [Nat -> Int], NEW n \in Nat,
               \A m \in Nat : m < n => f[m] = g[m]
        PROVE  body[f][n] = body[g][n]
    <3>1. n # 0 => f[n - 1] = g[n - 1]  BY <2>1
    <3> QED  BY <3>1
  <2>2. body \in [[Nat -> Int] -> [Nat -> Int]]  BY <1>3
  <2> HIDE DEF body
  <2> QED  BY <2>1, <2>2 DEF LooksBelow
<1> HIDE DEF body, Body, value
<1>5. PICK f \in [Nat -> Int] : f = body[f]
  <2> DEFINE D == Nat
             V == Int
  <2>1. D \in SUBSET Nat /\ V # {} /\ LooksBelow(body, D, V)  BY <1>4
  <2> HIDE DEF D, V
  <2>2. \E f \in [D -> V] : f = body[f]  BY <2>1, RecursiveFunction
  <2> QED  BY <2>2 DEF D, V
<1>6. f = Body(f)  BY <1>3, <1>5
<1>7. value = Body(value)  BY <1>6 DEF value
<1>8. value[0] = 0 /\ \A n \in Nat : value[n + 1] = value[n] + term(n)
  <2>1. \A n \in Nat : value[n] = IF n = 0 THEN 0 ELSE value[n - 1] + term(n - 1)
    BY <1>7 DEF Body
  <2>2. ASSUME NEW n \in Nat  PROVE value[n + 1] = value[n] + term(n)
    <3>1. n + 1 \in Nat /\ n + 1 # 0 /\ n + 1 - 1 = n  OBVIOUS
    <3> QED  BY <2>1, <3>1
  <2> QED  BY <2>1, <2>2
<1> DEFINE S == {n \in Nat : value[n] \in Int}
<1>9. 0 \in S /\ \A n \in Nat : n \in S => n + 1 \in S  BY <1>2, <1>8
<1> HIDE DEF S
<1>10. Nat \subseteq S  BY <1>9, Induction
<1>11. value \in [Nat -> Int]
  <2>1. value = [n \in Nat |-> value[n]]  BY <1>7 DEF Body
  <2>2. \A n \in Nat : value[n] \in Int  BY <1>10 DEF S
  <2> QED  BY <2>1, <2>2
<1> QED  BY <1>1, <1>8, <1>11 DEF term

LEMMA OfBitsWord ==
  ASSUME NEW bits
  PROVE  OfBits(bits) \in Word
<1>1. PICK value \in [Nat -> Int] : OfBits(bits) = Signed(value[WordBits])  BY OfBitsValue
<1>2. value[WordBits] \in Int  BY WordBitsAssumption
<1> QED  BY <1>1, <1>2, SignedWord

(* A shift to the right is a word.                                          *)
LEMMA ShiftWord ==
  ASSUME NEW x \in Word, NEW n \in Nat
  PROVE  x \div TwoTo[n] \in Word
<1> DEFINE d == TwoTo[n]
           q == x \div d
           r == x % d
<1>1. d \in Nat /\ d > 0  BY PowersOfTwo
<1>2. Half \in Nat /\ Half > 0 /\ x \in Int /\ - Half <= x /\ x < Half  BY WordRange
<1> HIDE DEF d
<1>3. q \in Int /\ r \in 0 .. (d - 1) /\ x = d * q + r  BY <1>1, <1>2
<1> HIDE DEF q, r
<1>4. q < Half
  <2> SUFFICES ASSUME q >= Half  PROVE FALSE  BY <1>2, <1>3
  <2>1. (d - 1) * q >= 0  BY <1>1, <1>2, <1>3
  <2>2. d * q = (d - 1) * q + q  BY <1>1, <1>3
  <2> QED  BY <1>1, <1>2, <1>3, <2>1, <2>2
<1>5. - Half <= q
  <2> SUFFICES ASSUME q <= - Half - 1  PROVE FALSE  BY <1>2, <1>3
  <2>1. (d - 1) * (- q - 1) >= 0  BY <1>1, <1>2, <1>3
  <2>2. (d - 1) * (- q - 1) = - (d * q) - d + q + 1  BY <1>1, <1>3
  <2>3. d * q + d \in Int /\ d * q \in Int  BY <1>1, <1>3
  <2> QED  BY <1>1, <1>2, <1>3, <2>1, <2>2, <2>3
<1>6. q \in Word  BY <1>2, <1>3, <1>4, <1>5, WordRange
<1> QED  BY <1>6 DEF q, d

-----------------------------------------------------------------------------
(* What the operators of Thread::run compute from two words is a word,      *)
(* unless the processor traps: no quotient, shift, remainder or comparison  *)
(* leaves the range either.                                                 *)
THEOREM BinaryWord ==
  ASSUME NEW opcode \in Binary, NEW x \in Word, NEW y \in Word, ~ Traps(opcode, x, y)
  PROVE  BinaryResult(opcode, x, y) \in Word
<1>1. /\ x \in Int /\ y \in Int /\ x + y \in Int /\ x - y \in Int /\ x * y \in Int
      /\ Half \in Nat /\ - Half <= y /\ y < Half
  BY WordRange
<1>2. CASE opcode \in {"iadd", "fadd"}  BY <1>1, <1>2, SignedWord DEF BinaryResult
<1>3. CASE opcode \in {"isub", "fsub"}  BY <1>1, <1>3, SignedWord DEF BinaryResult
<1>4. CASE opcode \in {"imul", "fmul"}  BY <1>1, <1>4, SignedWord DEF BinaryResult
<1>5. CASE opcode = "idiv"
  <2>1. y # 0 /\ ~ (x = Least /\ y = - 1)  BY <1>5 DEF Traps
  <2> QED  BY <1>5, <2>1, QuotientTruncates DEF BinaryResult
<1>6. CASE opcode = "irem"
  <2>1. y # 0  BY <1>6 DEF Traps
  <2>2. /\ Remainder(x, y) \in Int
        /\ - (IF y < 0 THEN - y ELSE y) < Remainder(x, y)
        /\ Remainder(x, y) < (IF y < 0 THEN - y ELSE y)
    BY <2>1, QuotientTruncates
  <2>3. Remainder(x, y) \in Word  BY <1>1, <2>2, WordRange
  <2> QED  BY <1>6, <2>3 DEF BinaryResult
<1>7. y % WordBits \in Nat  BY <1>1, WordBitsAssumption
<1>8. CASE opcode = "ishl"
  <2>1. x * TwoTo[y % WordBits] \in Int  BY <1>1, <1>7, PowersOfTwo
  <2> QED  BY <1>8, <2>1, SignedWord DEF BinaryResult
<1>9. CASE opcode = "ishr"  BY <1>7, <1>9, ShiftWord DEF BinaryResult
<1>10. CASE opcode = "ixor"
  BY <1>10, OfBitsWord DEF BinaryResult, Bitwise
<1>11. CASE opcode = "ior"
  BY <1>11, OfBitsWord DEF BinaryResult, Bitwise
<1>12. CASE opcode = "iand"
  BY <1>12, OfBitsWord DEF BinaryResult, Bitwise
<1>13. CASE opcode \in {"ieq", "feq", "ine", "fne", "ilt", "flt", "ile", "fle",
                        "igt", "fgt", "ige", "fge"}
  BY <1>13, TruthWord DEF BinaryResult
<1> QED
  BY <1>2, <1>3, <1>4, <1>5, <1>6, <1>8, <1>9, <1>10, <1>11, <1>12, <1>13 DEF Binary

THEOREM UnaryWord ==
  ASSUME NEW opcode \in Unary, NEW x \in Word
  PROVE  UnaryResult(opcode, x) \in Word
<1>1. /\ x \in Int /\ - x \in Int /\ x + 1 \in Int /\ x - 1 \in Int
      /\ Half \in Nat /\ - x - 1 \in Word
  BY WordRange
<1> QED  BY <1>1, SignedWord, TruthWord DEF Unary, UnaryResult

-----------------------------------------------------------------------------
(* The bits of words.                                                       *)

(* Division rounds down, and is the only quotient with such a remainder.    *)
LEMMA Division ==
  ASSUME NEW a \in Int, NEW d \in Nat, d > 0
  PROVE  /\ a \div d \in Int /\ a % d \in 0 .. (d - 1)
         /\ a = d * (a \div d) + (a % d)
         /\ \A q \in Int, r \in 0 .. (d - 1) : a = d * q + r => a \div d = q
<1> DEFINE Q == a \div d
           R == a % d
<1>1. Q \in Int /\ R \in 0 .. (d - 1) /\ a = d * Q + R  OBVIOUS
<1> HIDE DEF Q, R
<1>2. ASSUME NEW q \in Int, NEW r \in 0 .. (d - 1), a = d * q + r  PROVE Q = q
  <2>1. d * Q \in Int /\ d * q \in Int /\ d * Q - d * q = r - R  BY <1>1, <1>2
  <2>2. CASE Q > q
    <3>1. PICK k \in Nat : Q = q + 1 + k
      <4>1. Q - q - 1 \in Nat /\ Q = q + 1 + (Q - q - 1)  BY <1>1, <2>2
      <4> QED  BY <4>1
    <3>2. d * Q = d * q + d + d * k /\ d * k \in Nat  BY <3>1
    <3> QED  BY <1>1, <2>1, <3>2
  <2>3. CASE q > Q
    <3>1. PICK k \in Nat : q = Q + 1 + k
      <4>1. q - Q - 1 \in Nat /\ q = Q + 1 + (q - Q - 1)  BY <1>1, <2>3
      <4> QED  BY <4>1
    <3>2. d * q = d * Q + d + d * k /\ d * k \in Nat  BY <1>1, <3>1
    <3> QED  BY <1>1, <2>1, <3>2
  <2> QED  BY <1>1, <2>2, <2>3
<1> QED  BY <1>1, <1>2 DEF Q, R

LEMMA QuotientIs ==
  ASSUME NEW a \in Int, NEW d \in Nat, d > 0, NEW q \in Int, NEW r \in 0 .. (d - 1),
         a = d * q + r
  PROVE  a \div d = q
BY Division

LEMMA DivisionOfSum ==
  ASSUME NEW a \in Int, NEW d \in Nat, d > 0, NEW k \in Int
  PROVE  (a + k * d) \div d = a \div d + k
<1> DEFINE q == a \div d
           r == a % d
<1>1. q \in Int /\ r \in 0 .. (d - 1) /\ a = d * q + r  BY Division
<1> HIDE DEF q, r
<1>2. a + k * d \in Int /\ q + k \in Int /\ a + k * d = d * (q + k) + r  BY <1>1
<1>3. \A p \in Int, s \in 0 .. (d - 1) : a + k * d = d * p + s => (a + k * d) \div d = p
  BY <1>2, Division
<1>4. (a + k * d) \div d = q + k  BY <1>1, <1>2, <1>3
<1> QED  BY <1>4 DEF q

(* A power of two is an even multiple of every smaller one.                 *)
LEMMA PowersDivide ==
  ASSUME NEW n \in Nat, NEW i \in 0 .. (n - 1)
  PROVE  \E k \in Nat : TwoTo[n] = (2 * k) * TwoTo[i]
<1> DEFINE S == {m \in Nat : \A j \in 0 .. (m - 1) : \E k \in Nat : TwoTo[m] = (2 * k) * TwoTo[j]}
<1>1. 0 \in S  OBVIOUS
<1>2. ASSUME NEW m \in Nat, m \in S  PROVE m + 1 \in S
  <2> SUFFICES ASSUME NEW j \in 0 .. m
               PROVE  \E k \in Nat : TwoTo[m + 1] = (2 * k) * TwoTo[j]
    OBVIOUS
  <2>1. TwoTo[m + 1] = 2 * TwoTo[m] /\ TwoTo[m] \in Nat /\ TwoTo[j] \in Nat  BY PowersOfTwo
  <2>2. CASE j = m
    <3>1. TwoTo[m + 1] = (2 * 1) * TwoTo[j]  BY <2>1, <2>2
    <3> QED  BY <3>1
  <2>3. CASE j \in 0 .. (m - 1)
    <3>1. PICK k \in Nat : TwoTo[m] = (2 * k) * TwoTo[j]  BY <1>2, <2>3
    <3>2. 2 * k \in Nat /\ TwoTo[m + 1] = (2 * (2 * k)) * TwoTo[j]  BY <2>1, <3>1
    <3> QED  BY <3>2
  <2> QED  BY <2>2, <2>3
<1> HIDE DEF S
<1>3. Nat \subseteq S  BY <1>1, <1>2, Induction
<1> QED  BY <1>3 DEF S

(* A multiple of 2^n does not change the bits below n.                      *)
LEMMA BitOfSum ==
  ASSUME NEW v \in Int, NEW m \in Int, NEW n \in Nat, NEW i \in 0 .. (n - 1)
  PROVE  Bit(v + m * TwoTo[n], i) <=> Bit(v, i)
<1>1. PICK k \in Nat : TwoTo[n] = (2 * k) * TwoTo[i]  BY PowersDivide
<1> DEFINE d == TwoTo[i]
           q == v \div d
<1>2. d \in Nat /\ d > 0  BY PowersOfTwo
<1>3. m * TwoTo[n] = (2 * (m * k)) * d /\ 2 * (m * k) \in Int
  <2> HIDE DEF d
  <2>1. TwoTo[n] = (2 * k) * d  BY <1>1 DEF d
  <2> QED  BY <1>2, <2>1
<1> HIDE DEF d
<1>4. (v + m * TwoTo[n]) \div d = q + 2 * (m * k)
  <2>1. (v + (2 * (m * k)) * d) \div d = v \div d + 2 * (m * k)  BY <1>2, <1>3, DivisionOfSum
  <2> QED  BY <1>3, <2>1
<1>5. q \in Int  BY <1>2, Division
<1> HIDE DEF q
<1>6. (q + 2 * (m * k)) % 2 = q % 2
  <2> DEFINE e == m * k
  <2>1. e \in Int  OBVIOUS
  <2> HIDE DEF e
  <2>2. (q + 2 * e) % 2 = q % 2  BY <1>5, <2>1
  <2> QED  BY <2>2 DEF e
<1> QED  BY <1>4, <1>6 DEF Bit, d, q

(* Nor does reading a number as a word change its bits.                     *)
LEMMA BitOfSigned ==
  ASSUME NEW v \in Int, NEW i \in 0 .. (WordBits - 1)
  PROVE  Bit(Signed(v), i) <=> Bit(v, i)
<1> DEFINE d == TwoTo[WordBits]
           q == v \div d
           r == v % d
<1>1. d \in Nat /\ d > 0 /\ WordBits \in Nat  BY PowersOfTwo, WordBitsAssumption
<1>2. q \in Int /\ r \in 0 .. (d - 1) /\ v = d * q + r  BY <1>1, Division
<1>3. Signed(v) = r \/ Signed(v) = r - d  BY DEF Signed, Unsigned
<1> HIDE DEF q, r
<1>4. \E m \in Int : Signed(v) = v + m * d
  <2>1. CASE Signed(v) = r
    <3>1. - q \in Int /\ Signed(v) = v + (- q) * d  BY <1>1, <1>2, <2>1
    <3> QED  BY <3>1
  <2>2. CASE Signed(v) = r - d
    <3>1. - q - 1 \in Int /\ Signed(v) = v + (- q - 1) * d  BY <1>1, <1>2, <2>2
    <3> QED  BY <3>1
  <2> QED  BY <1>3, <2>1, <2>2
<1> QED  BY <1>1, <1>4, BitOfSum DEF d

(* The bits of a sum of bits, each at its place, are these bits.            *)
LEMMA BitsOfValue ==
  ASSUME NEW bits, NEW value \in [Nat -> Int], value[0] = 0,
         \A n \in Nat : value[n + 1] = value[n] + Truth(bits[n]) * TwoTo[n]
  PROVE  \A n \in Nat : \A i \in 0 .. (n - 1) : Bit(value[n], i) <=> bits[i]
<1> DEFINE S == {n \in Nat : /\ value[n] \in 0 .. (TwoTo[n] - 1)
                             /\ \A i \in 0 .. (n - 1) : Bit(value[n], i) <=> bits[i]}
<1>1. 0 \in S  BY PowersOfTwo
<1>2. ASSUME NEW n \in Nat, n \in S  PROVE n + 1 \in S
  <2> DEFINE d == TwoTo[n]
             b == Truth(bits[n])
  <2>1. d \in Nat /\ d > 0 /\ TwoTo[n + 1] = 2 * d  BY PowersOfTwo
  <2>2. value[n] \in 0 .. (d - 1) /\ value[n + 1] = value[n] + b * d  BY <1>2
  <2>3. b \in {0, 1}  BY DEF Truth
  <2>b. b = 1 <=> bits[n]  BY DEF Truth
  <2> HIDE DEF d, b
  <2>4. value[n + 1] \in 0 .. (TwoTo[n + 1] - 1)  BY <2>1, <2>2, <2>3
  <2>5. ASSUME NEW i \in 0 .. n  PROVE Bit(value[n + 1], i) <=> bits[i]
    <3>1. CASE i = n
      <4>1. b \in Int /\ value[n + 1] = d * b + value[n] /\ value[n + 1] \in Int
        BY <2>1, <2>2, <2>3
      <4>2. value[n + 1] \div d = b  BY <2>1, <2>2, <4>1, QuotientIs
      <4>3. b % 2 = b  BY <2>3
      <4> QED  BY <2>b, <3>1, <4>2, <4>3 DEF Bit, d
    <3>2. CASE i \in 0 .. (n - 1)
      <4>1. b \in Int /\ value[n] \in Int  BY <2>2, <2>3
      <4>2. Bit(value[n] + b * TwoTo[n], i) <=> Bit(value[n], i)  BY <3>2, <4>1, BitOfSum
      <4>3. value[n + 1] = value[n] + b * TwoTo[n]  BY <2>2 DEF d
      <4> QED  BY <1>2, <3>2, <4>2, <4>3
    <3> QED  BY <3>1, <3>2
  <2>6. n + 1 \in Nat /\ n + 1 - 1 = n  OBVIOUS
  <2> QED  BY <2>4, <2>5, <2>6
<1> HIDE DEF S
<1>3. Nat \subseteq S  BY <1>1, <1>2, Induction
<1> QED  BY <1>3 DEF S

(* The bits of a complement are the other ones.                             *)
LEMMA BitOfComplement ==
  ASSUME NEW x \in Int, NEW i \in Nat
  PROVE  Bit(- x - 1, i) <=> ~ Bit(x, i)
<1> DEFINE d == TwoTo[i]
           q == x \div d
           r == x % d
<1>1. d \in Nat /\ d > 0  BY PowersOfTwo
<1>2. q \in Int /\ r \in 0 .. (d - 1) /\ x = d * q + r  BY <1>1, Division
<1> HIDE DEF d, q, r
<1>3. /\ - x - 1 \in Int /\ - q - 1 \in Int /\ d - 1 - r \in 0 .. (d - 1)
      /\ - x - 1 = d * (- q - 1) + (d - 1 - r)
  BY <1>1, <1>2
<1>4. (- x - 1) \div d = - q - 1  BY <1>1, <1>3, QuotientIs
<1>5. (- q - 1) % 2 = 1 <=> ~ (q % 2 = 1)  BY <1>2
<1> QED  BY <1>4, <1>5 DEF Bit, d, q

(* A quotient has the bits of the number, further down.                     *)
LEMMA PowersMultiply ==
  ASSUME NEW n \in Nat, NEW m \in Nat
  PROVE  TwoTo[n + m] = TwoTo[n] * TwoTo[m]
<1> DEFINE S == {k \in Nat : TwoTo[n + k] = TwoTo[n] * TwoTo[k]}
<1>1. 0 \in S
  <2>1. TwoTo[n] \in Nat /\ n + 0 = n  BY PowersOfTwo
  <2> QED  BY <2>1, PowersOfTwo
<1>2. ASSUME NEW k \in Nat, k \in S  PROVE k + 1 \in S
  <2>1. n + k \in Nat /\ n + (k + 1) = (n + k) + 1 /\ TwoTo[n] \in Nat /\ TwoTo[k] \in Nat
    BY PowersOfTwo
  <2>2. TwoTo[n + (k + 1)] = 2 * TwoTo[n + k] /\ TwoTo[k + 1] = 2 * TwoTo[k]
    BY <2>1, PowersOfTwo
  <2>3. TwoTo[n + k] = TwoTo[n] * TwoTo[k]  BY <1>2
  <2>4. 2 * (TwoTo[n] * TwoTo[k]) = TwoTo[n] * (2 * TwoTo[k])  BY <2>1
  <2> QED  BY <2>2, <2>3, <2>4
<1> HIDE DEF S
<1>3. Nat \subseteq S  BY <1>1, <1>2, Induction
<1> QED  BY <1>3 DEF S

LEMMA BitOfQuotient ==
  ASSUME NEW x \in Int, NEW s \in Nat, NEW i \in Nat
  PROVE  Bit(x \div TwoTo[s], i) <=> Bit(x, s + i)
<1> DEFINE d == TwoTo[s]
           e == TwoTo[i]
           q == x \div d
           r == x % d
           p == q \div e
           u == q % e
<1>1. d \in Nat /\ d > 0 /\ e \in Nat /\ e > 0  BY PowersOfTwo
<1>2. q \in Int /\ r \in 0 .. (d - 1) /\ x = d * q + r  BY <1>1, Division
<1>3. p \in Int /\ u \in 0 .. (e - 1) /\ q = e * p + u  BY <1>1, <1>2, Division
<1>4. TwoTo[s + i] = d * e  BY PowersMultiply
<1> HIDE DEF d, e, q, r, p, u
<1>5. d * e \in Nat /\ d * e > 0
  <2>1. (d - 1) * (e - 1) >= 0  BY <1>1
  <2>2. (d - 1) * (e - 1) = d * e - d - e + 1 /\ d * e \in Int  BY <1>1
  <2> QED  BY <1>1, <2>1, <2>2
<1>6. x = (d * e) * p + (d * u + r)
  <2>1. d * (e * p + u) = d * (e * p) + d * u /\ d * (e * p) = (d * e) * p
        /\ d * u \in Int /\ (d * e) * p \in Int
    BY <1>1, <1>3
  <2> HIDE DEF d, e, q, r, p, u
  <2> QED  BY <1>2, <1>3, <2>1
<1>7. d * u + r \in 0 .. (d * e - 1)
  <2>1. d * u \in Nat  BY <1>1, <1>3
  <2>2. PICK k \in Nat : e = u + 1 + k
    <3>1. e - u - 1 \in Nat /\ e = u + 1 + (e - u - 1)  BY <1>1, <1>3
    <3> QED  BY <3>1
  <2>3. d * e = d * u + d + d * k /\ d * k \in Nat  BY <1>1, <1>3, <2>2
  <2> QED  BY <1>1, <1>2, <2>1, <2>3
<1>8. x \div (d * e) = p
  <2>1. \A a \in Int, b \in 0 .. (d * e - 1) : x = (d * e) * a + b => x \div (d * e) = a
    BY <1>5, Division
  <2> QED  BY <1>3, <1>6, <1>7, <2>1
<1> QED  BY <1>4, <1>8 DEF Bit, d, e, q, p

(* OfBits makes the word with the bits it is given.                         *)
LEMMA BitOfOfBits ==
  ASSUME NEW bits, NEW i \in 0 .. (WordBits - 1)
  PROVE  Bit(OfBits(bits), i) <=> bits[i]
<1>1. PICK value \in [Nat -> Int] :
        /\ value[0] = 0
        /\ \A n \in Nat : value[n + 1] = value[n] + Truth(bits[n]) * TwoTo[n]
        /\ OfBits(bits) = Signed(value[WordBits])
  BY OfBitsValue
<1>2. WordBits \in Nat /\ value[WordBits] \in Int  BY WordBitsAssumption
<1>3. \A n \in Nat : \A j \in 0 .. (n - 1) : Bit(value[n], j) <=> bits[j]
  BY <1>1, BitsOfValue
<1>4. Bit(value[WordBits], i) <=> bits[i]  BY <1>2, <1>3
<1> QED  BY <1>1, <1>2, <1>4, BitOfSigned

(* The bits in front of a word repeat its sign.                             *)
LEMMA SignBits ==
  ASSUME NEW x \in Word, NEW j \in Nat, j >= WordBits - 1
  PROVE  Bit(x, j) <=> x < 0
<1> DEFINE d == TwoTo[j]
<1>1. d \in Nat /\ d > 0 /\ Half <= d
  <2>1. WordBits - 1 \in Nat /\ j - (WordBits - 1) \in Nat
        /\ j = (WordBits - 1) + (j - (WordBits - 1))
    BY WordBitsAssumption
  <2> DEFINE k == TwoTo[j - (WordBits - 1)]
  <2>2. d = Half * k  BY <2>1, PowersMultiply DEF Half
  <2>a. \A n \in Nat : TwoTo[n] \in Nat /\ TwoTo[n] > 0  BY PowersOfTwo
  <2>b. Half \in Nat  BY WordRange
  <2>3. k \in Nat /\ k > 0 /\ Half \in Nat /\ d \in Nat /\ d > 0  BY <2>1, <2>a, <2>b
  <2> HIDE DEF d, k
  <2>4. k - 1 \in Nat /\ Half * k = Half * (k - 1) + Half /\ Half * (k - 1) \in Nat  BY <2>3
  <2> QED  BY <2>2, <2>3, <2>4
<1>2. x \in Int /\ Half \in Nat /\ - Half <= x /\ x < Half  BY WordRange
<1> HIDE DEF d
<1>3. CASE x < 0
  <2> DEFINE y == - x - 1
  <2>1. y \in Int /\ y = d * 0 + y /\ y \in 0 .. (d - 1) /\ - y - 1 = x  BY <1>1, <1>2, <1>3
  <2> HIDE DEF y
  <2>2. y \div d = 0  BY <1>1, <2>1, QuotientIs
  <2>3. ~ Bit(y, j)  BY <2>2 DEF Bit, d
  <2>4. Bit(- y - 1, j)  BY <2>1, <2>3, BitOfComplement
  <2> QED  BY <1>3, <2>1, <2>4
<1>4. CASE x >= 0
  <2>1. x = d * 0 + x /\ x \in 0 .. (d - 1)  BY <1>1, <1>2, <1>4
  <2>2. x \div d = 0  BY <1>1, <1>2, <2>1, QuotientIs
  <2>3. ~ Bit(x, j)  BY <2>2 DEF Bit, d
  <2> QED  BY <1>2, <1>4, <2>3
<1> QED  BY <1>2, <1>3, <1>4

(* Shifting to the left moves the bits up and fills up with zeros.          *)
LEMMA BitOfProduct ==
  ASSUME NEW x \in Int, NEW s \in Nat, NEW i \in Nat
  PROVE  Bit(x * TwoTo[s], i) <=> s <= i /\ Bit(x, i - s)
<1> DEFINE d == TwoTo[s]
<1>1. d \in Nat /\ d > 0  BY PowersOfTwo
<1> HIDE DEF d
<1>2. CASE i < s
  <2>1. i \in 0 .. (s - 1) /\ 0 + x * d = x * d  BY <1>1, <1>2
  <2>2. Bit(0 + x * d, i) <=> Bit(0, i)  BY <2>1, BitOfSum DEF d
  <2> DEFINE e == TwoTo[i]
  <2>3. e \in Nat /\ e > 0  BY PowersOfTwo
  <2> HIDE DEF e
  <2>4. 0 = e * 0 + 0 /\ 0 \in 0 .. (e - 1)  BY <2>3
  <2>5. 0 \div e = 0  BY <2>3, <2>4, QuotientIs
  <2>6. ~ Bit(0, i)  BY <2>5 DEF Bit, e
  <2> QED  BY <1>2, <2>1, <2>2, <2>6 DEF d
<1>3. CASE s <= i
  <2>1. i - s \in Nat /\ s + (i - s) = i /\ x * d \in Int  BY <1>1, <1>3
  <2>2. x * d = d * x + 0 /\ 0 \in 0 .. (d - 1)  BY <1>1
  <2>3. (x * d) \div d = x  BY <1>1, <2>1, <2>2, QuotientIs
  <2>4. Bit((x * d) \div d, i - s) <=> Bit(x * d, s + (i - s))  BY <2>1, BitOfQuotient DEF d
  <2> QED  BY <1>3, <2>1, <2>3, <2>4 DEF d
<1> QED  BY <1>2, <1>3

(* A word is its bits, as it is for the processor: no two words have the    *)
(* same ones.                                                               *)
THEOREM BitsTellWordsApart ==
  ASSUME NEW x \in Word, NEW y \in Word, \A i \in 0 .. (WordBits - 1) : Bit(x, i) <=> Bit(y, i)
  PROVE  x = y
<1> DEFINE S == {n \in Nat : (\A i \in 0 .. (n - 1) : Bit(x, i) <=> Bit(y, i)) =>
                               \E m \in Int : x = y + m * TwoTo[n]}
<1>1. x \in Int /\ y \in Int /\ Half \in Nat
      /\ - Half <= x /\ x < Half /\ - Half <= y /\ y < Half
  BY WordRange
<1>2. 0 \in S
  <2>1. x - y \in Int /\ x = y + (x - y) * TwoTo[0]  BY <1>1, PowersOfTwo
  <2> QED  BY <2>1
<1>3. ASSUME NEW n \in Nat, n \in S  PROVE n + 1 \in S
  <2> SUFFICES ASSUME \A i \in 0 .. n : Bit(x, i) <=> Bit(y, i)
               PROVE  \E m \in Int : x = y + m * TwoTo[n + 1]
    OBVIOUS
  <2> DEFINE d == TwoTo[n]
             p == y \div d
  <2>1. PICK m \in Int : x = y + m * d  BY <1>3
  <2>2. d \in Nat /\ d > 0 /\ TwoTo[n + 1] = 2 * d  BY PowersOfTwo
  <2>b. Bit(x, n) <=> Bit(y, n)  OBVIOUS
  <2>3. x \div d = p + m
    <3> HIDE DEF d
    <3> QED  BY <1>1, <2>1, <2>2, DivisionOfSum
  <2>4. p \in Int  BY <1>1, <2>2, Division
  <2>5. (p + m) % 2 = 1 <=> p % 2 = 1  BY <2>b, <2>3 DEF Bit
  <2> HIDE DEF p, d
  <2>6. m % 2 = 0  BY <2>4, <2>5
  <2>7. PICK k \in Int : m = 2 * k
    <3>1. m \div 2 \in Int /\ m = 2 * (m \div 2)  BY <2>6
    <3> QED  BY <3>1
  <2>8. x = y + k * TwoTo[n + 1]
    <3>1. m * d = k * (2 * d)  BY <2>2, <2>7
    <3> QED  BY <2>1, <2>2, <3>1
  <2> QED  BY <2>8
<1> HIDE DEF S
<1>4. Nat \subseteq S  BY <1>2, <1>3, Induction
<1>5. PICK m \in Int : x = y + m * TwoTo[WordBits]  BY <1>4, WordBitsAssumption DEF S
<1> DEFINE size == 2 * Half
<1>6. x = y + m * size /\ size \in Nat /\ x - y < size /\ y - x < size
  BY <1>1, <1>5, WordRange
<1> HIDE DEF size
<1>7. CASE m > 0
  <2>1. m - 1 \in Nat /\ m * size = (m - 1) * size + size /\ (m - 1) * size \in Nat
    BY <1>6, <1>7
  <2> QED  BY <1>1, <1>6, <2>1
<1>8. CASE m < 0
  <2>1. - m - 1 \in Nat /\ m * size = - ((- m - 1) * size) - size /\ (- m - 1) * size \in Nat
    BY <1>6, <1>8
  <2> QED  BY <1>1, <1>6, <2>1
<1>9. CASE m = 0  BY <1>1, <1>6, <1>9
<1> QED  BY <1>7, <1>8, <1>9

(* The arithmetic definitions of the operators of Thread::run on bits do    *)
(* what C++ says they do: and, or, xor and not work bit by bit, a shift to  *)
(* the left fills up with zeros, one to the right with the sign.  With      *)
(* BitsTellWordsApart, this determines their results.                       *)
THEOREM WordsAreBits ==
  ASSUME NEW x \in Word, NEW y \in Word, NEW i \in 0 .. (WordBits - 1)
  PROVE  LET count == y % WordBits
             from == i + count
         IN  /\ Bit(BinaryResult("iand", x, y), i) <=> Bit(x, i) /\ Bit(y, i)
             /\ Bit(BinaryResult("ior", x, y), i) <=> Bit(x, i) \/ Bit(y, i)
             /\ Bit(BinaryResult("ixor", x, y), i) <=> ~ (Bit(x, i) <=> Bit(y, i))
             /\ Bit(UnaryResult("inot", x), i) <=> ~ Bit(x, i)
             /\ Bit(BinaryResult("ishl", x, y), i) <=> count <= i /\ Bit(x, i - count)
             /\ Bit(BinaryResult("ishr", x, y), i) <=>
                  IF from < WordBits THEN Bit(x, from) ELSE x < 0
<1> DEFINE count == y % WordBits
           from == i + count
<1>1. /\ x \in Int /\ y \in Int /\ WordBits \in Nat /\ WordBits > 1
      /\ i \in Nat /\ count \in Nat
  BY WordRange, WordBitsAssumption
<1>2. Bit(BinaryResult("iand", x, y), i) <=> Bit(x, i) /\ Bit(y, i)
  <2> DEFINE bits == [j \in 0 .. (WordBits - 1) |-> Bit(x, j) /\ Bit(y, j)]
  <2>1. BinaryResult("iand", x, y) = OfBits(bits)  BY DEF BinaryResult, Bitwise
  <2>2. bits[i] = (Bit(x, i) /\ Bit(y, i))  OBVIOUS
  <2> HIDE DEF bits
  <2>3. Bit(OfBits(bits), i) <=> bits[i]  BY BitOfOfBits
  <2> QED  BY <2>1, <2>2, <2>3
<1>3. Bit(BinaryResult("ior", x, y), i) <=> Bit(x, i) \/ Bit(y, i)
  <2> DEFINE bits == [j \in 0 .. (WordBits - 1) |-> Bit(x, j) \/ Bit(y, j)]
  <2>1. BinaryResult("ior", x, y) = OfBits(bits)  BY DEF BinaryResult, Bitwise
  <2>2. bits[i] = (Bit(x, i) \/ Bit(y, i))  OBVIOUS
  <2> HIDE DEF bits
  <2>3. Bit(OfBits(bits), i) <=> bits[i]  BY BitOfOfBits
  <2> QED  BY <2>1, <2>2, <2>3
<1>4. Bit(BinaryResult("ixor", x, y), i) <=> ~ (Bit(x, i) <=> Bit(y, i))
  <2> DEFINE bits == [j \in 0 .. (WordBits - 1) |-> Bit(x, j) # Bit(y, j)]
  <2>1. BinaryResult("ixor", x, y) = OfBits(bits)  BY DEF BinaryResult, Bitwise
  <2>2. bits[i] = (Bit(x, i) # Bit(y, i))  OBVIOUS
  <2> HIDE DEF bits
  <2>3. Bit(OfBits(bits), i) <=> bits[i]  BY BitOfOfBits
  <2>4. (Bit(x, i) # Bit(y, i)) <=> ~ (Bit(x, i) <=> Bit(y, i))  BY DEF Bit
  <2> QED  BY <2>1, <2>2, <2>3, <2>4
<1>5. Bit(UnaryResult("inot", x), i) <=> ~ Bit(x, i)
  BY <1>1, BitOfComplement DEF UnaryResult
<1>6. Bit(BinaryResult("ishl", x, y), i) <=> count <= i /\ Bit(x, i - count)
  <2>1. TwoTo[count] \in Int /\ x * TwoTo[count] \in Int  BY <1>1, PowersOfTwo
  <2>2. BinaryResult("ishl", x, y) = Signed(x * TwoTo[count])  BY DEF BinaryResult
  <2> HIDE DEF count
  <2> QED  BY <1>1, <2>1, <2>2, BitOfSigned, BitOfProduct
<1>7. Bit(BinaryResult("ishr", x, y), i) <=> IF from < WordBits THEN Bit(x, from) ELSE x < 0
  <2>1. BinaryResult("ishr", x, y) = x \div TwoTo[count]  BY DEF BinaryResult
  <2> HIDE DEF count
  <2>2. Bit(x \div TwoTo[count], i) <=> Bit(x, count + i)  BY <1>1, BitOfQuotient
  <2>3. count + i = from /\ from \in Nat  BY <1>1
  <2>4. from >= WordBits => (Bit(x, from) <=> x < 0)  BY <1>1, <2>3, SignBits
  <2> QED  BY <1>1, <2>1, <2>2, <2>3, <2>4
<1> QED  BY <1>2, <1>3, <1>4, <1>5, <1>6, <1>7
=============================================================================
