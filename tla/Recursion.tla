----------------------------- MODULE Recursion -----------------------------
(***************************************************************************)
(* Induction over the natural numbers, and the recursive functions on      *)
(* them, in a form that needs no operator as a parameter: what is said of  *)
(* a number is a set of numbers, and the body of a recursive definition is *)
(* a function on functions.  Nothing here is about the virtual machine;    *)
(* the proofs about its recursive definitions rest on it.                  *)
(***************************************************************************)
EXTENDS WellFoundedInduction, FiniteSetTheorems, TLAPS

(* A set of natural numbers that is not empty has a least member.           *)
LEMMA LeastMember ==
  ASSUME NEW S \in SUBSET Nat, S # {}
  PROVE  \E m \in S : \A n \in S : m <= n
<1> DEFINE R == {ss \in Nat \X Nat : ss[1] < ss[2]}
<1>1. IsWellFoundedOn(R, Nat)  BY NatLessThanWellFounded DEF OpToRel
<1> HIDE DEF R
<1>2. PICK m \in S : \A n \in S : <<n, m>> \notin R  BY <1>1, WFMin
<1>3. ASSUME NEW n \in S  PROVE m <= n
  <2>1. m \in Nat /\ n \in Nat  OBVIOUS
  <2>2. n < m => <<n, m>> \in R  BY <2>1 DEF R
  <2> QED  BY <1>2, <2>1, <2>2
<1> QED  BY <1>3

(* The principle of induction: S has 0 and the successors of its members.   *)
LEMMA Induction ==
  ASSUME NEW S, 0 \in S, \A n \in Nat : n \in S => n + 1 \in S
  PROVE  Nat \subseteq S
<1> SUFFICES ASSUME Nat \ S # {}  PROVE FALSE  OBVIOUS
<1>1. PICK m \in Nat \ S : \A n \in Nat \ S : m <= n  BY LeastMember
<1>2. m # 0 /\ m - 1 \in Nat  BY <1>1
<1>3. m - 1 \in S  BY <1>1, <1>2
<1> QED  BY <1>1, <1>2, <1>3

(* The same with all smaller numbers as the hypothesis, on a set D.         *)
LEMMA StrongInduction ==
  ASSUME NEW D \in SUBSET Nat, NEW S,
         \A n \in D : (\A m \in D : m < n => m \in S) => n \in S
  PROVE  D \subseteq S
<1> SUFFICES ASSUME D \ S # {}  PROVE FALSE  OBVIOUS
<1>1. PICK m \in D \ S : \A n \in D \ S : m <= n  BY LeastMember
<1>2. \A n \in D : n < m => n \in S  BY <1>1
<1> QED  BY <1>1, <1>2

(* A finite set of natural numbers that is not empty has a greatest one.    *)
LEMMA GreatestMember ==
  ASSUME NEW T \in SUBSET Nat, T # {}, IsFiniteSet(T)
  PROVE  \E m \in T : \A n \in T : n <= m
<1> DEFINE HasGreatest(U) == \E m \in U : \A n \in U : n <= m
           S == {k \in Nat : \A U \in SUBSET T :
                   Cardinality(U) = k + 1 => HasGreatest(U)}
<1>1. \A U \in SUBSET T : IsFiniteSet(U) /\ Cardinality(U) \in Nat
  BY FS_Subset, FS_CardinalityType
<1>2. ASSUME NEW U \in SUBSET T, NEW x \in U
      PROVE  Cardinality(U \ {x}) = Cardinality(U) - 1
  BY <1>1, <1>2, FS_RemoveElement
<1>3. 0 \in S
  <2> SUFFICES ASSUME NEW U \in SUBSET T, Cardinality(U) = 1
               PROVE  HasGreatest(U)
    OBVIOUS
  <2>0. U # {}  BY FS_EmptySet
  <2>1. PICK x \in U : TRUE  BY <2>0
  <2>2. U \ {x} \in SUBSET T /\ Cardinality(U \ {x}) = 0  BY <1>2
  <2>3. U = {x}  BY <1>1, <2>2, FS_EmptySet
  <2> QED  BY <2>3
<1>4. ASSUME NEW k \in Nat, k \in S  PROVE k + 1 \in S
  <2> SUFFICES ASSUME NEW U \in SUBSET T, Cardinality(U) = k + 1 + 1
               PROVE  HasGreatest(U)
    OBVIOUS
  <2>0. U # {}  BY FS_EmptySet
  <2>1. PICK x \in U : TRUE  BY <2>0
  <2>2. U \ {x} \in SUBSET T /\ Cardinality(U \ {x}) = k + 1  BY <1>2
  <2>3. PICK m \in U \ {x} : \A n \in U \ {x} : n <= m  BY <1>4, <2>2
  <2>4. x \in Nat /\ m \in Nat /\ \A n \in U : n \in Nat  OBVIOUS
  <2>5. CASE x <= m  BY <2>3, <2>5
  <2>6. CASE m < x  BY <2>3, <2>4, <2>6
  <2> QED  BY <2>4, <2>5, <2>6
<1> HIDE DEF S
<1>5. Nat \subseteq S  BY <1>3, <1>4, Induction
<1>6. Cardinality(T) # 0 /\ Cardinality(T) \in Nat  BY <1>1, FS_EmptySet
<1>7. Cardinality(T) - 1 \in Nat /\ Cardinality(T) = Cardinality(T) - 1 + 1  BY <1>6
<1> QED  BY <1>5, <1>7 DEF S

-----------------------------------------------------------------------------
(* A body takes a function on D to the function that the right-hand side of *)
(* the recursive definition defines; its value at n depends on the values   *)
(* of its argument below n.                                                 *)
LooksBelow(body, D, V) ==
  /\ body \in [[D -> V] -> [D -> V]]
  /\ \A f, g \in [D -> V] : \A n \in D :
       (\A m \in D : m < n => f[m] = g[m]) => body[f][n] = body[g][n]

SolvesBelow(f, body, D, n) == \A m \in D : m < n => f[m] = body[f][m]

(* Two solutions agree as far as they go.                                   *)
LEMMA SolutionsAgree ==
  ASSUME NEW D \in SUBSET Nat, NEW V, NEW body, LooksBelow(body, D, V),
         NEW f \in [D -> V], NEW g \in [D -> V], NEW n \in Nat,
         SolvesBelow(f, body, D, n), SolvesBelow(g, body, D, n)
  PROVE  \A m \in D : m < n => f[m] = g[m]
<1> DEFINE S == {m \in D : m < n => f[m] = g[m]}
<1>1. ASSUME NEW m \in D, \A k \in D : k < m => k \in S  PROVE m \in S
  <2>1. CASE m < n
    <3>1. \A k \in D : k < m => f[k] = g[k]  BY <1>1, <2>1
    <3>2. body[f][m] = body[g][m]  BY <3>1 DEF LooksBelow
    <3>3. f[m] = g[m]  BY <2>1, <3>2 DEF SolvesBelow
    <3> QED  BY <3>3
  <2>2. CASE ~ (m < n)  BY <2>2
  <2> QED  BY <2>1, <2>2
<1> HIDE DEF S
<1>2. D \subseteq S  BY <1>1, StrongInduction
<1> QED  BY <1>2 DEF S

(* There is a solution below every number.                                  *)
LEMMA SolutionBelow ==
  ASSUME NEW D \in SUBSET Nat, NEW V, V # {}, NEW body, LooksBelow(body, D, V)
  PROVE  \A n \in Nat : \E f \in [D -> V] : SolvesBelow(f, body, D, n)
<1> DEFINE S == {n \in Nat : \E f \in [D -> V] : SolvesBelow(f, body, D, n)}
<1>1. 0 \in S
  <2>1. PICK v \in V : TRUE  OBVIOUS
  <2>2. [m \in D |-> v] \in [D -> V]  OBVIOUS
  <2>3. SolvesBelow([m \in D |-> v], body, D, 0)  BY DEF SolvesBelow
  <2> QED  BY <2>2, <2>3
<1>2. ASSUME NEW n \in Nat, n \in S  PROVE n + 1 \in S
  <2>1. PICK f \in [D -> V] : SolvesBelow(f, body, D, n)  BY <1>2
  <2> DEFINE g == [f EXCEPT ![n] = body[f][n]]
  <2>2. body[f] \in [D -> V]  BY DEF LooksBelow
  <2>3. g \in [D -> V]  BY <2>2
  <2>4. \A m \in D : m < n => g[m] = f[m]  OBVIOUS
  <2>5. n \in D => g[n] = body[f][n]  OBVIOUS
  <2> HIDE DEF g
  <2>6. ASSUME NEW m \in D, m < n + 1  PROVE g[m] = body[g][m]
    <3>1. m <= n /\ \A k \in D : k < m => g[k] = f[k]  BY <2>4, <2>6
    <3>2. body[f][m] = body[g][m]  BY <2>3, <3>1 DEF LooksBelow
    <3>3. CASE m < n  BY <2>1, <2>4, <3>2, <3>3 DEF SolvesBelow
    <3>4. CASE m = n  BY <2>5, <3>2, <3>4
    <3> QED  BY <3>1, <3>3, <3>4
  <2>7. SolvesBelow(g, body, D, n + 1)  BY <2>6 DEF SolvesBelow
  <2> QED  BY <2>3, <2>7
<1> HIDE DEF S
<1>3. Nat \subseteq S  BY <1>1, <1>2, Induction
<1> QED  BY <1>3 DEF S

(* A recursive definition on natural numbers defines a function: the one    *)
(* its equation describes.                                                  *)
LEMMA RecursiveFunction ==
  ASSUME NEW D \in SUBSET Nat, NEW V, V # {}, NEW body, LooksBelow(body, D, V)
  PROVE  \E f \in [D -> V] : f = body[f]
<1> DEFINE Solution(n) == CHOOSE f \in [D -> V] : SolvesBelow(f, body, D, n)
           all == [m \in D |-> Solution(m + 1)[m]]
<1>1. ASSUME NEW n \in Nat
      PROVE  Solution(n) \in [D -> V] /\ SolvesBelow(Solution(n), body, D, n)
  BY SolutionBelow
<1> HIDE DEF Solution
<1>2. all \in [D -> V]
  <2>1. \A m \in D : Solution(m + 1)[m] \in V
    <3> SUFFICES ASSUME NEW m \in D  PROVE Solution(m + 1)[m] \in V  OBVIOUS
    <3>1. m + 1 \in Nat  OBVIOUS
    <3> QED  BY <3>1, <1>1
  <2> QED  BY <2>1
<1>3. ASSUME NEW n \in D  PROVE all[n] = body[all][n]
  <2> DEFINE f == Solution(n + 1)
  <2>1. n + 1 \in Nat /\ n < n + 1  OBVIOUS
  <2>2. f \in [D -> V] /\ SolvesBelow(f, body, D, n + 1)  BY <1>1, <2>1
  <2>3. ASSUME NEW m \in D, m < n  PROVE all[m] = f[m]
    <3> DEFINE g == Solution(m + 1)
    <3>1. m + 1 \in Nat /\ m < m + 1  OBVIOUS
    <3>2. g \in [D -> V] /\ SolvesBelow(g, body, D, m + 1)  BY <1>1, <3>1
    <3>3. SolvesBelow(f, body, D, m + 1)  BY <2>2, <2>3 DEF SolvesBelow
    <3>4. all[m] = g[m]  OBVIOUS
    <3> HIDE DEF f, g, all
    <3>5. g[m] = f[m]  BY <2>2, <3>1, <3>2, <3>3, SolutionsAgree
    <3> QED  BY <3>4, <3>5
  <2>4. all[n] = f[n]  OBVIOUS
  <2> HIDE DEF f, all
  <2>5. body[f][n] = body[all][n]  BY <1>2, <2>2, <2>3 DEF LooksBelow
  <2>6. f[n] = body[f][n]  BY <2>1, <2>2 DEF SolvesBelow
  <2> QED  BY <2>4, <2>5, <2>6
<1> HIDE DEF all
<1>4. body[all] \in [D -> V]  BY <1>2 DEF LooksBelow
<1>5. all = body[all]  BY <1>2, <1>3, <1>4
<1> QED  BY <1>2, <1>5
=============================================================================
