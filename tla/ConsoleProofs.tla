---------------------------- MODULE ConsoleProofs ----------------------------
(***************************************************************************)
(* What goroutines print, for any number of them, whatever they print: no  *)
(* value is lost, repeated or overtaken by a later one of its goroutine,   *)
(* and no end of line is lost, although nothing keeps a value and its end  *)
(* of line together.                                                       *)
(***************************************************************************)
EXTENDS Console, Recursion

(* The recursive definition of Among has a solution.                        *)
Unfolds(among, texts, s) ==
  /\ Among(texts, s) = among[Len(s)]
  /\ among[0] = <<>>
  /\ \A n \in 1 .. Len(s) :
       among[n] = IF s[n] \in texts THEN Append(among[n - 1], s[n]) ELSE among[n - 1]

LEMMA AmongUnfold ==
  ASSUME NEW V, NEW s \in Seq(V), NEW texts
  PROVE  \E among \in [0 .. Len(s) -> Seq(V)] : Unfolds(among, texts, s)
<1> DEFINE D == 0 .. Len(s)
           W == Seq(V)
           Body(g) == [n \in D |->
                         IF n = 0 THEN <<>>
                         ELSE IF s[n] \in texts THEN Append(g[n - 1], s[n]) ELSE g[n - 1]]
           body == [g \in [D -> W] |-> Body(g)]
           among == CHOOSE g : g = Body(g)
<1>1. Len(s) \in Nat /\ D \in SUBSET Nat  OBVIOUS
<1>2. Among(texts, s) = among[Len(s)]  BY Zenon DEF Among
<1>3. ASSUME NEW g \in [D -> W]  PROVE body[g] = Body(g) /\ Body(g) \in [D -> W]
  <2>1. ASSUME NEW n \in D  PROVE Body(g)[n] \in W
    <3>1. CASE n = 0  BY <3>1
    <3>2. CASE n # 0
      <4>1. g[n - 1] \in Seq(V) /\ s[n] \in V  BY <3>2
      <4> QED  BY <3>2, <4>1
    <3> QED  BY <3>1, <3>2
  <2> QED  BY <2>1
<1>4. LooksBelow(body, D, W)
  <2>1. ASSUME NEW f \in [D -> W], NEW g \in [D -> W], NEW n \in D,
               \A m \in D : m < n => f[m] = g[m]
        PROVE  body[f][n] = body[g][n]
    <3>1. n # 0 => n - 1 \in D /\ n - 1 < n  OBVIOUS
    <3>2. n # 0 => f[n - 1] = g[n - 1]  BY <2>1, <3>1
    <3>3. Body(f)[n] = Body(g)[n]  BY <3>2
    <3> HIDE DEF D, W, body, Body
    <3> QED  BY <1>3, <3>3
  <2> HIDE DEF D, W
  <2>2. body \in [[D -> W] -> [D -> W]]  BY <1>3
  <2> HIDE DEF body
  <2> QED  BY <2>1, <2>2 DEF LooksBelow
<1>5. PICK f \in [D -> W] : f = Body(f)
  <2>1. W # {}
    <3>1. <<>> \in W  OBVIOUS
    <3> QED  BY <3>1
  <2> HIDE DEF D, W, body, Body
  <2>2. PICK f \in [D -> W] : f = body[f]  BY <1>1, <1>4, <2>1, RecursiveFunction
  <2> QED  BY <2>2, <1>3
<1>6. among = Body(among)  BY <1>5
<1> HIDE DEF among
<1>7. /\ among[0] = <<>>
      /\ \A n \in 1 .. Len(s) :
           among[n] = IF s[n] \in texts THEN Append(among[n - 1], s[n]) ELSE among[n - 1]
  <2>1. \A n \in D : among[n] = Body(among)[n]  BY <1>6
  <2> QED  BY <1>1, <2>1
<1> DEFINE S == {n \in Nat : n \in D => among[n] \in W}
<1>8. 0 \in S
  <2>1. <<>> \in W  OBVIOUS
  <2> HIDE DEF D, W
  <2> QED  BY <1>7, <2>1
<1>9. ASSUME NEW n \in Nat, n \in S  PROVE n + 1 \in S
  <2> SUFFICES ASSUME n + 1 \in D  PROVE among[n + 1] \in W  OBVIOUS
  <2>1. n + 1 \in 1 .. Len(s) /\ n + 1 - 1 = n /\ n \in D  BY <1>1
  <2>2. among[n] \in Seq(V) /\ s[n + 1] \in V  BY <1>9, <2>1
  <2>3. among[n + 1] = IF s[n + 1] \in texts THEN Append(among[n], s[n + 1]) ELSE among[n]
    BY <1>7, <2>1
  <2> QED  BY <2>2, <2>3
<1> HIDE DEF S
<1>10. Nat \subseteq S  BY <1>8, <1>9, Induction
<1>11. \A n \in D : among[n] \in W  BY <1>1, <1>10 DEF S
<1>12. among = [n \in D |-> among[n]]  BY <1>6
<1>13. among \in [D -> W]
  <2> HIDE DEF D, W
  <2> QED  BY <1>11, <1>12
<1>14. Unfolds(among, texts, s)  BY <1>2, <1>7 DEF Unfolds
<1> QED  BY <1>13, <1>14

LEMMA AmongNothing == ASSUME NEW texts  PROVE Among(texts, <<>>) = <<>>
<1>1. <<>> \in Seq({}) /\ Len(<<>>) = 0  OBVIOUS
<1>2. PICK among : Unfolds(among, texts, <<>>)  BY <1>1, AmongUnfold
<1> QED  BY <1>1, <1>2 DEF Unfolds

LEMMA AmongType ==
  ASSUME NEW V, NEW s \in Seq(V), NEW texts
  PROVE  Among(texts, s) \in Seq(V)
<1>1. Len(s) \in 0 .. Len(s)  OBVIOUS
<1>2. PICK among \in [0 .. Len(s) -> Seq(V)] : Unfolds(among, texts, s)  BY AmongUnfold
<1> QED  BY <1>1, <1>2 DEF Unfolds

(* One more text is among the given ones or not.                            *)
LEMMA AmongAppend ==
  ASSUME NEW V, NEW s \in Seq(V), NEW v \in V, NEW texts
  PROVE  Among(texts, Append(s, v))
           = IF v \in texts THEN Append(Among(texts, s), v) ELSE Among(texts, s)
<1> DEFINE more == Append(s, v)
<1>1. /\ more \in Seq(V) /\ Len(s) \in Nat /\ Len(more) = Len(s) + 1
      /\ more[Len(s) + 1] = v /\ \A n \in 1 .. Len(s) : more[n] = s[n]
  OBVIOUS
<1> HIDE DEF more
<1>2. PICK f \in [0 .. Len(s) -> Seq(V)] : Unfolds(f, texts, s)  BY AmongUnfold
<1>3. PICK g \in [0 .. Len(more) -> Seq(V)] : Unfolds(g, texts, more)  BY <1>1, AmongUnfold
<1> DEFINE S == {n \in Nat : n <= Len(s) => f[n] = g[n]}
<1>4. 0 \in S  BY <1>2, <1>3 DEF Unfolds
<1>5. ASSUME NEW n \in Nat, n \in S  PROVE n + 1 \in S
  <2> SUFFICES ASSUME n + 1 <= Len(s)  PROVE f[n + 1] = g[n + 1]  OBVIOUS
  <2>1. n + 1 \in 1 .. Len(s) /\ n + 1 \in 1 .. Len(more) /\ n + 1 - 1 = n /\ n <= Len(s)
    BY <1>1
  <2>2. f[n] = g[n] /\ more[n + 1] = s[n + 1]  BY <1>1, <1>5, <2>1
  <2>3. f[n + 1] = IF s[n + 1] \in texts THEN Append(f[n], s[n + 1]) ELSE f[n]
    BY <1>2, <2>1 DEF Unfolds
  <2>4. g[n + 1] = IF more[n + 1] \in texts THEN Append(g[n], more[n + 1]) ELSE g[n]
    BY <1>3, <2>1 DEF Unfolds
  <2> QED  BY <2>2, <2>3, <2>4
<1> HIDE DEF S
<1>6. Nat \subseteq S  BY <1>4, <1>5, Induction
<1>7. f[Len(s)] = g[Len(s)]  BY <1>1, <1>6 DEF S
<1>8. Len(s) + 1 \in 1 .. Len(more) /\ Len(s) + 1 - 1 = Len(s)  BY <1>1
<1>9. g[Len(s) + 1]
        = IF more[Len(s) + 1] \in texts THEN Append(g[Len(s)], more[Len(s) + 1]) ELSE g[Len(s)]
  BY <1>3, <1>8 DEF Unfolds
<1>10. Among(texts, more) = g[Len(s) + 1] /\ Among(texts, s) = f[Len(s)]
  BY <1>1, <1>2, <1>3 DEF Unfolds
<1>11. Among(texts, more) = IF v \in texts THEN Append(Among(texts, s), v) ELSE Among(texts, s)
  BY <1>1, <1>7, <1>9, <1>10
<1> QED  BY <1>11 DEF more

(* The head of a sequence moves to the end of the one before it.            *)
LEMMA MoveHead ==
  ASSUME NEW V, NEW s \in Seq(V), NEW p \in Seq(V), p # <<>>
  PROVE  Append(s, Head(p)) \o Tail(p) = s \o p
<1>1. /\ Len(s) \in Nat /\ Len(p) \in Nat /\ Len(p) >= 1
      /\ Tail(p) \in Seq(V) /\ Len(Tail(p)) = Len(p) - 1 /\ Head(p) = p[1] /\ p[1] \in V
      /\ \A i \in 1 .. (Len(p) - 1) : Tail(p)[i] = p[i + 1]
  OBVIOUS
<1> DEFINE one == Append(s, Head(p))
           rest == Tail(p)
<1>2. /\ one \in Seq(V) /\ Len(one) = Len(s) + 1 /\ one[Len(s) + 1] = p[1]
      /\ \A i \in 1 .. Len(s) : one[i] = s[i]
  BY <1>1
<1>3. /\ rest \in Seq(V) /\ Len(rest) = Len(p) - 1
      /\ \A i \in 1 .. (Len(p) - 1) : rest[i] = p[i + 1]
  BY <1>1
<1> HIDE DEF one, rest
<1> DEFINE left == one \o rest
           right == s \o p
<1>4. /\ left \in Seq(V) /\ Len(left) = Len(s) + Len(p)
      /\ \A i \in 1 .. (Len(s) + Len(p)) :
           left[i] = IF i <= Len(s) + 1 THEN one[i] ELSE rest[i - (Len(s) + 1)]
  <2>1. one \in Seq(V) /\ rest \in Seq(V)  BY <1>2, <1>3
  <2>2. /\ left \in Seq(V) /\ Len(left) = Len(one) + Len(rest)
        /\ \A i \in 1 .. (Len(one) + Len(rest)) :
             left[i] = IF i <= Len(one) THEN one[i] ELSE rest[i - Len(one)]
    BY <2>1
  <2>3. Len(one) + Len(rest) = Len(s) + Len(p)  BY <1>1, <1>2, <1>3
  <2> HIDE DEF left
  <2> QED  BY <1>2, <2>2, <2>3
<1>5. /\ right \in Seq(V) /\ Len(right) = Len(s) + Len(p)
      /\ \A i \in 1 .. (Len(s) + Len(p)) :
           right[i] = IF i <= Len(s) THEN s[i] ELSE p[i - Len(s)]
  BY <1>1
<1> HIDE DEF left, right
<1>6. ASSUME NEW i \in 1 .. (Len(s) + Len(p))  PROVE left[i] = right[i]
  <2>1. CASE i <= Len(s)  BY <1>1, <1>2, <1>4, <1>5, <2>1
  <2>2. CASE i = Len(s) + 1  BY <1>1, <1>2, <1>4, <1>5, <2>2
  <2>3. CASE i > Len(s) + 1
    <3>1. i - (Len(s) + 1) \in 1 .. (Len(p) - 1) /\ i - (Len(s) + 1) + 1 = i - Len(s)
      BY <1>1, <2>3
    <3>2. left[i] = rest[i - (Len(s) + 1)] /\ right[i] = p[i - Len(s)]
      BY <1>1, <1>4, <1>5, <2>3
    <3> QED  BY <1>3, <3>1, <3>2
  <2> QED  BY <1>1, <2>1, <2>2, <2>3
<1>7. left = right  BY <1>4, <1>5, <1>6
<1> QED  BY <1>7 DEF left, right, one, rest

-----------------------------------------------------------------------------
(* The inductive invariant: the two properties, the types of the variables, *)
(* and that a goroutine in the middle of a print has a value to print.      *)
AllTexts == {EndOfLine} \cup UNION {Texts(t) : t \in Threads}

Unwritten(t) == IF place[t] = "open" THEN Tail(pending[t]) ELSE pending[t]

Typed ==
  /\ pending = [t \in Threads |-> pending[t]]
  /\ \A t \in Threads : pending[t] \in Seq(Texts(t))
  /\ place \in [Threads -> Places]
  /\ \A t \in Threads : place[t] # "before" => pending[t] # <<>>
  /\ console \in Seq(AllTexts)

InOrder == \A t \in Threads : Written(Texts(t)) \o Unwritten(t) = Prints[t]

LinesBounded == IsFiniteSet(OpenLines) /\ LinesMixBounded

ConsoleInv == Typed /\ InOrder /\ LinesBounded

LEMMA InOrderIsPrinted == InOrder => PrintedInOrder
BY DEF InOrder, PrintedInOrder, Unwritten, OpenLines

LEMMA InitConsole == Init => ConsoleInv
<1> SUFFICES ASSUME Init  PROVE ConsoleInv  OBVIOUS
<1>1. /\ pending = Prints /\ place = [t \in Threads |-> "before"] /\ console = <<>>
      /\ \A t \in Threads : Prints[t] \in Seq(Texts(t))
      /\ Prints = [t \in Threads |-> Prints[t]]
  BY PrintsAssumption DEF Init
<1>2. Typed  BY <1>1 DEF Typed, Places
<1>3. \A texts : Written(texts) = <<>>  BY <1>1, AmongNothing DEF Written
<1>4. InOrder
  <2> SUFFICES ASSUME NEW t \in Threads  PROVE Written(Texts(t)) \o Unwritten(t) = Prints[t]
    BY DEF InOrder
  <2>1. Unwritten(t) = Prints[t] /\ Prints[t] \in Seq(Texts(t))  BY <1>1 DEF Unwritten
  <2> HIDE DEF InOrder
  <2> QED  BY <1>3, <2>1
<1>5. LinesBounded
  <2>1. OpenLines = {}  BY <1>1 DEF OpenLines
  <2>2. IsFiniteSet(OpenLines) /\ Cardinality(OpenLines) = 0  BY <2>1, FS_EmptySet
  <2>3. EndedLines = 0 /\ Len(console) = 0  BY <1>1, <1>3 DEF EndedLines
  <2> QED  BY <2>2, <2>3 DEF LinesBounded, LinesMixBounded
<1> QED  BY <1>2, <1>4, <1>5 DEF ConsoleInv

(* Goroutines are told apart by what they print.                            *)
LEMMA TextsApart ==
  ASSUME NEW t \in Threads
  PROVE  /\ EndOfLine \notin Texts(t) /\ EndOfLine \in AllTexts
         /\ Texts(t) \subseteq AllTexts
         /\ \A u \in Threads \ {t}, v \in Texts(t) : v \notin Texts(u)
BY PrintsAssumption DEF AllTexts

(* One more text on the console.                                            *)
LEMMA WrittenMore ==
  ASSUME Typed, NEW v \in AllTexts, console' = Append(console, v)
  PROVE  /\ console' \in Seq(AllTexts) /\ Len(console') = Len(console) + 1
         /\ \A texts : Written(texts)' = IF v \in texts THEN Append(Written(texts), v)
                                         ELSE Written(texts)
         /\ \A texts : Written(texts) \in Seq(AllTexts)
<1>1. console \in Seq(AllTexts)  BY DEF Typed
<1>2. ASSUME NEW texts
      PROVE  /\ Written(texts)' = IF v \in texts THEN Append(Written(texts), v)
                                  ELSE Written(texts)
             /\ Written(texts) \in Seq(AllTexts)
  BY <1>1, AmongAppend, AmongType DEF Written
<1> QED  BY <1>1, <1>2

(* The steps, for the thread that takes one and the others.                 *)
LEMMA NextConsole == ConsoleInv /\ [Next]_vars => ConsoleInv'
<1> SUFFICES ASSUME ConsoleInv, [Next]_vars  PROVE ConsoleInv'  OBVIOUS
<1> USE DEF ConsoleInv
<1>1. CASE UNCHANGED vars
  <2>1. Typed'  BY <1>1 DEF vars, Typed
  <2>2. InOrder'  BY <1>1 DEF vars, InOrder, Written, Unwritten
  <2>3. LinesBounded'
    BY <1>1 DEF vars, LinesBounded, LinesMixBounded, OpenLines, EndedLines, Written
  <2> QED  BY <2>1, <2>2, <2>3
<1>2. ASSUME NEW t \in Threads, Lock(t) \/ Unlock(t)  PROVE ConsoleInv'
  <2>1. /\ UNCHANGED <<pending, console>> /\ place[t] # "open"
        /\ \E to \in {"guarded", "behind"} : place' = [place EXCEPT ![t] = to]
        /\ pending[t] # <<>>
    BY <1>2 DEF Lock, Unlock, Goto, Typed
  <2>2. /\ place'[t] # "open" /\ \A u \in Threads \ {t} : place'[u] = place[u]
        /\ place' \in [Threads -> Places]
    BY <2>1 DEF Typed, Places
  <2>3. Typed'  BY <2>1, <2>2 DEF Typed
  <2>4. InOrder'
    <3>1. \A u \in Threads : Unwritten(u)' = Unwritten(u)  BY <2>1, <2>2 DEF Unwritten
    <3>2. \A u \in Threads : Written(Texts(u))' = Written(Texts(u))  BY <2>1 DEF Written
    <3> QED  BY <3>1, <3>2 DEF InOrder
  <2>5. LinesBounded'
    <3>1. OpenLines' = OpenLines  BY <2>1, <2>2 DEF OpenLines
    <3>2. EndedLines' = EndedLines  BY <2>1 DEF EndedLines, Written
    <3> QED  BY <2>1, <3>1, <3>2 DEF LinesBounded, LinesMixBounded
  <2> QED  BY <2>3, <2>4, <2>5
<1>3. ASSUME NEW t \in Threads, WriteValue(t)  PROVE ConsoleInv'
  <2> DEFINE v == Head(pending[t])
  <2>1. /\ pending' = pending /\ console' = Append(console, v)
        /\ place[t] = "behind" /\ place' = [place EXCEPT ![t] = "open"]
    BY <1>3 DEF WriteValue, Goto
  <2>2. /\ place'[t] = "open" /\ \A u \in Threads \ {t} : place'[u] = place[u]
        /\ place' \in [Threads -> Places]
    BY <2>1 DEF Typed, Places
  <2>3. pending[t] \in Seq(Texts(t)) /\ pending[t] # <<>>  BY <2>1 DEF Typed
  <2>4. v \in Texts(t)  BY <2>3
  <2>5. v \in AllTexts /\ v # EndOfLine /\ \A u \in Threads \ {t} : v \notin Texts(u)
    BY <2>4, TextsApart
  <2> HIDE DEF v
  <2>6. Typed'  BY <2>1, <2>2, <2>3, <2>5, WrittenMore DEF Typed
  <2>7. InOrder'
    <3>1. ASSUME NEW u \in Threads \ {t}
          PROVE  Written(Texts(u))' \o Unwritten(u)' = Prints[u]
      <4>1. Written(Texts(u))' = Written(Texts(u))  BY <2>1, <2>5, WrittenMore
      <4>2. Unwritten(u)' = Unwritten(u)  BY <2>1, <2>2 DEF Unwritten
      <4> QED  BY <4>1, <4>2 DEF InOrder
    <3>2. Written(Texts(t))' \o Unwritten(t)' = Prints[t]
      <4> DEFINE w == Written(Texts(t))
      <4>1. Written(Texts(t))' = Append(w, v)  BY <2>1, <2>4, <2>5, WrittenMore
      <4>2. Unwritten(t)' = Tail(pending[t]) /\ Unwritten(t) = pending[t]
        BY <2>1, <2>2 DEF Unwritten
      <4>3. w \in Seq(AllTexts)  BY <2>1, <2>5, WrittenMore
      <4>4. pending[t] \in Seq(AllTexts)
        <5>1. Texts(t) \subseteq AllTexts  BY TextsApart
        <5> QED  BY <2>3, <5>1
      <4>5. w \o pending[t] = Prints[t]  BY <4>2 DEF InOrder
      <4> HIDE DEF w
      <4>6. Append(w, v) \o Tail(pending[t]) = w \o pending[t]
        BY <2>3, <4>3, <4>4, MoveHead DEF v
      <4> QED  BY <4>1, <4>2, <4>5, <4>6
    <3> QED  BY <3>1, <3>2 DEF InOrder
  <2>8. LinesBounded'
    <3>1. OpenLines' = OpenLines \cup {t} /\ t \notin OpenLines
      BY <2>1, <2>2 DEF OpenLines
    <3>2. /\ IsFiniteSet(OpenLines') /\ Cardinality(OpenLines') = Cardinality(OpenLines) + 1
          /\ Cardinality(OpenLines) \in Nat
      BY <3>1, FS_AddElement, FS_CardinalityType DEF LinesBounded
    <3>3. Written({EndOfLine})' = Written({EndOfLine})  BY <2>1, <2>5, WrittenMore
    <3>4. EndedLines' = EndedLines  BY <3>3 DEF EndedLines
    <3>5. EndedLines \in Nat
      <4>1. Written({EndOfLine}) \in Seq(AllTexts)  BY <2>1, <2>5, WrittenMore
      <4> QED  BY <4>1 DEF EndedLines
    <3>6. Len(console') = Len(console) + 1 /\ Len(console) \in Nat
      BY <2>1, <2>5, WrittenMore DEF Typed
    <3> QED  BY <3>2, <3>4, <3>5, <3>6 DEF LinesBounded, LinesMixBounded
  <2> QED  BY <2>6, <2>7, <2>8
<1>4. ASSUME NEW t \in Threads, EndLine(t)  PROVE ConsoleInv'
  <2>1. /\ pending' = [pending EXCEPT ![t] = Tail(pending[t])]
        /\ console' = Append(console, EndOfLine)
        /\ place[t] = "open" /\ place' = [place EXCEPT ![t] = "before"]
    BY <1>4 DEF EndLine, Goto
  <2>2. /\ place'[t] = "before" /\ \A u \in Threads \ {t} : place'[u] = place[u]
        /\ place' \in [Threads -> Places]
    BY <2>1 DEF Typed, Places
  <2>3. pending[t] \in Seq(Texts(t)) /\ pending[t] # <<>>  BY <2>1 DEF Typed
  <2>4. Tail(pending[t]) \in Seq(Texts(t))  BY <2>3
  <2>5. /\ pending'[t] = Tail(pending[t])
        /\ \A u \in Threads \ {t} : pending'[u] = pending[u]
        /\ pending' = [u \in Threads |-> pending'[u]]
    BY <2>1 DEF Typed
  <2>6. EndOfLine \in AllTexts /\ \A u \in Threads : EndOfLine \notin Texts(u)
    BY TextsApart
  <2>7. Typed'  BY <2>1, <2>2, <2>4, <2>5, <2>6, WrittenMore DEF Typed
  <2>8. InOrder'
    <3>1. \A u \in Threads : Written(Texts(u))' = Written(Texts(u))
      BY <2>1, <2>6, WrittenMore
    <3>2. \A u \in Threads : Unwritten(u)' = Unwritten(u)
      BY <2>1, <2>2, <2>5 DEF Unwritten
    <3> QED  BY <3>1, <3>2 DEF InOrder
  <2>9. LinesBounded'
    <3>1. OpenLines' = OpenLines \ {t} /\ t \in OpenLines
      BY <2>1, <2>2 DEF OpenLines
    <3>2. /\ IsFiniteSet(OpenLines') /\ Cardinality(OpenLines') = Cardinality(OpenLines) - 1
          /\ Cardinality(OpenLines) \in Nat
      BY <3>1, FS_RemoveElement, FS_CardinalityType DEF LinesBounded
    <3>3. /\ Written({EndOfLine})' = Append(Written({EndOfLine}), EndOfLine)
          /\ Written({EndOfLine}) \in Seq(AllTexts)
      BY <2>1, <2>6, WrittenMore
    <3>4. EndedLines' = EndedLines + 1 /\ EndedLines \in Nat  BY <3>3 DEF EndedLines
    <3>5. Len(console') = Len(console) + 1 /\ Len(console) \in Nat
      BY <2>1, <2>6, WrittenMore DEF Typed
    <3> QED  BY <3>2, <3>4, <3>5 DEF LinesBounded, LinesMixBounded
  <2> QED  BY <2>7, <2>8, <2>9
<1> QED  BY <1>1, <1>2, <1>3, <1>4 DEF Next, Step

(* Whatever the goroutines do to each other while io_mutex keeps none of    *)
(* them apart, what iprint, fprint and sprint have written of each is what  *)
(* it has printed so far, in its order, none of it lost or written twice.   *)
THEOREM PrintedInOrderTheorem == Spec => []PrintedInOrder
<1>1. ConsoleInv => PrintedInOrder  BY InOrderIsPrinted DEF ConsoleInv
<1> QED  BY <1>1, InitConsole, NextConsole, PTL DEF Spec

(* However the lines of goroutines mix, every value but those of goroutines *)
(* between std::cout << value and std::endl has its end of line.            *)
THEOREM LinesMixBoundedTheorem == Spec => []LinesMixBounded
<1>1. ConsoleInv => LinesMixBounded  BY DEF ConsoleInv, LinesBounded
<1> QED  BY <1>1, InitConsole, NextConsole, PTL DEF Spec
=============================================================================
